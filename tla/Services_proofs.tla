---------------------------- MODULE Services_proofs ---------------------------
(***************************************************************************)
(* Theorems about the components of MCServices that are small state        *)
(* machines of their own, one section each, for all values of their        *)
(* constants.                                                              *)
(***************************************************************************)
EXTENDS ShardCache, PresetStore, Submission, Viewer, FileServer, Registry,
        Media, DataLemmas

-----------------------------------------------------------------------------
(***************************************************************************)
(* The shared shard of the v3.0 reader, for any number of threads and      *)
(* shards.                                                                 *)
(***************************************************************************)

(* The path and the table are replaced together, so a hit is a hit of both.*)
CacheInv ==
  /\ reading \in [Thread -> {"idle", "locked", "holding"}]
  /\ wanted \in [Thread -> Shard \cup {NoShard}]
  /\ sliced \in [Thread -> Shard \cup {NoShard}]
  /\ tablePath = table
  /\ SlicesComeFromOwnShard

LEMMA CacheInitially == ShardCacheInit => CacheInv
  BY DEF ShardCacheInit, CacheInv, SlicesComeFromOwnShard

LEMMA CacheStep == CacheInv /\ [ShardCacheNext]_cacheVars => CacheInv'
<1> SUFFICES ASSUME CacheInv, [ShardCacheNext]_cacheVars PROVE CacheInv'
  OBVIOUS
<1> USE DEF CacheInv, SlicesComeFromOwnShard
<1>1. CASE UNCHANGED cacheVars
  BY <1>1 DEF cacheVars
<1>2. ASSUME NEW t \in Thread, Load(t) PROVE CacheInv'
  <2>1. CASE Miss(t) /\ reading'[t] = "holding"
    BY <1>2, <2>1 DEF Load, Miss
  <2>2. CASE ~Miss(t)
    BY <1>2, <2>2 DEF Load, Miss
  <2>3. CASE Miss(t) /\ reading'[t] # "holding"
    BY <1>2, <2>3 DEF Load
  <2> QED BY <2>1, <2>2, <2>3
<1>3. ASSUME NEW t \in Thread, UseSlice(t) PROVE CacheInv'
  BY <1>3 DEF UseSlice
<1>4. ASSUME NEW t \in Thread, NEW s \in Shard, ReadEpisode(t, s) PROVE CacheInv'
  BY <1>4 DEF ReadEpisode
<1> QED BY <1>1, <1>2, <1>3, <1>4 DEF ShardCacheNext

(* A thread that gets rows gets them from its episode's shard.             *)
THEOREM SlicesComeFromOwnShardThm == ShardCacheSpec => []SlicesComeFromOwnShard
<1>1. CacheInv => SlicesComeFromOwnShard
  BY DEF CacheInv
<1> QED BY CacheInitially, CacheStep, <1>1, PTL DEF ShardCacheSpec
-----------------------------------------------------------------------------
(***************************************************************************)
(* The preset store, for any number of savers, kills and restarts.         *)
(***************************************************************************)

SaverStep == {"start", "checked", "writing", "written", "refused", "failed", "saved",
          "killed"}

(* Without overlap one saver is at work, what it has written is in the     *)
(* temporary file, and it has seen that there is no preset or does not     *)
(* care.                                                                   *)
PresetInv ==
  /\ saving \in [Saver -> SaverStep]
  /\ ~overlapped =>
       /\ \A s, u \in AtWork : s = u
       /\ \A s \in Saver : saving[s] = "writing" => temporary # NoPreset
       /\ \A s \in Saver : saving[s] = "written" => temporary = s
       /\ preset # Torn
       /\ preset # NoPreset => AtWork \subseteq MayOverwrite

LEMMA PresetInitially == PresetInit => PresetInv
  BY PresetAssumption DEF PresetInit, PresetInv, AtWork, SaverStep

LEMMA PresetStep == PresetInv /\ [PresetNext]_presetVars => PresetInv'
<1> SUFFICES ASSUME PresetInv, [PresetNext]_presetVars PROVE PresetInv'
  OBVIOUS
<1> USE PresetAssumption DEF PresetInv, AtWork, SaverStep
<1>1. CASE UNCHANGED presetVars
  BY <1>1 DEF presetVars
<1>2. ASSUME NEW s \in Saver, SaveCheck(s) PROVE PresetInv'
  BY <1>2 DEF SaveCheck
<1>3. ASSUME NEW s \in Saver, OpenTemporary(s) PROVE PresetInv'
  BY <1>3 DEF OpenTemporary
<1>4. ASSUME NEW s \in Saver, WriteTemporary(s) PROVE PresetInv'
  BY <1>4 DEF WriteTemporary
<1>5. ASSUME NEW s \in Saver, ReplacePreset(s) PROVE PresetInv'
  BY <1>5 DEF ReplacePreset
<1>6. ASSUME NEW s \in Saver, KillSaver(s) PROVE PresetInv'
  BY <1>6 DEF KillSaver
<1>7. ASSUME NEW s \in Saver, SaveAgain(s) PROVE PresetInv'
  BY <1>7 DEF SaveAgain
<1> QED BY <1>1, <1>2, <1>3, <1>4, <1>5, <1>6, <1>7 DEF PresetNext

(* Savers that follow one another leave whole presets and keep to their    *)
(* permission, however often they are killed.                              *)
THEOREM PresetsStayWholeThm == PresetSpec => []PresetsStayWhole
<1>1. PresetInv => PresetsStayWhole
  BY DEF PresetInv, PresetsStayWhole
<1> QED BY PresetInitially, PresetStep, <1>1, PTL DEF PresetSpec
-----------------------------------------------------------------------------
(***************************************************************************)
(* Creating and submitting a job, for any number of planners, tasks and    *)
(* kills and every sequence of submissions.                                *)
(***************************************************************************)

States == {"waiting", "running", "good", "failed", "cancelled"}

(* Only the maker of the directory goes on to write into it.               *)
CreationInv ==
  /\ creating \in [Planner -> {"scanned", "checked", "refused", "made", "written",
                               "crashed"}]
  /\ planOf \in Planner \cup {Nobody}
  /\ planOf # Nobody => creating[planOf] = "written"
  /\ OnePlannerWins

LEMMA CreationInitially == SubmissionInit => CreationInv
  BY SubmissionAssumption DEF SubmissionInit, CreationInv, OnePlannerWins, jobVars

LEMMA CreationStep == CreationInv /\ [SubmissionNext]_submissionVars => CreationInv'
<1> SUFFICES ASSUME CreationInv, [SubmissionNext]_submissionVars PROVE CreationInv'
  OBVIOUS
<1> USE SubmissionAssumption DEF CreationInv, OnePlannerWins
<1>1. ASSUME NEW p \in Planner, CreateCheck(p) PROVE CreationInv'
  BY <1>1 DEF CreateCheck
<1>2. ASSUME NEW p \in Planner, MakeParts(p) PROVE CreationInv'
  BY <1>2 DEF MakeParts
<1>3. ASSUME NEW p \in Planner, WritePlan(p) PROVE CreationInv'
  <2>1. CASE planOf' = p /\ creating' = [creating EXCEPT ![p] = "written"]
    BY <1>3, <2>1 DEF WritePlan
  <2>2. CASE UNCHANGED planOf /\ creating' = [creating EXCEPT ![p] = "crashed"]
    BY <1>3, <2>2 DEF WritePlan
  <2> QED BY <1>3, <2>1, <2>2 DEF WritePlan
<1>4. CASE UNCHANGED <<creating, partsMade, planOf>>
  BY <1>4
<1>5. CASE \/ \E s \in Submissions : Submit(s)
           \/ \E t \in TaskIds : StartTask(t) \/ EndTask(t) \/ FailTask(t)
           \/ Await \/ LeavePool \/ FinalizeLocal \/ KillSubmitter
           \/ UNCHANGED submissionVars
  BY <1>4, <1>5 DEF Submit, StartTask, EndTask, FailTask, Await, LeavePool,
     FinalizeLocal, KillSubmitter, submissionVars, jobVars
<1> QED BY <1>1, <1>2, <1>3, <1>5 DEF SubmissionNext

(* Of several planners at most one writes plan.json, and only once.        *)
THEOREM OnePlannerWinsThm == SubmissionSpec => []OnePlannerWins
<1>1. CreationInv => OnePlannerWins
  BY DEF CreationInv
<1> QED BY CreationInitially, CreationStep, <1>1, PTL DEF SubmissionSpec
-----------------------------------------------------------------------------
(* What the caller of the local pool has waited for is committed, and no   *)
(* task runs once the pool is left.                                        *)
PoolInv ==
  /\ future \in [TaskIds -> States]
  /\ awaited \in 0 .. Tasks
  /\ \A t \in TaskIds : future[t] = "good" => t \in committed
  /\ committed \subseteq TaskIds
  /\ call.scheduler = "local" =>
       /\ submission \in {"pool", "finalizing"} =>
            \A t \in TaskIds : t < awaited => future[t] = "good"
       /\ submission = "finalizing" => awaited = Tasks
       /\ submission \in {"finalizing", "returned", "raised"} => Running = {}
       /\ submission = "returned" => delivered

LEMMA PoolInitially == SubmissionInit => PoolInv
  BY SubmissionAssumption DEF SubmissionInit, PoolInv, TaskIds, Fresh, States, Running

LEMMA PoolStep == PoolInv /\ [SubmissionNext]_submissionVars => PoolInv'
<1> SUFFICES ASSUME PoolInv, [SubmissionNext]_submissionVars PROVE PoolInv'
  OBVIOUS
<1> USE SubmissionAssumption DEF PoolInv, TaskIds, States, Running
<1>1. CASE UNCHANGED <<poolVars, committed, delivered>>
  BY <1>1 DEF poolVars
<1>2. ASSUME NEW p \in Planner, CreateCheck(p) \/ MakeParts(p) \/ WritePlan(p)
      PROVE PoolInv'
  BY <1>1, <1>2 DEF CreateCheck, MakeParts, WritePlan
<1>3. ASSUME NEW s \in Submissions, Submit(s) PROVE PoolInv'
  <2>1. future' \in [TaskIds -> {"waiting", "cancelled"}]
    BY <1>3 DEF Submit, Fresh
  <2>2. awaited' = 0 /\ UNCHANGED <<committed, delivered>>
    BY <1>3 DEF Submit, jobVars
  <2>3. s.scheduler = "local" => submission' \in {"raised", "pool"} /\ call' = s
    BY <1>3 DEF Submit
  <2>4. call' = s
    BY <1>3 DEF Submit
  <2> QED BY <2>1, <2>2, <2>3, <2>4
<1>4. ASSUME NEW t \in TaskIds, StartTask(t) PROVE PoolInv'
  BY <1>4 DEF StartTask, jobVars
<1>5. ASSUME NEW t \in TaskIds, EndTask(t) PROVE PoolInv'
  <2>1. CASE future' = [future EXCEPT ![t] = "good"]
    BY <1>5, <2>1 DEF EndTask
  <2>2. CASE future' = [future EXCEPT ![t] = "failed"] /\ UNCHANGED delivered
    BY <1>5, <2>2 DEF EndTask
  <2> QED BY <1>5, <2>1, <2>2 DEF EndTask
<1>6. ASSUME NEW t \in TaskIds, FailTask(t) PROVE PoolInv'
  BY <1>6 DEF FailTask, jobVars
<1>7. CASE Await
  <2>1. CASE future[awaited] = "good" /\ awaited' = awaited + 1
             /\ UNCHANGED <<submission, future>>
    BY <1>7, <2>1 DEF Await, jobVars
  <2>2. CASE submission' = "stopping" /\ UNCHANGED awaited
             /\ future' = [t \in TaskIds |-> IF future[t] = "waiting" THEN "cancelled"
                                             ELSE future[t]]
    BY <1>7, <2>2 DEF Await, jobVars
  <2> QED BY <1>7, <2>1, <2>2 DEF Await
<1>8. CASE LeavePool
  BY <1>8 DEF LeavePool, jobVars
<1>9. CASE FinalizeLocal
  <2>1. ASSUME call.scheduler = "local" PROVE committed = TaskIds
    <3>1. submission = "finalizing"
      BY <1>9 DEF FinalizeLocal
    <3>2. awaited = Tasks /\ \A t \in TaskIds : t < awaited => future[t] = "good"
      BY <2>1, <3>1
    <3>3. \A t \in TaskIds : t < Tasks
      OBVIOUS
    <3>4. TaskIds \subseteq committed
      BY <3>2, <3>3
    <3> QED BY <3>4
  <2>2. submission' = "returned" => (delivered' <=> (delivered \/ committed = TaskIds))
    BY <1>9 DEF FinalizeLocal
  <2>3. call.scheduler = "local" /\ submission' = "returned" => delivered'
    BY <2>1, <2>2
  <2>4. submission' \in {"returned", "raised"}
        /\ UNCHANGED <<call, future, awaited, committed>> /\ submission = "finalizing"
    BY <1>9 DEF FinalizeLocal
  <2> QED BY <2>3, <2>4
<1>10. CASE KillSubmitter
  BY <1>10 DEF KillSubmitter
<1>11. CASE UNCHANGED submissionVars
  BY <1>1, <1>11 DEF submissionVars, jobVars
<1> QED BY <1>2, <1>3, <1>4, <1>5, <1>6, <1>7, <1>8, <1>9, <1>10, <1>11
        DEF SubmissionNext

(* A local submission that returns has published the job, and none of its  *)
(* tasks works on.                                                         *)
THEOREM SubmissionDeliversThm == SubmissionSpec => []SubmissionDelivers
<1>1. PoolInv => SubmissionDelivers
  BY DEF PoolInv, SubmissionDelivers
<1> QED BY PoolInitially, PoolStep, <1>1, PTL DEF SubmissionSpec
-----------------------------------------------------------------------------
(***************************************************************************)
(* The cache and the supervision of the visualizer, for any number of      *)
(* commands, of any kind, ended anywhere.                                  *)
(***************************************************************************)

Marks == Version \cup {NoVersion}
Ready == {"prepared", "building", "browser", "started", "supervising"}
Preparing == {"installing", "bun", "prepared", "building", "browser", "started",
              "supervising"}
AnyStep == {"start", "staged", "moved", "unmarked", "installing", "bun", "prepared",
            "building", "browser", "started", "supervising", "terminating",
            "stopping", "ended"}

ViewerTypes ==
  /\ checkout \in Version /\ viewing \in AnyStep
  /\ copy \in Copies \cup {NoVersion} /\ aside \in Copies \cup {NoVersion}
  /\ sourceMark \in Marks /\ dependencyMark \in Marks

(* A marker of the sources tells the version of the copy; a copy whose     *)
(* dependencies are partly installed has no marker that vouches for them.  *)
Marked(c) ==
  sourceMark # NoVersion =>
    /\ c.version = sourceMark \/ "unmarked" \in harm
    /\ c.modules = "partial" => dependencyMark # sourceMark \/ "bun" \in harm

CopyInv ==
  /\ viewing \notin {"unmarked", "bun"} /\ Present => Marked(copy)
  /\ viewing = "moved" => copy = NoVersion /\ (aside # NoVersion => Marked(aside))
  /\ viewing = "unmarked" => Present /\ copy.version = checkout /\ copy.modules = "none"
  /\ viewing \in Preparing => /\ Present /\ sourceMark = checkout
                              /\ copy.version = checkout \/ "unmarked" \in harm
  /\ viewing \in Ready => copy.modules = "whole" \/ "bun" \in harm

ViewerInv == ViewerTypes /\ CopyInv

LEMMA ViewerInitially == ViewerInit => ViewerInv
  BY ViewerAssumption DEF ViewerInit, ViewerInv, ViewerTypes, CopyInv, Present,
     Marks, AnyStep, Preparing, Ready

LEMMA ViewerStep == ViewerInv /\ [ViewerNext]_viewerVars => ViewerInv'
<1> SUFFICES ASSUME ViewerInv, [ViewerNext]_viewerVars PROVE ViewerInv'
  OBVIOUS
<1> USE ViewerAssumption DEF ViewerInv, ViewerTypes, CopyInv, Present, Marked, Marks,
        AnyStep, Preparing, Ready, Copies, Rest, Go, cacheState
<1>1. CASE KeepSource
  BY <1>1 DEF KeepSource
<1>2. CASE StageSource
  BY <1>2 DEF StageSource
<1>3. CASE MoveAside
  BY <1>3 DEF MoveAside
<1>4. CASE InstallSource
  BY <1>4 DEF InstallSource
<1>5. CASE MarkSource
  BY <1>5 DEF MarkSource
<1>6. CASE KeepModules
  BY <1>6 DEF KeepModules
<1>7. CASE BeginInstall
  BY <1>7 DEF BeginInstall
<1>8. CASE EndInstall
  BY <1>8 DEF EndInstall
<1>9. CASE StartServices \/ StartChild \/ OpenBrowser \/ Supervise \/ ChildExits
           \/ Interrupt \/ InterruptAgain \/ KillChild \/ EndSupervision
           \/ StopServices \/ FinishSetup
  BY <1>9 DEF StartServices, StartChild, OpenBrowser, Supervise, ChildExits,
     Interrupt, InterruptAgain, KillChild, EndSupervision, StopServices, FinishSetup
<1>10. CASE FailPreparing
  <2>1. harm \subseteq harm' /\ UNCHANGED checkout /\ viewing' = "ended"
    BY <1>10 DEF FailPreparing
  <2>2. CASE viewing = "unmarked"
    BY <1>10, <2>1, <2>2 DEF FailPreparing, Trap, Ragged
  <2>3. CASE viewing = "bun"
    BY <1>10, <2>1, <2>3 DEF FailPreparing, Trap, Ragged
  <2>4. CASE viewing \in {"staged", "moved", "installing"}
    BY <1>10, <2>1, <2>4 DEF FailPreparing, Ragged
  <2> QED BY <1>10, <2>2, <2>3, <2>4 DEF FailPreparing
<1>11. CASE FailServing
  BY <1>11 DEF FailServing
<1>12. CASE KillViewer
  <2>1. harm \subseteq harm' /\ UNCHANGED <<checkout, copy>> /\ viewing' = "ended"
    BY <1>12 DEF KillViewer
  <2>2. CASE viewing = "unmarked"
    BY <1>12, <2>1, <2>2 DEF KillViewer, Trap, Ragged
  <2>3. CASE viewing = "bun"
    BY <1>12, <2>1, <2>3 DEF KillViewer, Trap, Ragged
  <2>4. CASE viewing \notin {"unmarked", "bun"}
    BY <1>12, <2>1, <2>4 DEF KillViewer, Ragged
  <2> QED BY <2>2, <2>3, <2>4
<1>13. CASE NextLaunch
  BY <1>13 DEF NextLaunch
<1>14. CASE UNCHANGED viewerVars
  BY <1>14 DEF viewerVars
<1> QED BY <1>1, <1>2, <1>3, <1>4, <1>5, <1>6, <1>7, <1>8, <1>9, <1>10, <1>11, <1>12,
        <1>13, <1>14 DEF ViewerNext

(* What is served is current and complete, up to the two known traps.      *)
THEOREM PreparedIsCurrentThm == ViewerSpec => []PreparedIsCurrent
<1>1. ViewerInv => PreparedIsCurrent
  BY DEF ViewerInv, CopyInv, PreparedIsCurrent, Preparing, Ready
<1> QED BY ViewerInitially, ViewerStep, <1>1, PTL DEF ViewerSpec
-----------------------------------------------------------------------------
(* Services and child exist between the steps that start and stop them.    *)
SupervisionInv ==
  /\ services # {} => viewing \in {"building", "browser", "started", "supervising",
                                   "terminating", "stopping"}
  /\ child => \/ viewing \in {"browser", "started", "supervising", "terminating"}
              \/ /\ viewing \in {"stopping", "ended"}
                 /\ abandoned \in {"killed", "browser", "started", "terminating"}

LEMMA SupervisionInitially == ViewerInit => SupervisionInv
  BY DEF ViewerInit, SupervisionInv

LEMMA SupervisionStep == SupervisionInv /\ [ViewerNext]_viewerVars => SupervisionInv'
<1> SUFFICES ASSUME SupervisionInv, [ViewerNext]_viewerVars PROVE SupervisionInv'
  OBVIOUS
<1> USE DEF SupervisionInv, Rest, Go
<1>1. CASE KeepSource \/ StageSource \/ MoveAside \/ InstallSource \/ MarkSource
           \/ KeepModules \/ BeginInstall \/ EndInstall \/ FinishSetup
  BY <1>1 DEF KeepSource, StageSource, MoveAside, InstallSource, MarkSource,
     KeepModules, BeginInstall, EndInstall, FinishSetup
<1>2. CASE StartServices
  BY <1>2 DEF StartServices
<1>3. CASE StartChild
  BY <1>3 DEF StartChild
<1>4. CASE OpenBrowser \/ Supervise \/ ChildExits \/ Interrupt \/ InterruptAgain
           \/ KillChild
  BY <1>4 DEF OpenBrowser, Supervise, ChildExits, Interrupt, InterruptAgain, KillChild
<1>5. CASE EndSupervision \/ StopServices
  BY <1>5 DEF EndSupervision, StopServices
<1>6. CASE FailPreparing
  BY <1>6 DEF FailPreparing
<1>7. CASE FailServing
  BY <1>7 DEF FailServing
<1>8. CASE KillViewer
  BY <1>8 DEF KillViewer
<1>9. CASE NextLaunch
  BY <1>9 DEF NextLaunch
<1>10. CASE UNCHANGED viewerVars
  BY <1>10 DEF viewerVars
<1> QED BY <1>1, <1>2, <1>3, <1>4, <1>5, <1>6, <1>7, <1>8, <1>9, <1>10 DEF ViewerNext

(* A command that has ended leaves no service behind, and the application  *)
(* only if it was killed, broken off before it waited for the application, *)
(* or interrupted once more while it waited for its end.                   *)
THEOREM SupervisionIsCompleteThm == ViewerSpec => []SupervisionIsComplete
<1>1. SupervisionInv => SupervisionIsComplete
  BY DEF SupervisionInv, SupervisionIsComplete
<1> QED BY SupervisionInitially, SupervisionStep, <1>1, PTL DEF ViewerSpec
-----------------------------------------------------------------------------
(***************************************************************************)
(* The ranges of the data service, for files of every size.                *)
(***************************************************************************)

ServerInv ==
  /\ header \in HeaderType /\ stored \in Nat \cup {Gone} /\ size \in Nat
  /\ reply.status \in {0, 200, 206, 404, 416, 500}
  /\ reply.from \in Nat /\ reply.length \in Nat
  /\ opened \in Nat /\ sent \in Nat
  /\ RangesAreExact

LEMMA ServerInitially == ServerInit => ServerInv
  BY FileServerAssumption DEF ServerInit, ServerInv, RangesAreExact, Unknown, Due

LEMMA ServerStep == ServerInv /\ [ServerNext]_serverVars => ServerInv'
<1> SUFFICES ASSUME ServerInv, [ServerNext]_serverVars PROVE ServerInv'
  OBVIOUS
<1> USE FileServerAssumption, OptionalAssumption DEF ServerInv
<1>1. CASE Reject
  <2>0. stored \in Nat /\ body = "due" /\ sent = 0
    BY <1>1 DEF Reject, Gone, RangesAreExact, Due
  <2>1. header' = header /\ stored' = stored /\ size' = stored /\ sent' = 0
        /\ reply' = [status |-> 416, from |-> 0, length |-> 0]
        /\ body' = "due" /\ opened' = opened
    BY <1>1, <2>0 DEF Reject
  <2>2. Asked' = {}
    BY <1>1, <2>0, <2>1
       DEF Reject, Unsatisfiable, Asked, HeaderType, Suffix, End, Least
  <2> QED BY <2>0, <2>1, <2>2 DEF RangesAreExact, Due
<1>2. CASE Accept
  <2>0. stored \in Nat /\ body = "due" /\ sent = 0
    BY <1>2 DEF Accept, Gone, RangesAreExact, Due
  <2>1. header' = header /\ stored' = stored /\ size' = stored /\ sent' = 0
        /\ body' = "due" /\ opened' = opened
    BY <1>2, <2>0 DEF Accept
  <2>2. CASE header.kind = "none"
    <3>1. reply' = [status |-> 200, from |-> 0, length |-> stored]
      BY <1>2, <2>2 DEF Accept
    <3>2. Asked' = 0 .. stored - 1
      BY <2>1, <2>2 DEF Asked
    <3>3. 0 .. (0 + stored) - 1 = 0 .. stored - 1
      BY <2>0
    <3> QED BY <2>0, <2>1, <3>1, <3>2, <3>3 DEF RangesAreExact, Due
  <2>3. CASE header.kind = "range"
    <3>1. reply' = [status |-> 206, from |-> Start, length |-> End - Start]
      BY <1>2, <2>3 DEF Accept
    <3>2. Start \in Nat /\ End \in Nat /\ Start <= End /\ End <= stored
          /\ (Start = End => stored = 0)
      BY <1>2, <2>0, <2>3
         DEF Accept, Unsatisfiable, Start, End, Suffix, Least, HeaderType
    <3>3. ASSUME NEW i \in 0 .. stored - 1
          PROVE Start <= i /\ i < End <=>
                  \/ header.first # NotGiven /\ header.first <= i
                       /\ (header.last = NotGiven \/ i <= header.last)
                  \/ header.first = NotGiven
                       /\ header.last # NotGiven /\ i + header.last >= stored
      BY <1>2, <2>0, <2>3, <3>3
         DEF Accept, Unsatisfiable, Start, End, Suffix, Least, HeaderType
    <3>4. Asked' = {i \in 0 .. stored - 1 : Start <= i /\ i < End}
      BY <2>1, <2>3, <3>3 DEF Asked
    <3>5. Asked' = Start .. (Start + (End - Start)) - 1
      BY <2>0, <3>2, <3>4
    <3>6. Asked' = {} => stored = 0
      BY <2>0, <3>2, <3>4
    <3> QED BY <2>0, <2>1, <3>1, <3>2, <3>5, <3>6 DEF RangesAreExact, Due
  <2> QED BY <1>2, <2>2, <2>3 DEF Accept, Unsatisfiable, HeaderType
<1>3. CASE SendBuffer
  BY <1>3 DEF SendBuffer, RangesAreExact, Asked, Due
<1>4. CASE ReplaceFile
  BY <1>4 DEF ReplaceFile, Gone, RangesAreExact, Asked, Due
<1>5. CASE RefuseFile
  BY <1>5 DEF RefuseFile, RangesAreExact, Asked, Due
<1>6. CASE OpenFile \/ EndBody \/ FailBody
  BY <1>6 DEF OpenFile, EndBody, FailBody, Gone, RangesAreExact, Asked, Due
<1>7. CASE UNCHANGED serverVars
  BY <1>7 DEF serverVars, RangesAreExact, Asked, Due
<1> QED BY <1>1, <1>2, <1>3, <1>4, <1>5, <1>6, <1>7 DEF ServerNext

(* What is announced is what was asked for, no more of the file is ever    *)
(* sent, and an error page only stands where bytes of it are missing.      *)
THEOREM RangesAreExactThm == ServerSpec => []RangesAreExact
<1>1. ServerInv => RangesAreExact
  BY DEF ServerInv
<1> QED BY ServerInitially, ServerStep, <1>1, PTL DEF ServerSpec

-----------------------------------------------------------------------------
(***************************************************************************)
(* The registry of source providers, for any providers and references.     *)
(***************************************************************************)

(* Who has a name has all of its names, is listed, and is accounted for.   *)
Settled(p) ==
  /\ IsFiniteSet(Names(p))
  /\ \A n \in Names(p) : n \in DOMAIN providers /\ providers[n] = p
  /\ p.name \in DOMAIN info /\ p.name \in Range(canonical)

RegistryInv ==
  /\ providers = [n \in DOMAIN providers |-> providers[n]]
  /\ \A n \in DOMAIN providers :
       n \in Names(providers[n]) /\ Settled(providers[n])
  /\ canonical \in Seq(DOMAIN providers) /\ IsInjective(canonical)
  /\ \A i \in DOMAIN canonical : providers[canonical[i]].name = canonical[i]
  /\ \A p \in Range(Builtins) : \A n \in Names(p) :
       n \in DOMAIN providers /\ providers[n] = p

LEMMA RegistryStart == RegistryInit => RegistryInv
<1> SUFFICES ASSUME RegistryInit PROVE RegistryInv
  OBVIOUS
<1> DEFINE D == UNION {Names(p) : p \in Range(Builtins)}
<1>1. /\ Builtins \in Seq(Range(Builtins))
      /\ \A i, j \in DOMAIN Builtins :
           i # j => Names(Builtins[i]) \cap Names(Builtins[j]) = {}
      /\ \A p \in Range(Builtins) : IsFiniteSet(p.aliases)
  BY RegistryAssumption DEF RegistryAssumption
<1>2. \A p, q \in Range(Builtins) : \A n : n \in Names(p) /\ n \in Names(q) => p = q
  BY <1>1 DEF Range
<1>3. /\ providers = [n \in D |-> CHOOSE p \in Range(Builtins) : n \in Names(p)]
      /\ canonical = [i \in DOMAIN Builtins |-> Builtins[i].name]
      /\ info = [n \in Range(canonical) |-> "builtin"]
  BY DEF RegistryInit
<1>4. DOMAIN providers = D /\ providers = [n \in D |-> providers[n]]
  BY <1>3
<1>5. ASSUME NEW p \in Range(Builtins), NEW n \in Names(p)
      PROVE  n \in DOMAIN providers /\ providers[n] = p
  <2>1. n \in D
    OBVIOUS
  <2>2. providers[n] \in Range(Builtins) /\ n \in Names(providers[n])
    BY <1>3, <2>1
  <2> QED BY <1>2, <1>4, <2>1, <2>2
<1>6. DOMAIN canonical = DOMAIN Builtins
      /\ \A i \in DOMAIN Builtins : canonical[i] = Builtins[i].name
                                    /\ Builtins[i] \in Range(Builtins)
  BY <1>3 DEF Range
<1>7. ASSUME NEW p \in Range(Builtins) PROVE Settled(p)
  <2>1. IsFiniteSet(Names(p))
    <3>1. IsFiniteSet(p.aliases) /\ Names(p) = p.aliases \cup {p.name}
      BY <1>1 DEF Names
    <3> QED BY <3>1, FS_AddElement
  <2>2. p.name \in Range(canonical)
    BY <1>6 DEF Range
  <2>3. p.name \in DOMAIN info
    BY <1>3, <2>2
  <2> QED BY <1>5, <2>1, <2>2, <2>3 DEF Settled
<1>8. ASSUME NEW n \in DOMAIN providers
      PROVE  n \in Names(providers[n]) /\ Settled(providers[n])
  <2>1. PICK p \in Range(Builtins) : n \in Names(p)
    BY <1>4
  <2>2. providers[n] = p
    BY <1>5, <2>1
  <2> QED BY <1>7, <2>1, <2>2
<1>9. \A i \in DOMAIN Builtins : canonical[i] \in Names(Builtins[i])
                                 /\ canonical[i] \in DOMAIN providers
                                 /\ providers[canonical[i]] = Builtins[i]
  <2> TAKE i \in DOMAIN Builtins
  <2>1. canonical[i] \in Names(Builtins[i])
    BY <1>6 DEF Names
  <2> QED BY <1>5, <1>6, <2>1
<1>10. canonical \in Seq(DOMAIN providers)
  <2>1. Len(Builtins) \in Nat /\ DOMAIN Builtins = 1 .. Len(Builtins)
    BY <1>1, LenProperties
  <2>2. canonical \in [1 .. Len(Builtins) -> DOMAIN providers]
    BY <1>3, <1>9, <2>1
  <2> QED BY <2>1, <2>2, SeqOfFunction
<1>11. IsInjective(canonical)
  <2> SUFFICES ASSUME NEW i \in DOMAIN Builtins, NEW j \in DOMAIN Builtins,
                      canonical[i] = canonical[j], i # j
               PROVE  FALSE
    BY <1>6 DEF IsInjective
  <2> QED BY <1>1, <1>9
<1>12. \A i \in DOMAIN canonical : providers[canonical[i]].name = canonical[i]
  BY <1>6, <1>9
<1> QED
  BY <1>4, <1>5, <1>8, <1>10, <1>11, <1>12 DEF RegistryInv

(* A provider none of whose names is given yet is entered.                 *)
LEMMA EnteredStays ==
  ASSUME RegistryInv, NEW p, NEW origin, IsFiniteSet(p.aliases),
         Conflicts(p) = {}, Entered(p, origin)
  PROVE  RegistryInv'
<1>1. /\ providers = [n \in DOMAIN providers |-> providers[n]]
      /\ \A n \in DOMAIN providers :
           n \in Names(providers[n]) /\ Settled(providers[n])
      /\ canonical \in Seq(DOMAIN providers) /\ IsInjective(canonical)
      /\ \A i \in DOMAIN canonical : providers[canonical[i]].name = canonical[i]
      /\ \A q \in Range(Builtins) : \A n \in Names(q) :
           n \in DOMAIN providers /\ providers[n] = q
  BY DEF RegistryInv
<1>2. /\ canonical' = Append(canonical, p.name)
      /\ providers' = [n \in DOMAIN providers \cup Names(p) |->
                        IF n \in Names(p) THEN p ELSE providers[n]]
      /\ info' = [n \in DOMAIN info \cup {p.name} |->
                   IF n = p.name THEN origin ELSE info[n]]
  BY DEF Entered, Assign
<1>3. /\ DOMAIN providers' = DOMAIN providers \cup Names(p)
      /\ DOMAIN info' = DOMAIN info \cup {p.name}
      /\ providers' = [n \in DOMAIN providers' |-> providers'[n]]
      /\ \A n \in Names(p) : providers'[n] = p
      /\ \A n \in DOMAIN providers : n \notin Names(p) /\ providers'[n] = providers[n]
  BY <1>2 DEF Conflicts
<1>4. p.name \in Names(p) /\ p.name \notin DOMAIN providers
  BY <1>3 DEF Names
<1> DEFINE l == Len(canonical)
<1>5. /\ l \in Nat /\ DOMAIN canonical = 1 .. l
      /\ \A i \in 1 .. l : canonical[i] \in DOMAIN providers
  BY <1>1, LenProperties, ElementOfSeq
<1>6. /\ canonical' \in Seq(DOMAIN providers')
      /\ Len(canonical') = l + 1 /\ canonical'[l + 1] = p.name
      /\ \A i \in 1 .. l : canonical'[i] = canonical[i]
  <2>1. canonical \in Seq(DOMAIN providers') /\ p.name \in DOMAIN providers'
    <3>1. DOMAIN providers \subseteq DOMAIN providers'
      BY <1>3
    <3>2. canonical \in Seq(DOMAIN providers')
      BY <1>1, <3>1, SeqMonotonic
    <3> QED BY <1>3, <1>4, <3>2
  <2> QED BY <1>2, <2>1, AppendProperties
<1>7. DOMAIN canonical' = 1 .. l + 1
  BY <1>6, LenProperties
<1>8. \A i \in 1 .. l + 1 : i \in 1 .. l \/ i = l + 1
  BY <1>5
<1>9. IsInjective(canonical')
  <2> SUFFICES ASSUME NEW i \in 1 .. l + 1, NEW j \in 1 .. l + 1,
                      canonical'[i] = canonical'[j]
               PROVE  i = j
    BY <1>7 DEF IsInjective
  <2>1. CASE i \in 1 .. l /\ j \in 1 .. l
    BY <1>1, <1>5, <1>6, <2>1 DEF IsInjective
  <2>2. CASE ~(i \in 1 .. l /\ j \in 1 .. l)
    BY <1>4, <1>5, <1>6, <1>8, <2>2
  <2> QED BY <2>1, <2>2
<1>10. Range(canonical') = Range(canonical) \cup {p.name}
  <2>1. l + 1 \in 1 .. l + 1 /\ \A i \in 1 .. l : i \in 1 .. l + 1
    BY <1>5
  <2> QED BY <1>5, <1>6, <1>7, <1>8, <2>1 DEF Range
<1>11. ASSUME NEW i \in 1 .. l + 1 PROVE providers'[canonical'[i]].name = canonical'[i]
  BY <1>1, <1>3, <1>4, <1>5, <1>6, <1>8
<1>12. ASSUME NEW n \in DOMAIN providers'
       PROVE  (n \in Names(providers[n]) /\ Settled(providers[n]))'
  <2>1. CASE n \in Names(p)
    <3>1. IsFiniteSet(Names(p))
      <4>1. Names(p) = p.aliases \cup {p.name}
        BY DEF Names
      <4> QED BY <4>1, FS_AddElement
    <3>2. providers'[n] = p
      BY <1>3, <2>1
    <3>3. /\ \A m \in Names(p) : m \in DOMAIN providers' /\ providers'[m] = p
          /\ p.name \in DOMAIN info' /\ p.name \in Range(canonical')
      BY <1>3, <1>10
    <3> QED BY <2>1, <3>1, <3>2, <3>3 DEF Settled
  <2>2. CASE n \in DOMAIN providers
    <3>1. providers'[n] = providers[n]
      BY <1>3, <2>2
    <3>2. n \in Names(providers[n]) /\ Settled(providers[n])
      BY <1>1, <2>2
    <3> DEFINE q == providers[n]
    <3>3. /\ IsFiniteSet(Names(q))
          /\ \A m \in Names(q) : m \in DOMAIN providers /\ providers[m] = q
          /\ q.name \in DOMAIN info /\ q.name \in Range(canonical)
      BY <3>2 DEF Settled
    <3>4. /\ \A m \in Names(q) : m \in DOMAIN providers' /\ providers'[m] = q
          /\ q.name \in DOMAIN info' /\ q.name \in Range(canonical')
      BY <1>3, <1>10, <3>3
    <3> QED BY <3>1, <3>2, <3>3, <3>4 DEF Settled
  <2> QED BY <1>3, <2>1, <2>2
<1>13. \A q \in Range(Builtins) : \A n \in Names(q) :
         n \in DOMAIN providers' /\ providers'[n] = q
  BY <1>1, <1>3
<1> QED
  BY <1>3, <1>6, <1>7, <1>9, <1>11, <1>12, <1>13 DEF RegistryInv

LEMMA RegistryStep ==
  ASSUME RegistryInv, [RegistryNext]_registryVars
  PROVE  RegistryInv'
<1>1. CASE UNCHANGED <<providers, canonical, info>>
  BY <1>1 DEF RegistryInv, Settled
<1>2. CASE UNCHANGED registryVars
  BY <1>1, <1>2 DEF registryVars
<1>3. ASSUME NEW p \in Applicants, Register(p) PROVE RegistryInv'
  <2>1. IsFiniteSet(p.aliases)
    BY RegistryAssumption DEF RegistryAssumption
  <2>2. CASE Named(p) /\ Conflicts(p) = {}
    <3>1. Entered(p, "application")
      BY <1>3, <2>2 DEF Register
    <3> QED BY <2>1, <2>2, <3>1, EnteredStays
  <2>3. CASE ~(Named(p) /\ Conflicts(p) = {})
    BY <1>1, <1>3, <2>3 DEF Register
  <2> QED BY <2>2, <2>3
<1>4. CASE LoadReference
  <2> DEFINE p == Current.provider
  <2>1. IsFiniteSet(p.aliases)
    BY <1>4, RegistryAssumption DEF RegistryAssumption, LoadReference, Current, Looking
  <2>2. Conflicts(p) = {} /\ Entered(p, Current.kind)
    BY <1>4 DEF LoadReference
  <2> HIDE DEF p
  <2> QED BY <2>1, <2>2, EnteredStays
<1>5. CASE Discover \/ SkipReference \/ RaiseReference \/ EndDiscovery
  BY <1>1, <1>5 DEF Discover, SkipReference, RaiseReference, EndDiscovery
<1> QED
  BY <1>2, <1>3, <1>4, <1>5 DEF RegistryNext

(* The names of one provider after the other, once each.                   *)
LEMMA ChoicesAreNames ==
  ASSUME RegistryInv
  PROVE  IsInjective(ProviderChoices) /\ Range(ProviderChoices) = DOMAIN providers
<1> DEFINE S == DOMAIN providers
           l == Len(canonical)
           P(i) == providers[canonical[i]]
           seqs == [i \in DOMAIN canonical |-> SetToSeq(Names(providers[canonical[i]]))]
           all == FlattenSeq(seqs)
<1>1. /\ \A n \in S : n \in Names(providers[n]) /\ Settled(providers[n])
      /\ canonical \in Seq(S) /\ IsInjective(canonical)
      /\ \A i \in DOMAIN canonical : P(i).name = canonical[i]
  BY DEF RegistryInv
<1>2. /\ l \in Nat /\ DOMAIN canonical = 1 .. l
      /\ \A i \in 1 .. l : canonical[i] \in S
  BY <1>1, LenProperties, ElementOfSeq
<1>3. ASSUME NEW i \in 1 .. l
      PROVE  /\ IsFiniteSet(Names(P(i))) /\ Names(P(i)) \subseteq S
             /\ \A n \in Names(P(i)) : providers[n] = P(i)
  BY <1>1, <1>2 DEF Settled
<1>4. ASSUME NEW i \in 1 .. l
      PROVE  /\ seqs[i] \in Seq(S) /\ IsInjective(seqs[i])
             /\ Range(seqs[i]) = Names(P(i))
             /\ DOMAIN seqs[i] = 1 .. Len(seqs[i])
  <2> DEFINE N == Names(P(i))
  <2>1. seqs[i] = SetToSeq(N)
    BY <1>2
  <2>2. IsFiniteSet(N) /\ N \subseteq S
    BY <1>3
  <2> HIDE DEF N, seqs
  <2>3. seqs[i] \in Seq(N) /\ IsInjective(seqs[i]) /\ Range(seqs[i]) = N
    BY <2>1, <2>2, SetToSeqIs
  <2>4. seqs[i] \in Seq(S)
    BY <2>2, <2>3, SeqMonotonic
  <2>5. DOMAIN seqs[i] = 1 .. Len(seqs[i])
    BY <2>3, LenProperties
  <2> QED BY <2>3, <2>4, <2>5 DEF N
<1>5. DOMAIN seqs = 1 .. l /\ seqs = [i \in 1 .. l |-> seqs[i]]
  BY <1>2
<1> HIDE DEF seqs
<1>6. seqs \in Seq(Seq(S)) /\ Len(seqs) = l
  <2>1. seqs \in [1 .. l -> Seq(S)]
    BY <1>4, <1>5
  <2> HIDE DEF l, S
  <2> QED BY <1>2, <2>1, SeqOfFunction
<1>7. PICK off : Positions(off, seqs, S)
  BY <1>6, PositionsExist
<1>8. /\ all \in Seq(S) /\ Len(all) = off[l + 1]
      /\ \A k \in 1 .. l : \A j \in 1 .. Len(seqs[k]) :
           off[k] + j \in 1 .. off[l + 1] /\ all[off[k] + j] = seqs[k][j]
  <2> HIDE DEF l, S
  <2>1. /\ all \in Seq(S) /\ Len(all) = off[Len(seqs) + 1]
        /\ \A k \in 1 .. Len(seqs) : \A j \in 1 .. Len(seqs[k]) :
             off[k] + j \in 1 .. off[Len(seqs) + 1] /\ all[off[k] + j] = seqs[k][j]
    BY <1>7, FlattenAt
  <2> QED BY <1>6, <2>1
<1>9. ASSUME NEW x \in 1 .. Len(all)
      PROVE  \E k \in 1 .. l : \E j \in 1 .. Len(seqs[k]) : x = off[k] + j
  <2>1. x \in 1 .. off[Len(seqs) + 1]
    BY <1>6, <1>8
  <2> HIDE DEF all
  <2>2. \E k \in 1 .. Len(seqs) : \E j \in 1 .. Len(seqs[k]) : x = off[k] + j
    BY <1>7, <2>1, FlattenCover
  <2> QED BY <1>6, <2>2
<1>10. DOMAIN all = 1 .. Len(all)
  BY <1>8, LenProperties
<1> HIDE DEF all
<1>11. ASSUME NEW k \in 1 .. l, NEW j \in 1 .. Len(seqs[k])
       PROVE  all[off[k] + j] \in Names(P(k)) /\ providers[all[off[k] + j]] = P(k)
  <2>1. all[off[k] + j] = seqs[k][j] /\ j \in DOMAIN seqs[k]
    BY <1>4, <1>8
  <2>2. seqs[k][j] \in Names(P(k))
    BY <1>4, <2>1 DEF Range
  <2> QED BY <1>3, <2>1, <2>2
<1>12. IsInjective(all)
  <2> SUFFICES ASSUME NEW x \in 1 .. Len(all), NEW y \in 1 .. Len(all), all[x] = all[y]
               PROVE  x = y
    BY <1>10 DEF IsInjective
  <2>1. PICK k \in 1 .. l : \E j \in 1 .. Len(seqs[k]) : x = off[k] + j
    BY <1>9
  <2>2. PICK j \in 1 .. Len(seqs[k]) : x = off[k] + j
    BY <2>1
  <2>3. PICK h \in 1 .. l : \E i \in 1 .. Len(seqs[h]) : y = off[h] + i
    BY <1>9
  <2>4. PICK i \in 1 .. Len(seqs[h]) : y = off[h] + i
    BY <2>3
  <2>5. P(k) = P(h)
    BY <1>11, <2>2, <2>4
  <2>6. canonical[k] = canonical[h]
    BY <1>1, <1>2, <2>5
  <2>7. k = h
    BY <1>1, <1>2, <2>6 DEF IsInjective
  <2>8. seqs[k][j] = seqs[k][i]
    BY <1>8, <2>2, <2>4, <2>7
  <2>9. j = i
    BY <1>4, <2>7, <2>8 DEF IsInjective
  <2> QED BY <2>2, <2>4, <2>7, <2>9
<1>13. ASSUME NEW n \in S PROVE \E x \in DOMAIN all : all[x] = n
  <2>1. n \in Names(providers[n]) /\ providers[n].name \in Range(canonical)
        /\ providers[providers[n].name] = providers[n]
    BY <1>1 DEF Settled, Names
  <2>2. PICK k \in 1 .. l : canonical[k] = providers[n].name
    BY <1>2, <2>1 DEF Range
  <2>3. n \in Range(seqs[k])
    BY <1>4, <2>1, <2>2
  <2>4. PICK j \in 1 .. Len(seqs[k]) : seqs[k][j] = n
    BY <1>4, <2>3 DEF Range
  <2>5. off[k] + j \in 1 .. off[l + 1]
    BY <1>8
  <2> QED BY <1>8, <1>10, <2>4, <2>5
<1>14. \A x \in DOMAIN all : all[x] \in S
  BY <1>8, <1>10, ElementOfSeq
<1>15. Range(all) = S
  BY <1>13, <1>14 DEF Range
<1> QED
  BY <1>12, <1>15 DEF all, seqs, ProviderChoices

(* Whatever providers are built in, registered and referred to, and        *)
(* whatever calls of discover have failed: a name stays with the provider  *)
(* that had it first, and the choices offered are all names, once each     *)
(* (SourceProviderRegistry.register, discover and choices).                *)
THEOREM NamesStayWithTheirProviderThm == RegistrySpec => []NamesStayWithTheirProvider
<1>1. RegistryInit => RegistryInv
  BY RegistryStart
<1>2. RegistryInv /\ [RegistryNext]_registryVars => RegistryInv'
  BY RegistryStep
<1>3. RegistryInv => NamesStayWithTheirProvider
  <2> SUFFICES ASSUME RegistryInv PROVE NamesStayWithTheirProvider
    OBVIOUS
  <2>1. IsInjective(ProviderChoices) /\ Range(ProviderChoices) = DOMAIN providers
    BY ChoicesAreNames
  <2>2. \A n \in DOMAIN providers :
          providers[providers[n].name] = providers[n] /\ providers[n].name \in DOMAIN info
    BY DEF RegistryInv, Settled, Names
  <2> QED BY <2>1, <2>2 DEF RegistryInv, NamesStayWithTheirProvider
<1> QED
  BY <1>1, <1>2, <1>3, PTL DEF RegistrySpec

-----------------------------------------------------------------------------
(***************************************************************************)
(* Encoding of still images, for any inputs and batches: the inductive     *)
(* invariant says where in the output every frame is that has been         *)
(* encoded, by the numbers of frames of the inputs before its own.         *)
(***************************************************************************)

Picture == [of: Nat \X Nat, intra: BOOLEAN]
Image(i, n) == [of |-> <<i, n>>, intra |-> n = 1]

(* What has been encoded of input i when n frames of input k have been.    *)
EncodedSoFar(inputs, i, k, n) == IF i < k THEN inputs[i] ELSE n

Filmed(packets, inputs, k, n) ==
  /\ packets \in Seq(Picture)
  /\ Len(packets) = PlaceOf(inputs, k) + n
  /\ \A i \in 1 .. k : \A f \in 1 .. EncodedSoFar(inputs, i, k, n) :
       packets[PlaceOf(inputs, i) + f] = Image(i, f)

Target == [state: {"absent", "partial", "whole"}, packets: Seq(Picture)]

Filming ==
  /\ medium \in {"encoding", "publishing", "done", "failed"}
  /\ \E t \in Target : targets = <<t>>
  /\ input \in 1 .. Len(media.inputs) /\ frames \in 0 .. media.inputs[input]
  /\ medium # "failed" => Filmed(targets[1].packets, media.inputs, input, frames)
  /\ medium \in {"publishing", "done"} =>
       input = Len(media.inputs) /\ frames = media.inputs[input]
  /\ medium = "failed" /\ targets[1] # Nothing =>
       ~media.staged /\ ~media.sameFilesystem

MediaInv == media \in EncodeJobs => Filming

LEMMA JobType ==
  ASSUME NEW j \in EncodeJobs
  PROVE  /\ j.batch \in Nat \ {0} /\ j \notin SplitJobs
         /\ j.inputs \in Seq(Nat) /\ Len(j.inputs) \in Nat \ {0}
         /\ j.inputs \in [1 .. Len(j.inputs) -> Nat]
<1>1. j \in [inputs: Seq(Nat) \ {<<>>}, batch: Nat \ {0},
             staged: BOOLEAN, sameFilesystem: BOOLEAN]
  BY MediaAssumption DEF MediaAssumption
<1>2. j.inputs \in Seq(Nat) /\ j.inputs # <<>> /\ j.batch \in Nat \ {0}
  BY <1>1
<1>3. Len(j.inputs) \in Nat \ {0} /\ j.inputs \in [1 .. Len(j.inputs) -> Nat]
  BY <1>2, LenProperties, EmptySeq
<1>4. j \notin SplitJobs
  <2> SUFFICES ASSUME j \in SplitJobs PROVE FALSE
    OBVIOUS
  <2>1. j \in [clips: Seq(Clip), wanted: Seq(Nat), staged: BOOLEAN, native: BOOLEAN]
    BY MediaAssumption DEF MediaAssumption
  <2>2. DOMAIN j = {"clips", "wanted", "staged", "native"}
    BY <2>1
  <2>3. DOMAIN j = {"inputs", "batch", "staged", "sameFilesystem"}
    BY <1>1
  <2> QED BY <2>2, <2>3
<1> QED BY <1>2, <1>3, <1>4

(* No input starts before the one in front of it ends.                     *)
LEMMA PlacesAscend ==
  ASSUME NEW m \in Nat, NEW inputs \in [1 .. m -> Nat], NEW i \in 1 .. m,
         NEW k \in 1 .. m + 1, i < k
  PROVE  PlaceOf(inputs, i + 1) <= PlaceOf(inputs, k)
<1> DEFINE S(x) == PlaceOf(inputs, x)
           Good == {d \in Nat : i + 1 + d <= m + 1 => S(i + 1) <= S(i + 1 + d)}
<1>1. /\ \A x \in 1 .. m + 1 : S(x) \in Nat
      /\ \A x \in 1 .. m : S(x + 1) = S(x) + inputs[x]
  BY PlacesAdd
<1> HIDE DEF S
<1>2. 0 \in Good
  <2>1. i + 1 \in 1 .. m + 1 /\ i + 1 + 0 = i + 1
    OBVIOUS
  <2>2. S(i + 1) \in Nat
    BY <1>1, <2>1
  <2> QED BY <2>1, <2>2
<1>3. ASSUME NEW d \in Good PROVE d + 1 \in Good
  <2> SUFFICES ASSUME i + 1 + (d + 1) <= m + 1
               PROVE  S(i + 1) <= S(i + 1 + (d + 1))
    OBVIOUS
  <2>1. /\ i + 1 + d \in 1 .. m /\ i + 1 \in 1 .. m + 1
        /\ i + 1 + d \in 1 .. m + 1
        /\ i + 1 + (d + 1) = (i + 1 + d) + 1
    OBVIOUS
  <2>2. S(i + 1) <= S(i + 1 + d)
    BY <2>1
  <2>3. S((i + 1 + d) + 1) = S(i + 1 + d) + inputs[i + 1 + d]
    BY <1>1, <2>1
  <2>4. /\ S(i + 1) \in Nat /\ S(i + 1 + d) \in Nat
        /\ inputs[i + 1 + d] \in Nat
    BY <1>1, <2>1
  <2>5. S(i + 1) <= S((i + 1 + d) + 1)
    BY <2>2, <2>3, <2>4
  <2> QED BY <2>1, <2>5
<1>4. Good = Nat
  <2>1. Good \in SUBSET Nat
    OBVIOUS
  <2> HIDE DEF Good
  <2> QED BY <1>2, <1>3, <2>1, SetInduction
<1>5. k - (i + 1) \in Nat /\ i + 1 + (k - (i + 1)) = k /\ k <= m + 1
  OBVIOUS
<1>6. k - (i + 1) \in Good
  <2> HIDE DEF Good
  <2> QED BY <1>4, <1>5
<1>7. S(i + 1) <= S(k)
  BY <1>5, <1>6
<1> QED BY <1>7 DEF S

(* A batch is put behind what has been encoded before.                     *)
LEMMA BatchIsFilmed ==
  ASSUME NEW m \in Nat, NEW inputs \in [1 .. m -> Nat],
         NEW k \in 1 .. m, NEW n \in Nat, NEW l \in Nat, n + l <= inputs[k],
         NEW packets, Filmed(packets, inputs, k, n)
  PROVE  Filmed(packets \o [f \in 1 .. l |-> Image(k, n + f)], inputs, k, n + l)
<1> DEFINE batch == [f \in 1 .. l |-> Image(k, n + f)]
           all == packets \o batch
           s == PlaceOf(inputs, k)
<1>1. /\ packets \in Seq(Picture) /\ Len(packets) = s + n
      /\ \A i \in 1 .. k : \A f \in 1 .. EncodedSoFar(inputs, i, k, n) :
           packets[PlaceOf(inputs, i) + f] = Image(i, f)
  BY DEF Filmed
<1>2. batch \in Seq(Picture) /\ Len(batch) = l
  <2>1. batch \in [1 .. l -> Picture]
    <3>1. \A f \in 1 .. l : Image(k, n + f) \in Picture
      BY DEF Image, Picture
    <3> QED BY <3>1
  <2> HIDE DEF batch
  <2> QED BY <2>1, SeqOfFunction
<1>3. \A f \in 1 .. l : batch[f] = Image(k, n + f)
  OBVIOUS
<1>4. /\ \A i \in 1 .. k : i \in 1 .. m /\ PlaceOf(inputs, i) \in Nat
      /\ s \in Nat
      /\ \A i \in 1 .. m : PlaceOf(inputs, i + 1) = PlaceOf(inputs, i) + inputs[i]
  <2>1. \A i \in 1 .. k : i \in 1 .. m /\ i \in 1 .. m + 1
    OBVIOUS
  <2>2. k \in 1 .. m + 1
    OBVIOUS
  <2> QED BY <2>1, <2>2, PlacesAdd
<1> HIDE DEF batch, s
<1>5. /\ all \in Seq(Picture) /\ Len(all) = s + n + l
      /\ \A x \in 1 .. s + n + l :
           all[x] = IF x <= s + n THEN packets[x] ELSE batch[x - (s + n)]
  <2>1. /\ all \in Seq(Picture) /\ Len(all) = Len(packets) + Len(batch)
        /\ \A x \in 1 .. Len(packets) + Len(batch) :
             all[x] = IF x <= Len(packets) THEN packets[x] ELSE batch[x - Len(packets)]
    BY <1>1, <1>2, ConcatProperties
  <2> HIDE DEF all
  <2> QED BY <1>1, <1>2, <2>1
<1> HIDE DEF all
<1>6. ASSUME NEW i \in 1 .. k, NEW f \in 1 .. EncodedSoFar(inputs, i, k, n + l)
      PROVE  all[PlaceOf(inputs, i) + f] = Image(i, f)
  <2> DEFINE x == PlaceOf(inputs, i) + f
  <2>1. CASE f \in 1 .. EncodedSoFar(inputs, i, k, n)
    <3>1. packets[x] = Image(i, f)
      BY <1>1, <2>1
    <3>2. x \in 1 .. s + n
      <4>1. CASE i = k
        BY <1>4, <2>1, <4>1 DEF EncodedSoFar, s
      <4>2. CASE i < k
        <5>1. i + 1 \in 1 .. k /\ PlaceOf(inputs, i + 1) <= s
          BY <4>2, PlacesAscend DEF s
        <5>2. PlaceOf(inputs, i + 1) = PlaceOf(inputs, i) + inputs[i]
              /\ PlaceOf(inputs, i) \in Nat /\ inputs[i] \in Nat
          BY <1>4
        <5>3. f \in 1 .. inputs[i]
          BY <2>1, <4>2 DEF EncodedSoFar
        <5>4. f \in Nat /\ 1 <= f /\ f <= inputs[i] /\ s \in Nat
          BY <1>4, <5>2, <5>3
        <5> QED BY <5>1, <5>2, <5>4
      <4> QED BY <4>1, <4>2
    <3> HIDE DEF x
    <3>3. x \in 1 .. s + n + l /\ x <= s + n
      BY <1>4, <3>2
    <3>4. all[x] = packets[x]
      BY <1>5, <3>3
    <3> QED BY <3>1, <3>4 DEF x
  <2>2. CASE f \notin 1 .. EncodedSoFar(inputs, i, k, n)
    <3>1. i = k /\ f \in n + 1 .. n + l
      <4>1. i = k
        BY <2>2 DEF EncodedSoFar
      <4> QED BY <2>2, <4>1 DEF EncodedSoFar
    <3>2. x = s + f
      BY <3>1 DEF s
    <3> HIDE DEF x
    <3>3. x \in 1 .. s + n + l /\ ~(x <= s + n) /\ x - (s + n) = f - n
          /\ f - n \in 1 .. l /\ n + (f - n) = f
      BY <1>4, <3>1, <3>2
    <3>4. all[x] = batch[f - n]
      BY <1>5, <3>3
    <3>5. batch[f - n] = Image(k, f)
      BY <1>3, <3>3
    <3> QED BY <3>1, <3>4, <3>5 DEF x
  <2> QED BY <2>1, <2>2
<1>7. Len(all) = s + (n + l)
  BY <1>4, <1>5
<1>8. Filmed(all, inputs, k, n + l)
  BY <1>5, <1>6, <1>7, Zenon DEF Filmed, s
<1> QED
  BY <1>8 DEF all, batch

LEMMA NothingIsFilmed ==
  ASSUME NEW m \in Nat \ {0}, NEW inputs \in [1 .. m -> Nat]
  PROVE  Filmed(<<>>, inputs, 1, 0)
<1>1. PlaceOf(inputs, 1) = 0
  BY PlacesAdd
<1>2. <<>> \in Seq(Picture) /\ Len(<<>>) = 0
  BY EmptySeq
<1>3. \A i \in 1 .. 1 : \A f \in 1 .. EncodedSoFar(inputs, i, 1, 0) : FALSE
  BY DEF EncodedSoFar
<1> QED
  BY <1>1, <1>2, <1>3 DEF Filmed

(* When all of an input has been encoded, none of the next one has.        *)
LEMMA NextIsFilmed ==
  ASSUME NEW m \in Nat, NEW inputs \in [1 .. m -> Nat], NEW k \in 1 .. m,
         NEW packets, Filmed(packets, inputs, k, inputs[k])
  PROVE  Filmed(packets, inputs, k + 1, 0)
<1>1. /\ packets \in Seq(Picture) /\ Len(packets) = PlaceOf(inputs, k) + inputs[k]
      /\ \A i \in 1 .. k : \A f \in 1 .. EncodedSoFar(inputs, i, k, inputs[k]) :
           packets[PlaceOf(inputs, i) + f] = Image(i, f)
  BY DEF Filmed
<1>2. k + 1 \in 1 .. m + 1 /\ PlaceOf(inputs, k + 1) \in Nat
      /\ PlaceOf(inputs, k + 1) = PlaceOf(inputs, k) + inputs[k]
  <2>1. k + 1 \in 1 .. m + 1
    OBVIOUS
  <2> QED BY <2>1, PlacesAdd
<1>3. Len(packets) = PlaceOf(inputs, k + 1) + 0
  BY <1>1, <1>2
<1>4. ASSUME NEW i \in 1 .. k + 1, NEW f \in 1 .. EncodedSoFar(inputs, i, k + 1, 0)
      PROVE  packets[PlaceOf(inputs, i) + f] = Image(i, f)
  <2>1. i < k + 1
    BY DEF EncodedSoFar
  <2>2. i \in 1 .. k /\ EncodedSoFar(inputs, i, k + 1, 0) = inputs[i]
        /\ EncodedSoFar(inputs, i, k, inputs[k]) = inputs[i]
    BY <2>1 DEF EncodedSoFar
  <2> QED BY <1>1, <2>2
<1> QED
  BY <1>1, <1>3, <1>4, Zenon DEF Filmed

(* All inputs, one after the other.                                        *)
LEMMA AllIsFilmed ==
  ASSUME NEW m \in Nat \ {0}, NEW inputs \in Seq(Nat), Len(inputs) = m,
         NEW packets, Filmed(packets, inputs, m, inputs[m])
  PROVE  packets = FlattenSeq([i \in DOMAIN inputs |->
                     [n \in 1 .. inputs[i] |-> [of |-> <<i, n>>, intra |-> n = 1]]])
<1> DEFINE all == [i \in DOMAIN inputs |->
                    [n \in 1 .. inputs[i] |-> [of |-> <<i, n>>, intra |-> n = 1]]]
           off == [k \in 1 .. m + 1 |-> PlaceOf(inputs, k)]
<1>0. inputs \in [1 .. m -> Nat] /\ DOMAIN inputs = 1 .. m
  BY LenProperties
<1>1. \A i \in 1 .. m : all[i] = [n \in 1 .. inputs[i] |-> Image(i, n)]
  BY <1>0 DEF Image
<1>2. ASSUME NEW i \in 1 .. m
      PROVE  /\ inputs[i] \in Nat /\ all[i] \in Seq(Picture) /\ Len(all[i]) = inputs[i]
             /\ \A n \in 1 .. inputs[i] : all[i][n] = Image(i, n)
  <2>1. all[i] \in [1 .. inputs[i] -> Picture] /\ inputs[i] \in Nat
    <3>1. inputs[i] \in Nat
      BY <1>0
    <3>2. \A n \in 1 .. inputs[i] : Image(i, n) \in Picture
      BY <3>1 DEF Image, Picture
    <3>3. all[i] = [n \in 1 .. inputs[i] |-> Image(i, n)]
      BY <1>1
    <3> HIDE DEF all
    <3> QED BY <3>1, <3>2, <3>3
  <2>2. \A n \in 1 .. inputs[i] : all[i][n] = Image(i, n)
    BY <1>1
  <2> HIDE DEF all
  <2>3. all[i] \in Seq(Picture) /\ Len(all[i]) = inputs[i]
    BY <2>1, SeqOfFunction
  <2> QED BY <2>1, <2>2, <2>3
<1>3. all = [i \in 1 .. m |-> all[i]]
  BY <1>0
<1> HIDE DEF all
<1>4. all \in [1 .. m -> Seq(Picture)]
  BY <1>2, <1>3
<1>5. all \in Seq(Seq(Picture)) /\ Len(all) = m
  BY <1>4, SeqOfFunction
<1>6. /\ \A k \in 1 .. m + 1 : off[k] = PlaceOf(inputs, k) /\ off[k] \in Nat
      /\ off[1] = 0
      /\ \A k \in 1 .. m : off[k + 1] = off[k] + inputs[k]
  <2>1. /\ PlaceOf(inputs, 1) = 0
        /\ \A i \in 1 .. m + 1 : PlaceOf(inputs, i) \in Nat
        /\ \A i \in 1 .. m : PlaceOf(inputs, i + 1) = PlaceOf(inputs, i) + inputs[i]
    BY <1>0, PlacesAdd
  <2>2. \A k \in 1 .. m : k \in 1 .. m + 1 /\ k + 1 \in 1 .. m + 1
    OBVIOUS
  <2>3. 1 \in 1 .. m + 1
    OBVIOUS
  <2> QED BY <2>1, <2>2, <2>3
<1>6a. off = [k \in 1 .. m + 1 |-> off[k]]
  OBVIOUS
<1> HIDE DEF off
<1>7. Positions(off, all, Picture)
  <2>1. \A k \in 1 .. m : off[k + 1] = off[k] + Len(all[k])
    BY <1>2, <1>6
  <2>2. off \in [1 .. m + 1 -> Nat]
    BY <1>6, <1>6a
  <2> QED BY <1>5, <1>6, <2>1, <2>2 DEF Positions
<1>8. LaidOut(packets, off, all, Picture)
  <2>1. packets \in Seq(Picture) /\ Len(packets) = PlaceOf(inputs, m) + inputs[m]
        /\ \A i \in 1 .. m : \A f \in 1 .. EncodedSoFar(inputs, i, m, inputs[m]) :
             packets[PlaceOf(inputs, i) + f] = Image(i, f)
    BY DEF Filmed
  <2>2. m \in 1 .. m /\ m + 1 \in 1 .. m + 1 /\ m \in 1 .. m + 1
    OBVIOUS
  <2>3. Len(packets) = off[m + 1]
    BY <1>6, <2>1, <2>2
  <2>4. ASSUME NEW k \in 1 .. m, NEW j \in 1 .. Len(all[k])
        PROVE  packets[off[k] + j] = all[k][j]
    <3>1. j \in 1 .. inputs[k] /\ all[k][j] = Image(k, j)
      BY <1>2
    <3>2. EncodedSoFar(inputs, k, m, inputs[m]) = inputs[k]
      BY DEF EncodedSoFar
    <3>3. k \in 1 .. m + 1
      OBVIOUS
    <3>4. off[k] = PlaceOf(inputs, k)
      BY <1>6, <3>3
    <3> QED BY <2>1, <3>1, <3>2, <3>4
  <2> QED BY <1>5, <2>1, <2>3, <2>4 DEF LaidOut
<1>9. packets = FlattenSeq(all)
  BY <1>7, <1>8, FlattenIs
<1> QED
  BY <1>9 DEF all

LEMMA MediaStart == MediaInit => MediaInv
<1> SUFFICES ASSUME MediaInit, media \in EncodeJobs PROVE Filming
  BY DEF MediaInv
<1>1. /\ media.inputs \in Seq(Nat) /\ Len(media.inputs) \in Nat \ {0}
      /\ media.inputs \in [1 .. Len(media.inputs) -> Nat]
      /\ media \notin SplitJobs
  BY JobType
<1>2. medium = "encoding" /\ targets = <<Nothing>> /\ frames = 0 /\ input = 1
  BY <1>1 DEF MediaInit
<1>3. Nothing \in Target /\ Nothing.packets = <<>>
  BY EmptySeq DEF Nothing, Target
<1>4. targets[1] = Nothing /\ \E t \in Target : targets = <<t>>
  BY <1>2, <1>3
<1>5. Filmed(<<>>, media.inputs, 1, 0)
  BY <1>1, NothingIsFilmed
<1>6. input \in 1 .. Len(media.inputs) /\ frames \in 0 .. media.inputs[input]
  BY <1>1, <1>2
<1> QED
  BY <1>2, <1>3, <1>4, <1>5, <1>6 DEF Filming

(* Nothing that only splits files is done for an encoding.                 *)
LEMMA OnlyEncodes ==
  ASSUME Filming, media \in EncodeJobs
  PROVE  ~(CopyWhole \/ OpenSlice \/ RoutePacket \/ EndSplit \/ FailSplit)
BY DEF Filming, CopyWhole, OpenSlice, RoutePacket, EndSplit, FailSplit, Splitting

LEMMA BatchIsEncoded ==
  ASSUME Filming, media \in EncodeJobs, EncodeBatch
  PROVE  Filming'
<1> DEFINE inputs == media.inputs
           m == Len(media.inputs)
           l == Min({media.batch, Left})
           batch == [n \in 1 .. l |-> Image(input, frames + n)]
           packets == targets[1].packets \o batch
<1>1. /\ media.batch \in Nat \ {0} /\ m \in Nat \ {0} /\ inputs \in [1 .. m -> Nat]
  BY JobType
<1>2. /\ input \in 1 .. m /\ frames \in Nat /\ inputs[input] \in Nat
      /\ frames <= inputs[input] /\ Left = inputs[input] - frames
      /\ medium = "encoding"
      /\ Filmed(targets[1].packets, inputs, input, frames)
  <2>1. inputs[input] \in Nat
    BY <1>1 DEF Filming
  <2> QED BY <2>1 DEF Filming, Left, EncodeBatch
<1>3. l \in Nat /\ frames + l <= inputs[input]
  <2> DEFINE both == {media.batch, Left}
  <2>1. Left \in Nat /\ media.batch \in Nat
    BY <1>1, <1>2
  <2>2. IsFiniteSet(both)
    BY PairIsFinite
  <2>3. both \in SUBSET Int /\ both # {} /\ Left \in both /\ both \in SUBSET Nat
    BY <2>1
  <2> HIDE DEF both
  <2>4. Min(both) \in both /\ \A x \in both : Min(both) <= x
    BY <2>2, <2>3, FiniteMin
  <2>5. Min(both) \in Nat /\ Min(both) <= Left
    BY <2>3, <2>4
  <2> QED BY <1>2, <2>5 DEF both
<1>4. /\ media' = media /\ medium' = medium /\ input' = input
      /\ targets' = <<[state |-> "partial", packets |-> packets]>>
      /\ frames' = frames + Len(batch)
  BY Zenon DEF EncodeBatch, Image
<1> HIDE DEF l
<1>5. Len(batch) = l
  <2>1. batch = [n \in 1 .. l |-> batch[n]]
    OBVIOUS
  <2> HIDE DEF batch
  <2> QED BY <1>3, <2>1, LenOfFunction
<1>6. Filmed(packets, inputs, input, frames + l)
  <2> HIDE DEF inputs, m
  <2>1. Filmed(targets[1].packets \o [f \in 1 .. l |-> Image(input, frames + f)],
               inputs, input, frames + l)
    BY <1>1, <1>2, <1>3, BatchIsFilmed
  <2> QED BY <2>1 DEF packets, batch
<1> HIDE DEF batch, packets
<1>7. targets'[1].packets = packets /\ \E t \in Target : targets' = <<t>>
  <2>1. packets \in Seq(Picture)
    BY <1>6 DEF Filmed
  <2>2. [state |-> "partial", packets |-> packets] \in Target
    BY <2>1 DEF Target
  <2> QED BY <1>4, <2>2
<1>8. frames' = frames + l /\ frames' \in 0 .. inputs[input]
  BY <1>2, <1>3, <1>4, <1>5
<1> QED
  BY <1>2, <1>4, <1>6, <1>7, <1>8 DEF Filming

LEMMA MediaStep ==
  ASSUME MediaInv, [MediaNext]_mediaVars
  PROVE  MediaInv'
<1> SUFFICES ASSUME media' \in EncodeJobs PROVE Filming'
  BY DEF MediaInv
<1>0. media' = media
  BY DEF MediaNext, mediaVars, CopyWhole, OpenSlice, RoutePacket, EndSplit,
         FailSplit, NextInput, EncodeBatch, EndEncode, FailEncode, PublishMedia
<1>1. media \in EncodeJobs /\ Filming
  BY <1>0 DEF MediaInv
<1>2. /\ Len(media.inputs) \in Nat \ {0}
      /\ media.inputs \in [1 .. Len(media.inputs) -> Nat]
  BY <1>1, JobType
<1>3. CASE UNCHANGED mediaVars
  BY <1>1, <1>3 DEF Filming, mediaVars
<1>4. CASE NextInput
  <2>1. /\ input + 1 \in 1 .. Len(media.inputs) /\ input \in 1 .. Len(media.inputs)
        /\ medium = "encoding" /\ frames = media.inputs[input]
        /\ Filmed(targets[1].packets, media.inputs, input, media.inputs[input])
    <3>1. input \in 1 .. Len(media.inputs) /\ frames \in Nat
          /\ medium = "encoding" /\ media.inputs[input] - frames = 0
          /\ input < Len(media.inputs)
      BY <1>1, <1>2, <1>4 DEF Filming, NextInput, Left
    <3>2. media.inputs[input] \in Nat
      BY <1>2, <3>1
    <3>3. frames = media.inputs[input] /\ input + 1 \in 1 .. Len(media.inputs)
      BY <1>2, <3>1, <3>2
    <3> QED BY <1>1, <3>1, <3>3 DEF Filming
  <2>2. Len(media.inputs) \in Nat
    BY <1>2
  <2>3. Filmed(targets[1].packets, media.inputs, input + 1, 0)
    BY <1>2, <2>1, <2>2, NextIsFilmed
  <2>4. 0 \in 0 .. media.inputs[input + 1]
    BY <1>2, <2>1
  <2>5. /\ medium' = medium /\ targets' = targets /\ input' = input + 1
        /\ frames' = 0 /\ media' = media
    BY <1>4 DEF NextInput
  <2>6. \E t \in Target : targets = <<t>>
    BY <1>1 DEF Filming
  <2> QED BY <2>1, <2>3, <2>4, <2>5, <2>6 DEF Filming
<1>5. CASE EncodeBatch
  BY <1>1, <1>5, BatchIsEncoded
<1>6. CASE EndEncode
  <2>1. input = Len(media.inputs) /\ frames = media.inputs[input]
    <3>1. frames \in Nat /\ media.inputs[input] - frames = 0
          /\ input \in 1 .. Len(media.inputs)
      BY <1>1, <1>2, <1>6 DEF Filming, EndEncode, Left
    <3>2. media.inputs[input] \in Nat
      BY <1>2, <3>1
    <3> QED BY <1>6, <3>1, <3>2 DEF EndEncode
  <2> QED BY <1>1, <1>6, <2>1 DEF Filming, EndEncode
<1>7. CASE FailEncode
  <2>1. Nothing \in Target
    BY EmptySeq DEF Nothing, Target
  <2>2. targets' = <<Nothing>> /\ medium' = "failed" /\ UNCHANGED <<media, input, frames>>
    BY <1>7 DEF FailEncode
  <2> QED BY <1>1, <2>1, <2>2 DEF Filming
<1>8. CASE PublishMedia
  <2>1. PICK t \in Target : targets = <<t>>
    BY <1>1 DEF Filming
  <2>2. /\ UNCHANGED <<media, input, frames>> /\ medium = "publishing"
        /\ \/ targets' = <<[t EXCEPT !.state = "whole"]>> /\ medium' = "done"
           \/ /\ ~media.staged /\ ~media.sameFilesystem
              /\ medium' = "failed" /\ UNCHANGED targets
    BY <1>8, <2>1 DEF PublishMedia
  <2>3. [t EXCEPT !.state = "whole"] \in Target
        /\ [t EXCEPT !.state = "whole"].packets = t.packets
    BY DEF Target
  <2> DEFINE u == [t EXCEPT !.state = "whole"]
  <2>4. CASE targets' = <<u>> /\ medium' = "done"
    <3> HIDE DEF u
    <3>1. targets'[1].packets = targets[1].packets /\ \E v \in Target : targets' = <<v>>
      BY <2>1, <2>3, <2>4 DEF u
    <3> QED BY <1>1, <2>2, <2>4, <3>1 DEF Filming
  <2>5. CASE ~media.staged /\ ~media.sameFilesystem /\ medium' = "failed"
             /\ UNCHANGED targets
    BY <1>1, <2>2, <2>5 DEF Filming
  <2> QED BY <2>2, <2>4, <2>5
<1>9. ~(CopyWhole \/ OpenSlice \/ RoutePacket \/ EndSplit \/ FailSplit)
  BY <1>1, OnlyEncodes
<1> QED
  BY <1>3, <1>4, <1>5, <1>6, <1>7, <1>8, <1>9 DEF MediaNext

LEMMA InvIsComplete == MediaInv => EncodingIsComplete
<1> SUFFICES ASSUME MediaInv, media \in EncodeJobs PROVE EncodingIsComplete
  BY DEF MediaInv, EncodingIsComplete
<1>1. Filming /\ media.inputs \in Seq(Nat) /\ Len(media.inputs) \in Nat \ {0}
  BY JobType DEF MediaInv
<1>2. ASSUME medium = "done"
      PROVE  targets[1].packets =
               FlattenSeq([i \in DOMAIN media.inputs |->
                 [n \in 1 .. media.inputs[i] |-> [of |-> <<i, n>>, intra |-> n = 1]]])
  <2> DEFINE m == Len(media.inputs)
  <2>1. Filmed(targets[1].packets, media.inputs, m, media.inputs[m])
    BY <1>1, <1>2 DEF Filming
  <2>2. m \in Nat \ {0} /\ media.inputs \in Seq(Nat) /\ Len(media.inputs) = m
    BY <1>1
  <2> HIDE DEF m
  <2> QED BY <2>1, <2>2, AllIsFilmed
<1>3. medium = "failed" /\ targets[1] # Nothing =>
        ~media.staged /\ ~media.sameFilesystem
  BY <1>1 DEF Filming
<1> QED
  BY <1>2, <1>3, Zenon DEF EncodingIsComplete

(* An encoded file that is reported as written holds every frame of every  *)
(* input once and in order, each input beginning with an intra frame, for  *)
(* any numbers of inputs, frames and frames of a batch (write_media_group  *)
(* and _encode_frame_sequences); what a failure leaves is gone, or was     *)
(* being copied from another file system.                                  *)
THEOREM EncodingIsCompleteThm == MediaSpec => []EncodingIsComplete
<1>1. MediaInit => MediaInv
  BY MediaStart
<1>2. MediaInv /\ [MediaNext]_mediaVars => MediaInv'
  BY MediaStep
<1>3. MediaInv => EncodingIsComplete
  BY InvIsComplete
<1> QED
  BY <1>1, <1>2, <1>3, PTL DEF MediaSpec

-----------------------------------------------------------------------------
(***************************************************************************)
(* Splitting what was concatenated, for any clips and any slices of them.  *)
(* A packet arrives at or after the beginning of a clip exactly when as    *)
(* many packets as the clips before it have are read already; so how far   *)
(* each output is follows from the number of packets read.                 *)
(***************************************************************************)

Raw == [stream: {"video", "audio"}, at: Nat]
Stamped == [stream: {"video", "audio"}, at: Nat, of: Nat \X Nat]

Clips(clips) ==
  /\ Len(clips) \in Nat /\ DOMAIN clips = 1 .. Len(clips)
  /\ \A i \in 1 .. Len(clips) :
       /\ clips[i].packets \in Seq(Raw) /\ Len(clips[i].packets) \in Nat \ {0}
       /\ DOMAIN clips[i].packets = 1 .. Len(clips[i].packets)
       /\ clips[i].length \in Nat \ {0}

Wanted(picked, clips) ==
  /\ Len(picked) \in Nat \ {0} /\ picked \in [1 .. Len(picked) -> 1 .. Len(clips)]
  /\ \A k, l \in 1 .. Len(picked) : k < l => picked[k] < picked[l]

(* The clips follow one another in the file as in the metadata.            *)
InTime(clips) ==
  /\ \A i : Displacement(clips, i) = From(clips, i)
  /\ \A c \in Range(clips) : \A n \in DOMAIN c.packets : c.packets[n].at < c.length

(* Packet n of clip i, in the file of all clips and in a file of its own.  *)
Shifted(clips, i, n) ==
  [stream |-> clips[i].packets[n].stream,
   at |-> clips[i].packets[n].at + From(clips, i), of |-> <<i, n>>]
Own(clips, i, n) ==
  [stream |-> clips[i].packets[n].stream, at |-> clips[i].packets[n].at,
   of |-> <<i, n>>]

(* The packets of clip i are those behind the first off[i].                *)
Belt(clips, off) ==
  /\ off \in [1 .. Len(clips) + 1 -> Nat] /\ off[1] = 0
  /\ \A i \in 1 .. Len(clips) : off[i + 1] = off[i] + Len(clips[i].packets)
  /\ \A i, k \in 1 .. Len(clips) + 1 : i < k => off[i] < off[k]
  /\ Concatenated(clips) \in Seq(Stamped)
  /\ Len(Concatenated(clips)) = off[Len(clips) + 1]
  /\ \A i \in 1 .. Len(clips) : \A n \in 1 .. Len(clips[i].packets) :
       Concatenated(clips)[off[i] + n] = Shifted(clips, i, n)

(* What the assumptions say of a job.                                      *)
LEMMA SplitType ==
  ASSUME NEW j \in SplitJobs
  PROVE  Clips(j.clips) /\ Wanted(j.wanted, j.clips) /\ j \notin EncodeJobs
<1>1. j \in [clips: Seq(Clip), wanted: Seq(Nat) \ {<<>>},
             staged: BOOLEAN, native: BOOLEAN]
  BY MediaAssumption DEF MediaAssumption
<1>2. /\ \A c \in Range(j.clips) : c.length > 0 /\ c.packets # <<>>
      /\ \A k \in DOMAIN j.wanted : j.wanted[k] \in DOMAIN j.clips
      /\ \A k, l \in DOMAIN j.wanted : k < l => j.wanted[k] < j.wanted[l]
  BY MediaAssumption DEF MediaAssumption
<1>3. /\ j.clips \in Seq(Clip) /\ Len(j.clips) \in Nat
      /\ DOMAIN j.clips = 1 .. Len(j.clips)
  BY <1>1, LenProperties
<1>4. ASSUME NEW i \in 1 .. Len(j.clips)
      PROVE  /\ j.clips[i].packets \in Seq(Raw)
             /\ Len(j.clips[i].packets) \in Nat \ {0}
             /\ DOMAIN j.clips[i].packets = 1 .. Len(j.clips[i].packets)
             /\ j.clips[i].length \in Nat \ {0}
  <2>1. j.clips[i] \in Clip /\ j.clips[i] \in Range(j.clips)
    BY <1>3, ElementOfSeq DEF Range
  <2>2. /\ j.clips[i].packets \in Seq(Raw) /\ j.clips[i].length \in Nat
        /\ j.clips[i].length > 0 /\ j.clips[i].packets # <<>>
    BY <1>2, <2>1 DEF Clip, Raw
  <2>3. /\ Len(j.clips[i].packets) \in Nat \ {0}
        /\ DOMAIN j.clips[i].packets = 1 .. Len(j.clips[i].packets)
    BY <2>2, LenProperties, EmptySeq
  <2> QED BY <2>2, <2>3
<1>5. Clips(j.clips)
  BY <1>3, <1>4 DEF Clips
<1>6. /\ Len(j.wanted) \in Nat \ {0} /\ DOMAIN j.wanted = 1 .. Len(j.wanted)
      /\ j.wanted \in [1 .. Len(j.wanted) -> Nat]
  <2>1. j.wanted \in Seq(Nat) /\ j.wanted # <<>>
    BY <1>1
  <2> QED BY <2>1, LenProperties, EmptySeq
<1>7. Wanted(j.wanted, j.clips)
  BY <1>2, <1>3, <1>6 DEF Wanted
<1>8. j \notin EncodeJobs
  BY JobType
<1> QED BY <1>5, <1>7, <1>8

(* Without sound that outlasts the picture they do.                        *)
LEMMA InStepInTime ==
  ASSUME NEW j \in SplitJobs, InStep(j.clips)
  PROVE  InTime(j.clips)
<1>1. \A i \in DOMAIN j.clips : j.clips[i].duration = j.clips[i].length
  BY DEF InStep, Range
<1>2. Lasting(j.clips) = Lengths(j.clips)
  BY <1>1 DEF Lasting, Lengths
<1>3. \A i : Displacement(j.clips, i) = From(j.clips, i)
  BY <1>2 DEF Displacement, From
<1>4. ASSUME NEW c \in Range(j.clips), NEW n \in DOMAIN c.packets
      PROVE  c.packets[n].at < c.length
  <2>1. c.packets[n].at < c.duration
    BY MediaAssumption DEF MediaAssumption
  <2> QED BY <2>1 DEF InStep
<1> QED
  BY <1>3, <1>4 DEF InTime

(* Where the clips begin and end in time.                                  *)
Times(clips) ==
  /\ \A i \in 1 .. Len(clips) + 1 : From(clips, i) \in Nat
  /\ From(clips, 1) = 0
  /\ \A i \in 1 .. Len(clips) :
       /\ From(clips, i + 1) = From(clips, i) + clips[i].length
       /\ To(clips, i) = From(clips, i + 1)
  /\ \A i, k \in 1 .. Len(clips) + 1 : i < k => From(clips, i) < From(clips, k)

LEMMA TimesAre ==
  ASSUME NEW clips, Clips(clips)
  PROVE  Times(clips)
<1> DEFINE m == Len(clips)
           lens == Lengths(clips)
           f == [i \in 1 .. m + 1 |-> From(clips, i)]
<1>1. /\ m \in Nat /\ lens \in [1 .. m -> Nat]
      /\ \A i \in 1 .. m : lens[i] = clips[i].length /\ clips[i].length \in Nat \ {0}
  BY DEF Clips, Lengths
<1>2. \A i : From(clips, i) = PlaceOf(lens, i)
  BY DEF From, PlaceOf
<1>3. /\ PlaceOf(lens, 1) = 0
      /\ \A k \in 1 .. m + 1 : PlaceOf(lens, k) \in Nat
      /\ \A k \in 1 .. m : PlaceOf(lens, k + 1) = PlaceOf(lens, k) + lens[k]
  <2> HIDE DEF m, lens
  <2> QED BY <1>1, PlacesAdd
<1> HIDE DEF m, lens
<1>4. /\ f \in [1 .. m + 1 -> Nat] /\ From(clips, 1) = 0
      /\ \A i \in 1 .. m + 1 : From(clips, i) \in Nat /\ f[i] = From(clips, i)
  BY <1>2, <1>3
<1>5. \A i \in 1 .. m : /\ From(clips, i + 1) = From(clips, i) + clips[i].length
                        /\ To(clips, i) = From(clips, i + 1)
  BY <1>1, <1>2, <1>3 DEF To
<1>6. \A i \in 1 .. m : f[i] < f[i + 1]
  <2> TAKE i \in 1 .. m
  <2>1. i \in 1 .. m + 1 /\ i + 1 \in 1 .. m + 1
    BY <1>1
  <2>2. f[i] = From(clips, i) /\ f[i + 1] = From(clips, i + 1) /\ From(clips, i) \in Nat
    BY <1>4, <2>1
  <2> HIDE DEF f
  <2>3. From(clips, i + 1) = From(clips, i) + clips[i].length
    BY <1>5
  <2>4. clips[i].length \in Nat \ {0}
    BY <1>1
  <2> QED BY <2>2, <2>3, <2>4
<1>7. \A i, k \in 1 .. m + 1 : i < k => f[i] < f[k]
  <2> HIDE DEF f
  <2> QED BY <1>1, <1>4, <1>6, Growing
<1>8. \A i, k \in 1 .. m + 1 : i < k => From(clips, i) < From(clips, k)
  <2> HIDE DEF f
  <2> QED BY <1>4, <1>7
<1> QED
  BY <1>4, <1>5, <1>8 DEF Times, m

(* There are such places.                                                  *)
LEMMA BeltExists ==
  ASSUME NEW clips, Clips(clips), InTime(clips)
  PROVE  \E off : Belt(clips, off)
<1> DEFINE m == Len(clips)
           piece(i) == [n \in DOMAIN clips[i].packets |-> Shifted(clips, i, n)]
           pieces == [i \in DOMAIN clips |-> piece(i)]
<1>1. /\ m \in Nat /\ DOMAIN clips = 1 .. m
      /\ \A i \in 1 .. m : From(clips, i) \in Nat
  BY TimesAre DEF Clips, Times
<1>2. ASSUME NEW i \in 1 .. m
      PROVE  /\ piece(i) \in Seq(Stamped) /\ Len(piece(i)) = Len(clips[i].packets)
             /\ \A n \in 1 .. Len(clips[i].packets) :
                  piece(i)[n] = Shifted(clips, i, n)
  <2>1. /\ clips[i].packets \in Seq(Raw) /\ Len(clips[i].packets) \in Nat
        /\ DOMAIN clips[i].packets = 1 .. Len(clips[i].packets)
    BY DEF Clips
  <2>2. ASSUME NEW n \in 1 .. Len(clips[i].packets)
        PROVE  Shifted(clips, i, n) \in Stamped
    <3>1. clips[i].packets[n] \in Raw
      BY <2>1, ElementOfSeq
    <3>2. From(clips, i) \in Nat /\ i \in Nat /\ n \in Nat
      BY <1>1
    <3>3. clips[i].packets[n].stream \in {"video", "audio"} /\ clips[i].packets[n].at \in Nat
      BY <3>1 DEF Raw
    <3>4. clips[i].packets[n].at + From(clips, i) \in Nat
      BY <3>2, <3>3
    <3> QED BY <3>2, <3>3, <3>4 DEF Shifted, Stamped
  <2>3. piece(i) \in [1 .. Len(clips[i].packets) -> Stamped]
    BY <2>1, <2>2
  <2>4. piece(i) \in Seq(Stamped) /\ Len(piece(i)) = Len(clips[i].packets)
    <3> HIDE DEF piece
    <3> QED BY <2>1, <2>3, SeqOfFunction
  <2>5. \A n \in 1 .. Len(clips[i].packets) : piece(i)[n] = Shifted(clips, i, n)
    BY <2>1
  <2> QED BY <2>4, <2>5
<1>3. pieces \in Seq(Seq(Stamped)) /\ Len(pieces) = m
      /\ \A i \in 1 .. m : pieces[i] = piece(i)
  <2>1. pieces \in [1 .. m -> Seq(Stamped)]
    <3> HIDE DEF piece
    <3> QED BY <1>1, <1>2
  <2>2. \A i \in 1 .. m : pieces[i] = piece(i)
    BY <1>1
  <2> HIDE DEF pieces, m
  <2> QED BY <1>1, <2>1, <2>2, SeqOfFunction
<1>4. Concatenated(clips) = FlattenSeq(pieces)
  BY DEF Concatenated, Shifted, InTime
<1> HIDE DEF pieces, piece, m
<1>5. PICK off : Positions(off, pieces, Stamped)
  BY <1>3, PositionsExist
<1>6. /\ Concatenated(clips) \in Seq(Stamped)
      /\ Len(Concatenated(clips)) = off[m + 1]
      /\ \A i \in 1 .. m : \A n \in 1 .. Len(pieces[i]) :
           Concatenated(clips)[off[i] + n] = pieces[i][n]
  <2>1. /\ FlattenSeq(pieces) \in Seq(Stamped)
        /\ Len(FlattenSeq(pieces)) = off[Len(pieces) + 1]
        /\ \A i \in 1 .. Len(pieces) : \A n \in 1 .. Len(pieces[i]) :
             FlattenSeq(pieces)[off[i] + n] = pieces[i][n]
    BY <1>5, FlattenAt
  <2>2. Len(pieces) = m
    BY <1>3
  <2> QED BY <1>4, <2>1, <2>2
<1>7. /\ off \in [1 .. m + 1 -> Nat] /\ off[1] = 0
      /\ \A i \in 1 .. m : off[i + 1] = off[i] + Len(clips[i].packets)
  BY <1>2, <1>3, <1>5 DEF Positions
<1>8. \A i \in 1 .. m : off[i] < off[i + 1]
  <2> TAKE i \in 1 .. m
  <2>1. off[i] \in Nat /\ Len(clips[i].packets) \in Nat \ {0}
    BY <1>1, <1>7 DEF Clips, m
  <2> QED BY <1>7, <2>1
<1>9. \A i, k \in 1 .. m + 1 : i < k => off[i] < off[k]
  BY <1>1, <1>7, <1>8, Growing
<1>10. \A i \in 1 .. m : \A n \in 1 .. Len(clips[i].packets) :
         Concatenated(clips)[off[i] + n] = Shifted(clips, i, n)
  <2> TAKE i \in 1 .. m
  <2>1. pieces[i] = piece(i) /\ Len(piece(i)) = Len(clips[i].packets)
    BY <1>2, <1>3
  <2> TAKE n \in 1 .. Len(clips[i].packets)
  <2>2. n \in 1 .. Len(pieces[i]) /\ piece(i)[n] = Shifted(clips, i, n)
    BY <1>2, <2>1
  <2> QED BY <1>6, <2>1, <2>2
<1> QED
  BY <1>6, <1>7, <1>9, <1>10 DEF Belt, m

(* The next packet is not before the beginning of a clip in time exactly   *)
(* when all packets of the clips before it are read.                       *)
LEMMA Arrival ==
  ASSUME NEW clips, Clips(clips), InTime(clips), NEW off, Belt(clips, off),
         NEW d \in 0 .. off[Len(clips) + 1] - 1
  PROVE  /\ Concatenated(clips)[d + 1] \in Stamped
         /\ \A i \in 1 .. Len(clips) + 1 :
              Concatenated(clips)[d + 1].at >= From(clips, i) <=> d >= off[i]
         /\ \A i \in 1 .. Len(clips) : off[i] <= d /\ d < off[i + 1] =>
              /\ d - off[i] + 1 \in 1 .. Len(clips[i].packets)
              /\ Concatenated(clips)[d + 1] = Shifted(clips, i, d - off[i] + 1)
<1> DEFINE m == Len(clips)
           packet == Concatenated(clips)[d + 1]
<1>1. /\ m \in Nat /\ off \in [1 .. m + 1 -> Nat] /\ off[1] = 0
      /\ \A i \in 1 .. m : off[i + 1] = off[i] + Len(clips[i].packets)
      /\ \A i, k \in 1 .. m + 1 : i < k => off[i] < off[k]
  BY DEF Clips, Belt
<1>2. /\ Concatenated(clips) \in Seq(Stamped)
      /\ Len(Concatenated(clips)) = off[m + 1]
      /\ \A i \in 1 .. m : \A n \in 1 .. Len(clips[i].packets) :
           Concatenated(clips)[off[i] + n] = Shifted(clips, i, n)
  BY DEF Belt
<1>3. off[m + 1] \in Nat /\ d \in Nat /\ d + 1 \in 1 .. off[m + 1]
  <2>1. off[m + 1] \in Nat
    BY <1>1
  <2> QED BY <2>1
<1>4. packet \in Stamped
  <2>1. d + 1 \in 1 .. Len(Concatenated(clips))
    BY <1>2, <1>3
  <2> QED BY <1>2, <2>1, ElementOfSeq
<1>5. \A i \in 1 .. m : Len(clips[i].packets) \in Nat
  BY DEF Clips
<1>6. ASSUME NEW i \in 1 .. m, off[i] <= d, d < off[i + 1]
      PROVE  /\ d - off[i] + 1 \in 1 .. Len(clips[i].packets)
             /\ packet = Shifted(clips, i, d - off[i] + 1)
  <2>1. off[i] \in Nat /\ off[i + 1] = off[i] + Len(clips[i].packets)
    BY <1>1
  <2>2. d - off[i] + 1 \in 1 .. Len(clips[i].packets)
        /\ off[i] + (d - off[i] + 1) = d + 1
    BY <1>3, <1>5, <1>6, <2>1
  <2> QED BY <1>2, <2>2
<1>7. \E c \in 1 .. m : off[c] <= d /\ d < off[c + 1]
  <2> DEFINE Low == {i \in 1 .. m + 1 : off[i] <= d}
  <2>1. IsFiniteSet(Low) /\ Low \in SUBSET Int /\ Low # {}
    <3>1. 1 \in Int /\ m + 1 \in Int /\ 1 \in 1 .. m + 1
      BY <1>1
    <3>2. IsFiniteSet(1 .. m + 1)
      BY <3>1, FS_Interval
    <3>3. Low \in SUBSET (1 .. m + 1) /\ 1 \in Low
      BY <1>1, <1>3, <3>1
    <3> QED BY <3>2, <3>3, FS_Subset
  <2>2. PICK c \in Low : \A x \in Low : x <= c
    <3> HIDE DEF Low
    <3> QED BY <2>1, FiniteMax
  <2>3. c \in 1 .. m + 1 /\ off[c] <= d /\ c # m + 1
    BY <1>1, <1>3
  <2>4. c \in 1 .. m /\ c + 1 \in 1 .. m + 1
    BY <1>1, <2>3
  <2>5. c + 1 \notin Low
    BY <1>1, <2>2, <2>4
  <2>6. off[c + 1] \in Nat
    BY <1>1, <2>4
  <2> QED BY <1>3, <2>3, <2>4, <2>5, <2>6
<1>8. PICK c \in 1 .. m : off[c] <= d /\ d < off[c + 1]
  BY <1>7
<1> HIDE DEF packet
<1>9. packet.at >= From(clips, c) /\ packet.at < From(clips, c + 1)
  <2> DEFINE n == d - off[c] + 1
             raw == clips[c].packets[n]
  <2>1. n \in 1 .. Len(clips[c].packets) /\ packet = Shifted(clips, c, n)
    BY <1>6, <1>8
  <2> HIDE DEF n
  <2>2. raw \in Raw
    <3>1. clips[c].packets \in Seq(Raw)
      BY DEF Clips
    <3> QED BY <2>1, <3>1, ElementOfSeq
  <2>3. raw.at < clips[c].length
    <3>1. clips[c] \in Range(clips) /\ n \in DOMAIN clips[c].packets
      BY <2>1 DEF Clips, Range
    <3> QED BY <3>1 DEF InTime
  <2>4. /\ From(clips, c) \in Nat /\ clips[c].length \in Nat
        /\ From(clips, c + 1) = From(clips, c) + clips[c].length
    <3>1. Times(clips)
      BY TimesAre
    <3>2. c \in 1 .. Len(clips) + 1
      BY <1>1
    <3> QED BY <3>1, <3>2 DEF Times, Clips
  <2>5. packet.at = raw.at + From(clips, c)
    BY <2>1 DEF Shifted
  <2>6. raw.at \in Nat
    BY <2>2 DEF Raw
  <2> HIDE DEF raw
  <2> QED BY <2>3, <2>4, <2>5, <2>6
<1>10. packet.at \in Nat
  BY <1>4 DEF Stamped
<1>11. ASSUME NEW i \in 1 .. m + 1
       PROVE  packet.at >= From(clips, i) <=> d >= off[i]
  <2>0. i \in Nat /\ c \in Nat /\ c \in 1 .. m + 1 /\ c + 1 \in 1 .. m + 1
    <3> HIDE DEF m
    <3> QED BY <1>1
  <2>1. /\ i \in Nat /\ c \in Nat /\ c \in 1 .. m + 1 /\ c + 1 \in 1 .. m + 1
        /\ off[i] \in Nat /\ off[c] \in Nat /\ off[c + 1] \in Nat
    BY <1>1, <2>0
  <2>2. /\ From(clips, i) \in Nat /\ From(clips, c) \in Nat
        /\ From(clips, c + 1) \in Nat
        /\ \A x, y \in 1 .. m + 1 : x < y => From(clips, x) < From(clips, y)
    BY <2>1, TimesAre DEF Times
  <2>3. CASE i <= c
    <3>1. i = c \/ i < c
      BY <2>1, <2>3
    <3>2. off[i] <= off[c] /\ From(clips, i) <= From(clips, c)
      <4>1. CASE i = c
        BY <2>1, <2>2, <4>1
      <4>2. CASE i < c
        <5>1. off[i] < off[c] /\ From(clips, i) < From(clips, c)
          BY <1>1, <2>1, <2>2, <4>2
        <5> QED BY <2>1, <2>2, <5>1
      <4> QED BY <3>1, <4>1, <4>2
    <3>3. d >= off[i]
      BY <1>3, <1>8, <2>1, <3>2
    <3>4. packet.at >= From(clips, i)
      BY <1>9, <1>10, <2>2, <3>2
    <3> QED BY <3>3, <3>4
  <2>4. CASE i > c
    <3>1. i = c + 1 \/ c + 1 < i
      BY <2>1, <2>4
    <3>2. off[c + 1] <= off[i] /\ From(clips, c + 1) <= From(clips, i)
      <4>1. CASE i = c + 1
        BY <2>1, <2>2, <4>1
      <4>2. CASE c + 1 < i
        <5>1. off[c + 1] < off[i] /\ From(clips, c + 1) < From(clips, i)
          BY <1>1, <2>1, <2>2, <4>2
        <5> QED BY <2>1, <2>2, <5>1
      <4> QED BY <3>1, <4>1, <4>2
    <3>3. ~ (d >= off[i])
      BY <1>3, <1>8, <2>1, <3>2
    <3>4. ~ (packet.at >= From(clips, i))
      BY <1>9, <1>10, <2>2, <3>2
    <3> QED BY <3>3, <3>4
  <2> QED BY <2>1, <2>3, <2>4
<1> QED
  BY <1>4, <1>6, <1>11 DEF packet, m

(* What has been read of clip c, of all packets, when d have been.         *)
Taken(off, c, d) ==
  IF d >= off[c + 1] THEN off[c + 1] - off[c]
  ELSE IF d >= off[c] THEN d - off[c] ELSE 0

Part(clips, off, c, d) == [n \in 1 .. Taken(off, c, d) |-> Own(clips, c, n)]

Slot == [state: {"absent", "partial", "whole"}, packets: Seq(Stamped)]

(* The outputs when d packets have been read and output s is open: those   *)
(* opened hold what has been read of their clips, those left are whole,    *)
(* and of the others nothing has been read.                                *)
Cut(clips, picked, off, d, s, outputs) ==
  /\ d \in 0 .. off[Len(clips) + 1] /\ s \in 0 .. Len(picked)
  /\ outputs \in [1 .. Len(picked) -> Slot]
  /\ \A k \in 1 .. s : /\ off[picked[k]] <= d
                       /\ outputs[k].packets = Part(clips, off, picked[k], d)
  /\ \A k \in 1 .. s - 1 : off[picked[k] + 1] <= d /\ outputs[k].state = "whole"
  /\ \A k \in s + 1 .. Len(picked) : d <= off[picked[k]]

Whole(clips, picked, outputs) ==
  /\ DOMAIN outputs = 1 .. Len(picked)
  /\ \A k \in 1 .. Len(picked) :
       outputs[k] = [state |-> "whole", packets |-> Single(clips, picked[k])]

CutNow == \E off : /\ Belt(media.clips, off)
                   /\ Cut(media.clips, media.wanted, off, demuxed, slice, targets)

SplitInv ==
  media \in SplitJobs /\ InTime(media.clips) =>
    /\ medium \in {"routing", "done", "failed"}
    /\ medium = "routing" => CutNow
    /\ medium = "done" => Whole(media.clips, media.wanted, targets)

(* How the packets of a clip grow with what is read.                       *)
LEMMA TakenGrows ==
  ASSUME NEW clips, Clips(clips), NEW off, Belt(clips, off),
         NEW c \in 1 .. Len(clips), NEW d \in Nat
  PROVE  /\ Taken(off, c, d) \in 0 .. Len(clips[c].packets)
         /\ d <= off[c] => Taken(off, c, d) = 0
         /\ d >= off[c + 1] => /\ Taken(off, c, d) = Len(clips[c].packets)
                               /\ Taken(off, c, d + 1) = Taken(off, c, d)
         /\ off[c] <= d /\ d < off[c + 1] =>
              /\ Taken(off, c, d) = d - off[c]
              /\ Taken(off, c, d + 1) = d - off[c] + 1
              /\ Taken(off, c, d) + 1 \in 1 .. Len(clips[c].packets)
<1>1. Len(clips) \in Nat /\ Len(clips[c].packets) \in Nat
  BY DEF Clips
<1>2. off[c + 1] = off[c] + Len(clips[c].packets)
  BY DEF Belt
<1>3. off[c] \in Nat
  <2>1. c \in 1 .. Len(clips) + 1
    BY <1>1
  <2> QED BY <2>1 DEF Belt
<1> DEFINE a == off[c]
           b == off[c + 1]
           n == Len(clips[c].packets)
<1>4. a \in Nat /\ n \in Nat /\ b = a + n /\ b \in Nat
  BY <1>1, <1>2, <1>3
<1>5. \A x : Taken(off, c, x) = IF x >= b THEN b - a ELSE IF x >= a THEN x - a ELSE 0
  BY DEF Taken
<1> HIDE DEF a, b, n
<1>6. Taken(off, c, d) \in 0 .. n /\ (d <= a => Taken(off, c, d) = 0)
  BY <1>4, <1>5
<1>7. d >= b => Taken(off, c, d) = n /\ Taken(off, c, d + 1) = Taken(off, c, d)
  BY <1>4, <1>5
<1>8. a <= d /\ d < b => /\ Taken(off, c, d) = d - a
                        /\ Taken(off, c, d + 1) = d - a + 1
                        /\ Taken(off, c, d) + 1 \in 1 .. n
  BY <1>4, <1>5
<1> QED
  BY <1>6, <1>7, <1>8 DEF a, b, n

LEMMA PartGrows ==
  ASSUME NEW clips, Clips(clips), NEW off, Belt(clips, off),
         NEW c \in 1 .. Len(clips), NEW d \in Nat
  PROVE  /\ Part(clips, off, c, d) \in Seq(Stamped)
         /\ d <= off[c] => Part(clips, off, c, d) = <<>>
         /\ d >= off[c + 1] =>
              /\ Part(clips, off, c, d) = Single(clips, c)
              /\ Part(clips, off, c, d + 1) = Part(clips, off, c, d)
         /\ off[c] <= d /\ d < off[c + 1] =>
              Part(clips, off, c, d + 1) =
                Append(Part(clips, off, c, d), Own(clips, c, d - off[c] + 1))
<1> DEFINE n == Taken(off, c, d)
           L == Len(clips[c].packets)
<1>1. n \in 0 .. L /\ L \in Nat
  BY TakenGrows DEF Clips
<1>2. ASSUME NEW i \in 1 .. L PROVE Own(clips, c, i) \in Stamped
  <2>1. clips[c].packets \in Seq(Raw)
    BY DEF Clips
  <2>2. clips[c].packets[i] \in Raw
    BY <1>2, <2>1, ElementOfSeq
  <2>3. c \in Nat /\ i \in Nat
    BY <1>1 DEF Clips
  <2> QED BY <2>2, <2>3 DEF Own, Stamped, Raw
<1>3. /\ Part(clips, off, c, d) \in [1 .. n -> Stamped] /\ n \in Nat
  <2>1. \A i \in 1 .. n : i \in 1 .. L
    BY <1>1
  <2> HIDE DEF L
  <2> QED BY <1>1, <1>2, <2>1 DEF Part
<1>4. Part(clips, off, c, d) \in Seq(Stamped) /\ Len(Part(clips, off, c, d)) = n
  BY <1>3, SeqOfFunction
<1>5. ASSUME d <= off[c] PROVE Part(clips, off, c, d) = <<>>
  <2>1. n = 0
    BY <1>5, TakenGrows
  <2> QED BY <1>4, <2>1, EmptySeq
<1>6. ASSUME d >= off[c + 1]
      PROVE  /\ Part(clips, off, c, d) = Single(clips, c)
             /\ Part(clips, off, c, d + 1) = Part(clips, off, c, d)
  <2>1. n = L /\ Taken(off, c, d + 1) = n
    BY <1>6, TakenGrows
  <2>2. DOMAIN clips[c].packets = 1 .. L
    BY DEF Clips
  <2> QED BY <2>1, <2>2 DEF Part, Single, Own
<1>7. ASSUME off[c] <= d, d < off[c + 1]
      PROVE  Part(clips, off, c, d + 1) =
               Append(Part(clips, off, c, d), Own(clips, c, d - off[c] + 1))
  <2>1. n = d - off[c] /\ Taken(off, c, d + 1) = d - off[c] + 1
    BY <1>7, TakenGrows
  <2>2. Part(clips, off, c, d + 1) = [i \in 1 .. n + 1 |-> Own(clips, c, i)]
    BY <2>1 DEF Part
  <2>3. Part(clips, off, c, d) = [i \in 1 .. n |-> Own(clips, c, i)]
    BY DEF Part
  <2> DEFINE s == Part(clips, off, c, d)
             e == Own(clips, c, n + 1)
  <2>4. Append(s, e) = [i \in 1 .. n + 1 |-> IF i <= n THEN s[i] ELSE e]
    <3>1. s \in Seq(Stamped) /\ Len(s) = n
      BY <1>4
    <3>2. n \in Nat
      BY <1>3
    <3>3. e \in Stamped
      <4>1. n + 1 \in 1 .. L
        BY <1>7, TakenGrows
      <4> HIDE DEF n, L
      <4> QED BY <1>2, <4>1
    <3> HIDE DEF s, e, n
    <3>4. /\ Append(s, e) \in Seq(Stamped) /\ Len(Append(s, e)) = n + 1
          /\ \A i \in 1 .. n + 1 : Append(s, e)[i] = IF i <= n THEN s[i] ELSE e
      BY <3>1, <3>2, <3>3, AppendProperties
    <3>5. Append(s, e) = [i \in 1 .. n + 1 |-> Append(s, e)[i]]
      BY <3>4, LenProperties
    <3> QED BY <3>4, <3>5
  <2>5. \A i \in 1 .. n + 1 : (IF i <= n THEN s[i] ELSE e) = Own(clips, c, i)
    <3> TAKE i \in 1 .. n + 1
    <3>1. CASE i <= n
      <4>1. i \in 1 .. n
        BY <1>3, <3>1
      <4> HIDE DEF n
      <4> QED BY <2>3, <3>1, <4>1
    <3>2. CASE ~ (i <= n)
      <4>1. i = n + 1
        BY <1>3, <3>2
      <4> HIDE DEF n
      <4> QED BY <3>2, <4>1
    <3> QED BY <3>1, <3>2
  <2> HIDE DEF s, e, n
  <2>6. Append(s, e) = [i \in 1 .. n + 1 |-> Own(clips, c, i)]
    BY <2>4, <2>5
  <2> QED BY <2>1, <2>2, <2>6 DEF s, e, n
<1> QED
  BY <1>4, <1>5, <1>6, <1>7

(* The slices of a job, in time.                                           *)
LEMMA SlicesAre ==
  ASSUME NEW clips, Clips(clips), NEW picked, Wanted(picked, clips),
         NEW slices, slices = [k \in DOMAIN picked |->
                                <<From(clips, picked[k]), To(clips, picked[k])>>]
  PROVE  /\ DOMAIN slices = 1 .. Len(picked) /\ Len(slices) = Len(picked)
         /\ \A k \in 1 .. Len(picked) :
              /\ picked[k] \in 1 .. Len(clips)
              /\ slices[k][1] = From(clips, picked[k])
              /\ slices[k][2] = From(clips, picked[k] + 1)
<1> DEFINE K == Len(picked)
<1>1. K \in Nat /\ picked \in [1 .. K -> 1 .. Len(clips)]
  BY DEF Wanted
<1>2. \A k \in 1 .. K : To(clips, picked[k]) = From(clips, picked[k] + 1)
  BY <1>1, TimesAre DEF Times
<1>3. DOMAIN slices = 1 .. K
  BY <1>1
<1>4. \A k \in 1 .. K : slices[k] = <<From(clips, picked[k]), To(clips, picked[k])>>
  BY <1>1
<1>5. Len(slices) = K
  <2> HIDE DEF K
  <2>1. slices = [k \in 1 .. K |-> slices[k]]
    BY <1>1
  <2> QED BY <1>1, <2>1, LenOfFunction
<1> QED
  BY <1>1, <1>2, <1>3, <1>4, <1>5

LEMMA SplitStart == MediaInit => SplitInv
<1> SUFFICES ASSUME MediaInit, media \in SplitJobs, InTime(media.clips)
             PROVE  medium = "routing" /\ CutNow
  BY DEF SplitInv
<1>1. Clips(media.clips) /\ Wanted(media.wanted, media.clips) /\ media \notin EncodeJobs
  BY SplitType
<1>2. /\ medium = "routing" /\ demuxed = 0 /\ slice = 0
      /\ targets = [k \in DOMAIN media.wanted |-> Nothing]
  BY <1>1 DEF MediaInit
<1>3. PICK off : Belt(media.clips, off)
  BY <1>1, BeltExists
<1> DEFINE N == Len(media.clips)
           K == Len(media.wanted)
<1>4. /\ N \in Nat /\ K \in Nat /\ DOMAIN media.wanted = 1 .. K
      /\ media.wanted \in [1 .. K -> 1 .. N]
      /\ off \in [1 .. N + 1 -> Nat]
  BY <1>1, <1>3 DEF Clips, Wanted, Belt
<1>5. Nothing \in Slot
  <2>1. <<>> \in Seq(Stamped)
    OBVIOUS
  <2> QED BY <2>1 DEF Nothing, Slot
<1>6. targets \in [1 .. K -> Slot]
  BY <1>2, <1>4, <1>5
<1>7. 0 \in 0 .. off[N + 1] /\ 0 \in 0 .. K
  <2>1. off[N + 1] \in Nat
    <3>1. N + 1 \in 1 .. N + 1
      BY <1>4
    <3> HIDE DEF N
    <3> QED BY <1>4, <3>1
  <2> QED BY <1>4, <2>1
<1>8. \A k \in 1 .. K : 0 <= off[media.wanted[k]]
  <2> TAKE k \in 1 .. K
  <2>1. media.wanted[k] \in 1 .. N
    BY <1>4
  <2>2. media.wanted[k] \in 1 .. N + 1
    BY <1>4, <2>1
  <2>3. off[media.wanted[k]] \in Nat
    BY <1>4, <2>2
  <2> QED BY <2>3
<1>9. Cut(media.clips, media.wanted, off, 0, 0, targets)
  <2>1. 1 .. 0 = {} /\ 1 .. 0 - 1 = {} /\ 0 + 1 .. K = 1 .. K
    OBVIOUS
  <2> QED BY <1>6, <1>7, <1>8, <2>1 DEF Cut
<1> QED
  BY <1>2, <1>3, <1>9 DEF CutNow

(* One more output is opened.                                              *)
LEMMA CutOpens ==
  ASSUME NEW clips, Clips(clips), NEW picked, Wanted(picked, clips),
         NEW off, Belt(clips, off), NEW d, NEW s, NEW outputs,
         Cut(clips, picked, off, d, s, outputs),
         s < Len(picked), d >= off[picked[s + 1]],
         NEW onward,
         onward = [k \in DOMAIN outputs |->
                    IF k = s THEN [outputs[k] EXCEPT !.state = "whole"]
                    ELSE IF k = s + 1 THEN [state |-> "partial", packets |-> <<>>]
                    ELSE outputs[k]]
  PROVE  Cut(clips, picked, off, d, s + 1, onward)
<1> DEFINE K == Len(picked)
           N == Len(clips)
           w == picked[s + 1]
<1>1. /\ d \in 0 .. off[N + 1] /\ s \in 0 .. K
      /\ outputs \in [1 .. K -> Slot]
      /\ \A k \in 1 .. s : /\ off[picked[k]] <= d
                           /\ outputs[k].packets = Part(clips, off, picked[k], d)
      /\ \A k \in 1 .. s - 1 : off[picked[k] + 1] <= d /\ outputs[k].state = "whole"
      /\ \A k \in s + 1 .. K : d <= off[picked[k]]
  BY DEF Cut
<1>2. /\ K \in Nat /\ N \in Nat /\ picked \in [1 .. K -> 1 .. N]
      /\ off \in [1 .. N + 1 -> Nat]
      /\ \A i, k \in 1 .. N + 1 : i < k => off[i] < off[k]
      /\ \A k, l \in 1 .. K : k < l => picked[k] < picked[l]
  BY DEF Wanted, Belt, Clips
<1>3. s + 1 \in 1 .. K /\ w \in 1 .. N /\ s + 1 \in s + 1 .. K
  <2>1. s + 1 \in 1 .. K
    BY <1>1, <1>2
  <2> HIDE DEF K, N
  <2> QED BY <1>2, <2>1
<1>4. off[w] \in Nat /\ d \in Nat
  <2>1. w \in 1 .. N + 1
    BY <1>2, <1>3
  <2>2. off[N + 1] \in Nat
    <3>1. N + 1 \in 1 .. N + 1
      BY <1>2
    <3> HIDE DEF N
    <3> QED BY <1>2, <3>1
  <2> QED BY <1>1, <1>2, <2>1, <2>2
<1>5. d = off[w]
  BY <1>1, <1>3, <1>4
<1>6. Part(clips, off, w, d) = <<>>
  BY <1>3, <1>4, <1>5, PartGrows
<1>7. DOMAIN onward = 1 .. K /\ \A k \in 1 .. K : onward[k] =
        IF k = s THEN [outputs[k] EXCEPT !.state = "whole"]
        ELSE IF k = s + 1 THEN [state |-> "partial", packets |-> <<>>]
        ELSE outputs[k]
  BY <1>1
<1>8. ASSUME NEW k \in 1 .. K
      PROVE  /\ onward[k] \in Slot
             /\ k = s => /\ onward[k].packets = outputs[k].packets
                         /\ onward[k].state = "whole"
             /\ k = s + 1 => onward[k].packets = <<>>
             /\ k # s /\ k # s + 1 => onward[k] = outputs[k]
  <2>1. outputs[k] \in Slot
    BY <1>1
  <2>2. [outputs[k] EXCEPT !.state = "whole"] \in Slot
        /\ [outputs[k] EXCEPT !.state = "whole"].packets = outputs[k].packets
        /\ [outputs[k] EXCEPT !.state = "whole"].state = "whole"
    BY <2>1 DEF Slot
  <2>3. [state |-> "partial", packets |-> <<>>] \in Slot
    <3>1. <<>> \in Seq(Stamped)
      OBVIOUS
    <3> QED BY <3>1 DEF Slot
  <2>4. s # s + 1
    BY <1>1
  <2>5. onward[k] = IF k = s THEN [outputs[k] EXCEPT !.state = "whole"]
                    ELSE IF k = s + 1 THEN [state |-> "partial", packets |-> <<>>]
                    ELSE outputs[k]
    BY <1>7
  <2>6. CASE k = s
    BY <2>2, <2>4, <2>5, <2>6
  <2>7. CASE k = s + 1
    BY <2>3, <2>4, <2>5, <2>7
  <2>8. CASE k # s /\ k # s + 1
    BY <2>1, <2>5, <2>8
  <2> QED BY <2>6, <2>7, <2>8
<1>9. onward \in [1 .. K -> Slot]
  <2>1. \A k \in 1 .. K : onward[k] \in Slot
    BY <1>8
  <2>2. onward = [k \in 1 .. K |-> onward[k]]
    BY <1>7
  <2> HIDE DEF K
  <2> QED BY <2>1, <2>2
<1>10. ASSUME NEW k \in 1 .. s + 1
       PROVE  off[picked[k]] <= d /\ onward[k].packets = Part(clips, off, picked[k], d)
  <2>1. k \in 1 .. K /\ (k \in 1 .. s \/ k = s + 1)
    BY <1>1, <1>3
  <2>2. CASE k = s + 1
    BY <1>4, <1>5, <1>6, <1>8, <2>1, <2>2
  <2>3. CASE k \in 1 .. s
    <3>1. k # s + 1
      BY <1>1, <2>3
    <3>2. onward[k].packets = outputs[k].packets
      BY <1>8, <2>1, <3>1
    <3> QED BY <1>1, <2>3, <3>2
  <2> QED BY <2>1, <2>2, <2>3
<1>11. ASSUME NEW k \in 1 .. (s + 1) - 1
       PROVE  off[picked[k] + 1] <= d /\ onward[k].state = "whole"
  <2>1. k \in 1 .. s /\ k \in 1 .. K /\ k < s + 1 /\ (k = s \/ k \in 1 .. s - 1)
    BY <1>1, <1>2
  <2>2. picked[k] \in 1 .. N /\ picked[k] < w
    BY <1>2, <1>3, <2>1
  <2>3. picked[k] + 1 \in 1 .. N + 1 /\ (picked[k] + 1 = w \/ picked[k] + 1 < w)
        /\ w \in 1 .. N + 1
    BY <1>2, <1>3, <2>2
  <2>4. off[picked[k] + 1] <= off[w]
    <3>1. CASE picked[k] + 1 = w
      BY <1>4, <3>1
    <3>2. CASE picked[k] + 1 < w
      <4>1. off[picked[k] + 1] < off[w] /\ off[picked[k] + 1] \in Nat
        BY <1>2, <2>3, <3>2
      <4> QED BY <1>4, <4>1
    <3> QED BY <2>3, <3>1, <3>2
  <2>5. onward[k].state = "whole"
    <3>1. CASE k = s
      BY <1>8, <2>1, <3>1
    <3>2. CASE k \in 1 .. s - 1
      <4>1. k # s /\ k # s + 1
        BY <1>1, <3>2
      <4> QED BY <1>1, <1>8, <2>1, <3>2, <4>1
    <3> QED BY <2>1, <3>1, <3>2
  <2> QED BY <1>5, <2>4, <2>5
<1>12. ASSUME NEW k \in (s + 1) + 1 .. K PROVE d <= off[picked[k]]
  <2>1. k \in s + 1 .. K
    BY <1>1, <1>2
  <2> QED BY <1>1, <2>1
<1>13. s + 1 \in 0 .. K
  BY <1>1, <1>3
<1> QED
  BY <1>1, <1>9, <1>10, <1>11, <1>12, <1>13 DEF Cut

(* Where a packet goes that does not open an output: to the end of the     *)
(* open one if it is of its clip, else nowhere.                            *)
LEMMA CutRoutes ==
  ASSUME NEW clips, Clips(clips), InTime(clips), NEW picked, Wanted(picked, clips),
         NEW off, Belt(clips, off), NEW d, NEW s, NEW outputs,
         Cut(clips, picked, off, d, s, outputs), d < off[Len(clips) + 1],
         NEW packet, packet = Concatenated(clips)[d + 1],
         s < Len(picked) => ~ (packet.at >= From(clips, picked[s + 1])),
         NEW routed,
         routed = IF s = 0 \/ packet.at >= From(clips, picked[s] + 1) THEN outputs
                  ELSE [outputs EXCEPT ![s].packets =
                         Append(@, [packet EXCEPT !.at = @ - From(clips, picked[s])])]
  PROVE  Cut(clips, picked, off, d + 1, s, routed)
<1> DEFINE K == Len(picked)
           N == Len(clips)
<1>1. /\ d \in 0 .. off[N + 1] /\ s \in 0 .. K
      /\ outputs \in [1 .. K -> Slot]
      /\ \A k \in 1 .. s : /\ off[picked[k]] <= d
                           /\ outputs[k].packets = Part(clips, off, picked[k], d)
      /\ \A k \in 1 .. s - 1 : off[picked[k] + 1] <= d /\ outputs[k].state = "whole"
      /\ \A k \in s + 1 .. K : d <= off[picked[k]]
  BY DEF Cut
<1>2. /\ K \in Nat /\ N \in Nat /\ picked \in [1 .. K -> 1 .. N]
      /\ off \in [1 .. N + 1 -> Nat]
      /\ \A i, k \in 1 .. N + 1 : i < k => off[i] < off[k]
      /\ \A k, l \in 1 .. K : k < l => picked[k] < picked[l]
  BY DEF Wanted, Belt, Clips
<1>3. off[N + 1] \in Nat /\ d \in Nat /\ d \in 0 .. off[N + 1] - 1
      /\ d + 1 \in 0 .. off[N + 1] /\ s \in Nat
  <2>1. N + 1 \in 1 .. N + 1
    BY <1>2
  <2>2. off[N + 1] \in Nat
    <3> HIDE DEF N
    <3> QED BY <1>2, <2>1
  <2>3. d < off[N + 1]
    OBVIOUS
  <2> HIDE DEF N
  <2> QED BY <1>1, <2>2, <2>3
<1>4. /\ packet \in Stamped
      /\ \A i \in 1 .. N + 1 : packet.at >= From(clips, i) <=> d >= off[i]
      /\ \A i \in 1 .. N : off[i] <= d /\ d < off[i + 1] =>
           packet = Shifted(clips, i, d - off[i] + 1)
           /\ d - off[i] + 1 \in 1 .. Len(clips[i].packets)
  BY <1>3, Arrival
<1>5. ASSUME NEW k \in 1 .. K
      PROVE  /\ picked[k] \in 1 .. N /\ picked[k] \in 1 .. N + 1
             /\ picked[k] + 1 \in 1 .. N + 1
             /\ off[picked[k]] \in Nat /\ off[picked[k] + 1] \in Nat
             /\ off[picked[k]] < off[picked[k] + 1]
  <2>1. picked[k] \in 1 .. N
    BY <1>2
  <2>2. picked[k] \in 1 .. N + 1 /\ picked[k] + 1 \in 1 .. N + 1
        /\ picked[k] < picked[k] + 1
    BY <1>2, <2>1
  <2> HIDE DEF N
  <2> QED BY <1>2, <2>1, <2>2
<1>6. ASSUME NEW k \in s + 1 .. K PROVE d + 1 <= off[picked[k]]
  <2>1. s + 1 \in 1 .. K /\ s < K /\ k \in 1 .. K /\ (k = s + 1 \/ s + 1 < k)
        /\ s + 1 \in s + 1 .. K
    BY <1>2, <1>3
  <2>2. ~ (d >= off[picked[s + 1]])
    <3>1. picked[s + 1] \in 1 .. N + 1
      BY <1>5, <2>1
    <3>2. ~ (packet.at >= From(clips, picked[s + 1]))
      BY <2>1
    <3> QED BY <1>4, <3>1, <3>2
  <2>3. d + 1 <= off[picked[s + 1]] /\ off[picked[s + 1]] \in Nat
    <3>1. off[picked[s + 1]] \in Nat
      BY <1>5, <2>1
    <3> QED BY <1>3, <2>2, <3>1
  <2>4. CASE k = s + 1
    BY <2>3, <2>4
  <2>5. CASE s + 1 < k
    <3>1. picked[s + 1] < picked[k]
      BY <1>2, <2>1, <2>5
    <3>2. off[picked[s + 1]] < off[picked[k]] /\ off[picked[k]] \in Nat
      <4>1. picked[s + 1] \in 1 .. N + 1 /\ picked[k] \in 1 .. N + 1
        BY <1>5, <2>1
      <4> QED BY <1>2, <1>5, <2>1, <3>1, <4>1
    <3> QED BY <1>3, <2>3, <3>2
  <2> QED BY <2>1, <2>4, <2>5
<1>7. ASSUME NEW k \in 1 .. s PROVE off[picked[k]] <= d + 1
  <2>1. k \in 1 .. K
    BY <1>1, <1>2
  <2>2. off[picked[k]] \in Nat /\ off[picked[k]] <= d
    BY <1>1, <1>5, <2>1
  <2> QED BY <1>3, <2>2
<1>8. ASSUME NEW k \in 1 .. s - 1
      PROVE  /\ off[picked[k] + 1] <= d + 1
             /\ Part(clips, off, picked[k], d + 1) = Part(clips, off, picked[k], d)
  <2>1. k \in 1 .. K
    BY <1>1, <1>2
  <2>2. off[picked[k] + 1] \in Nat /\ off[picked[k] + 1] <= d /\ picked[k] \in 1 .. N
    BY <1>1, <1>5, <2>1
  <2>3. d >= off[picked[k] + 1]
    BY <1>3, <2>2
  <2>4. Part(clips, off, picked[k], d + 1) = Part(clips, off, picked[k], d)
    BY <1>3, <2>2, <2>3, PartGrows
  <2> QED BY <1>3, <2>2, <2>4
<1>9. CASE s = 0
  <2>1. routed = outputs /\ 1 .. s = {} /\ 1 .. s - 1 = {}
    BY <1>9
  <2> QED BY <1>1, <1>3, <1>6, <2>1 DEF Cut
<1>10. ASSUME s # 0
       PROVE  Cut(clips, picked, off, d + 1, s, routed)
  <2> DEFINE w == picked[s]
             item == [packet EXCEPT !.at = @ - From(clips, w)]
  <2>1. s \in 1 .. K /\ s \in 1 .. s
    BY <1>1, <1>2, <1>10
  <2>2. /\ w \in 1 .. N /\ w \in 1 .. N + 1 /\ w + 1 \in 1 .. N + 1
        /\ off[w] \in Nat /\ off[w + 1] \in Nat
    BY <1>5, <2>1
  <2>3. off[w] <= d /\ outputs[s].packets = Part(clips, off, w, d) /\ d >= off[w]
    <3>1. off[w] <= d /\ outputs[s].packets = Part(clips, off, w, d)
      BY <1>1, <2>1
    <3> QED BY <1>3, <2>2, <3>1
  <2>4. packet.at >= From(clips, w + 1) <=> d >= off[w + 1]
    BY <1>4, <2>2
  <2>5. CASE packet.at >= From(clips, w + 1)
    <3>1. routed = outputs
      BY <2>5
    <3>2. Part(clips, off, w, d + 1) = Part(clips, off, w, d)
      BY <1>3, <2>2, <2>4, <2>5, PartGrows
    <3>3. ASSUME NEW k \in 1 .. s
          PROVE  /\ off[picked[k]] <= d + 1
                 /\ routed[k].packets = Part(clips, off, picked[k], d + 1)
      <4>1. k = s \/ k \in 1 .. s - 1
        BY <1>3
      <4>2. outputs[k].packets = Part(clips, off, picked[k], d)
        BY <1>1
      <4> QED BY <1>7, <1>8, <3>1, <3>2, <4>1, <4>2
    <3> QED BY <1>1, <1>3, <1>6, <1>8, <3>1, <3>3 DEF Cut
  <2>6. CASE ~ (packet.at >= From(clips, w + 1))
    <3> DEFINE n == d - off[w] + 1
    <3>1. off[w] <= d /\ d < off[w + 1]
      <4>1. ~ (d >= off[w + 1])
        BY <2>4, <2>6
      <4> QED BY <1>3, <2>2, <2>3, <4>1
    <3>2. packet = Shifted(clips, w, n) /\ n \in 1 .. Len(clips[w].packets)
      BY <1>4, <2>2, <3>1
    <3>3. item = Own(clips, w, n)
      <4> HIDE DEF n
      <4>1. clips[w].packets[n] \in Raw
        <5>1. clips[w].packets \in Seq(Raw)
          BY <2>2 DEF Clips
        <5> QED BY <3>2, <5>1, ElementOfSeq
      <4>2. clips[w].packets[n].at \in Nat /\ From(clips, w) \in Nat
        <5>1. From(clips, w) \in Nat
          BY <2>2, TimesAre DEF Times
        <5> QED BY <4>1, <5>1 DEF Raw
      <4>3. (clips[w].packets[n].at + From(clips, w)) - From(clips, w)
              = clips[w].packets[n].at
        BY <4>2
      <4>4. item = [stream |-> clips[w].packets[n].stream,
                    at |-> (clips[w].packets[n].at + From(clips, w)) - From(clips, w),
                    of |-> <<w, n>>]
        BY <3>2 DEF Shifted
      <4> QED BY <4>3, <4>4 DEF Own
    <3>4. Part(clips, off, w, d + 1) = Append(Part(clips, off, w, d), item)
      <4> HIDE DEF item
      <4>1. /\ off[w] <= d /\ d < off[w + 1] /\ d \in Nat /\ w \in 1 .. Len(clips)
        BY <1>3, <2>2, <3>1
      <4> QED BY <3>3, <4>1, PartGrows
    <3>5. Part(clips, off, w, d + 1) \in Seq(Stamped)
      <4>1. d + 1 \in Nat
        BY <1>3
      <4> QED BY <2>2, <4>1, PartGrows
    <3>6. routed = [outputs EXCEPT ![s].packets = Append(@, item)]
      BY <1>10, <2>6
    <3> HIDE DEF item
    <3>7. /\ routed[s] = [outputs[s] EXCEPT !.packets = Append(@, item)]
          /\ \A k \in 1 .. K : k # s => routed[k] = outputs[k]
          /\ DOMAIN routed = 1 .. K /\ routed = [k \in 1 .. K |-> routed[k]]
      BY <1>1, <2>1, <3>6
    <3>8. /\ routed[s] \in Slot
          /\ routed[s].packets = Part(clips, off, w, d + 1)
      <4>1. outputs[s] \in Slot
        BY <1>1, <2>1
      <4>2. routed[s] = [outputs[s] EXCEPT !.packets = Part(clips, off, w, d + 1)]
        BY <2>3, <3>4, <3>7
      <4> QED BY <3>5, <4>1, <4>2 DEF Slot
    <3>9. routed \in [1 .. K -> Slot]
      <4>1. \A k \in 1 .. K : routed[k] \in Slot
        BY <1>1, <3>7, <3>8
      <4> HIDE DEF K
      <4> QED BY <3>7, <4>1
    <3>10. ASSUME NEW k \in 1 .. s
           PROVE  /\ off[picked[k]] <= d + 1
                  /\ routed[k].packets = Part(clips, off, picked[k], d + 1)
      <4>1. k = s \/ (k \in 1 .. s - 1 /\ k \in 1 .. K /\ k # s)
        BY <1>1, <1>2
      <4>2. outputs[k].packets = Part(clips, off, picked[k], d)
        BY <1>1
      <4>3. CASE k = s
        BY <1>7, <3>8, <4>3
      <4>4. CASE k \in 1 .. s - 1 /\ k \in 1 .. K /\ k # s
        BY <1>7, <1>8, <3>7, <4>2, <4>4
      <4> QED BY <4>1, <4>3, <4>4
    <3>11. ASSUME NEW k \in 1 .. s - 1
           PROVE  off[picked[k] + 1] <= d + 1 /\ routed[k].state = "whole"
      <4>1. k \in 1 .. K /\ k # s
        BY <1>1, <1>2
      <4> QED BY <1>1, <1>8, <3>7, <4>1
    <3> QED BY <1>1, <1>3, <1>6, <3>9, <3>10, <3>11 DEF Cut
  <2> QED BY <2>5, <2>6
<1> QED BY <1>9, <1>10

(* At the end of the file every output has been opened, since each clip    *)
(* has packets, and the last one is closed.                                *)
LEMMA CutEnds ==
  ASSUME NEW clips, Clips(clips), NEW picked, Wanted(picked, clips),
         NEW off, Belt(clips, off), NEW s, NEW outputs,
         Cut(clips, picked, off, off[Len(clips) + 1], s, outputs),
         NEW ended,
         ended = [k \in DOMAIN outputs |->
                   IF k = s THEN [outputs[k] EXCEPT !.state = "whole"] ELSE outputs[k]]
  PROVE  Whole(clips, picked, ended)
<1> DEFINE K == Len(picked)
           N == Len(clips)
           d == off[N + 1]
<1>1. /\ s \in 0 .. K /\ outputs \in [1 .. K -> Slot]
      /\ \A k \in 1 .. s : outputs[k].packets = Part(clips, off, picked[k], d)
      /\ \A k \in 1 .. s - 1 : outputs[k].state = "whole"
      /\ \A k \in s + 1 .. K : d <= off[picked[k]]
  BY DEF Cut
<1>2. /\ K \in Nat /\ N \in Nat /\ picked \in [1 .. K -> 1 .. N]
      /\ off \in [1 .. N + 1 -> Nat]
      /\ \A i, k \in 1 .. N + 1 : i < k => off[i] < off[k]
  BY DEF Wanted, Belt, Clips
<1>3. ASSUME NEW k \in 1 .. K
      PROVE  /\ picked[k] \in 1 .. N
             /\ off[picked[k]] < d /\ off[picked[k]] \in Nat /\ d \in Nat
             /\ d >= off[picked[k] + 1]
  <2>1. picked[k] \in 1 .. N
    BY <1>2
  <2>2. picked[k] \in 1 .. N + 1 /\ picked[k] < N + 1 /\ N + 1 \in 1 .. N + 1
        /\ picked[k] + 1 \in 1 .. N + 1
        /\ (picked[k] + 1 = N + 1 \/ picked[k] + 1 < N + 1)
    BY <1>2, <2>1
  <2>3. off[picked[k]] < d /\ off[picked[k]] \in Nat /\ d \in Nat
        /\ off[picked[k] + 1] \in Nat
    <3> HIDE DEF N
    <3> QED BY <1>2, <2>2
  <2>4. d >= off[picked[k] + 1]
    <3>1. CASE picked[k] + 1 = N + 1
      BY <2>3, <3>1
    <3>2. CASE picked[k] + 1 < N + 1
      <4>1. off[picked[k] + 1] < d
        <5> HIDE DEF N
        <5> QED BY <1>2, <2>2, <3>2
      <4> HIDE DEF d
      <4> QED BY <2>3, <4>1
    <3> QED BY <2>2, <3>1, <3>2
  <2> QED BY <2>1, <2>3, <2>4
<1> HIDE DEF d, N
<1>4. s = K
  <2> SUFFICES ASSUME s # K PROVE FALSE
    OBVIOUS
  <2>1. s + 1 \in s + 1 .. K /\ s + 1 \in 1 .. K
    BY <1>1, <1>2
  <2>2. d <= off[picked[s + 1]] /\ off[picked[s + 1]] < d
        /\ off[picked[s + 1]] \in Nat /\ d \in Nat
    BY <1>1, <1>3, <2>1
  <2> QED BY <2>2
<1>5. ASSUME NEW k \in 1 .. K
      PROVE  ended[k] = [state |-> "whole", packets |-> Single(clips, picked[k])]
  <2>1. outputs[k] \in Slot /\ k \in 1 .. s
    BY <1>1, <1>4
  <2>2. outputs[k].packets = Single(clips, picked[k])
    <3>1. outputs[k].packets = Part(clips, off, picked[k], d)
      BY <1>1, <2>1
    <3>2. Part(clips, off, picked[k], d) = Single(clips, picked[k])
      BY <1>3, PartGrows DEF N
    <3> QED BY <3>1, <3>2
  <2>3. ended[k] = IF k = s THEN [outputs[k] EXCEPT !.state = "whole"] ELSE outputs[k]
    BY <1>1
  <2>4. CASE k = s
    BY <2>1, <2>2, <2>3, <2>4 DEF Slot
  <2>5. CASE k # s
    <3>1. k \in 1 .. s - 1
      BY <1>1, <1>4, <2>5
    <3>2. outputs[k].state = "whole"
      BY <1>1, <3>1
    <3> QED BY <2>1, <2>2, <2>3, <2>5, <3>2 DEF Slot
  <2> QED BY <2>4, <2>5
<1>6. DOMAIN ended = 1 .. K
  BY <1>1
<1> QED
  BY <1>5, <1>6 DEF Whole

(* A single output that is the whole file is picked of a single clip.      *)
LEMMA CopyIsWhole ==
  ASSUME NEW clips, Clips(clips), InTime(clips), NEW picked,
         Wanted(picked, clips), Len(picked) = 1, From(clips, picked[1]) = 0,
         From(clips, picked[1] + 1) = From(clips, Len(clips) + 1),
         NEW copied,
         copied = <<[state |-> "whole", packets |-> Concatenated(clips)]>>
  PROVE  Whole(clips, picked, copied)
<1> DEFINE N == Len(clips)
           w == picked[1]
           L == Len(clips[1].packets)
<1>1. N \in Nat /\ picked \in [1 .. 1 -> 1 .. N]
  BY DEF Clips, Wanted
<1>2. w \in 1 .. N
  BY <1>1
<1>3. /\ \A i, k \in 1 .. N + 1 : i < k => From(clips, i) < From(clips, k)
      /\ \A i \in 1 .. N + 1 : From(clips, i) \in Nat
      /\ From(clips, 1) = 0
  BY TimesAre DEF Times
<1>4. w = 1
  <2> SUFFICES ASSUME w # 1 PROVE FALSE
    OBVIOUS
  <2>1. 1 < w /\ 1 \in 1 .. N + 1 /\ w \in 1 .. N + 1
    BY <1>1, <1>2
  <2>2. From(clips, 1) < From(clips, w)
    BY <1>3, <2>1
  <2> QED BY <1>3, <2>2
<1>5. N = 1
  <2> SUFFICES ASSUME N # 1 PROVE FALSE
    OBVIOUS
  <2>1. w + 1 < N + 1 /\ w + 1 \in 1 .. N + 1 /\ N + 1 \in 1 .. N + 1
    <3>1. w = 1 /\ N \in Nat /\ N # 1 /\ 1 <= N
      BY <1>1, <1>2, <1>4
    <3> HIDE DEF w, N
    <3> QED BY <3>1
  <2>2. From(clips, w + 1) < From(clips, N + 1) /\ From(clips, w + 1) \in Nat
    BY <1>3, <2>1
  <2> QED BY <2>2
<1>6. PICK off : Belt(clips, off)
  BY BeltExists
<1>7. /\ off[1] = 0 /\ off[2] = off[1] + L /\ L \in Nat
      /\ Concatenated(clips) \in Seq(Stamped) /\ Len(Concatenated(clips)) = off[2]
      /\ \A n \in 1 .. L : Concatenated(clips)[off[1] + n] = Shifted(clips, 1, n)
      /\ DOMAIN clips[1].packets = 1 .. L
  <2>1. 1 \in 1 .. Len(clips) /\ 1 + 1 = 2 /\ Len(clips) + 1 = 2
    BY <1>5
  <2> QED BY <1>6, <2>1 DEF Belt, Clips
<1>8. Concatenated(clips) = [n \in 1 .. L |-> Concatenated(clips)[n]]
  BY <1>7, LenProperties
<1>9. \A n \in 1 .. L : Concatenated(clips)[n] = Own(clips, 1, n)
  <2> TAKE n \in 1 .. L
  <2>1. off[1] + n = n
    BY <1>7
  <2>2. Concatenated(clips)[n] = Shifted(clips, 1, n)
    BY <1>7, <2>1
  <2>3. clips[1].packets[n].at \in Nat
    <3>1. clips[1].packets \in Seq(Raw)
      BY <1>5 DEF Clips
    <3>2. clips[1].packets[n] \in Raw
      BY <1>7, <3>1, ElementOfSeq
    <3> QED BY <3>2 DEF Raw
  <2>4. clips[1].packets[n].at + From(clips, 1) = clips[1].packets[n].at
    BY <1>3, <2>3
  <2> QED BY <2>2, <2>4 DEF Shifted, Own
<1>10. Concatenated(clips) = Single(clips, 1)
  BY <1>7, <1>8, <1>9 DEF Single, Own
<1>11. DOMAIN copied = 1 .. 1
       /\ copied[1] = [state |-> "whole", packets |-> Concatenated(clips)]
  OBVIOUS
<1>12. \A k \in 1 .. 1 : copied[k] = [state |-> "whole", packets |-> Single(clips, picked[k])]
  <2> TAKE k \in 1 .. 1
  <2>1. k = 1
    OBVIOUS
  <2> QED BY <1>4, <1>10, <1>11, <2>1
<1> QED
  BY <1>11, <1>12 DEF Whole

LEMMA SplitStep ==
  ASSUME SplitInv, [MediaNext]_mediaVars
  PROVE  SplitInv'
<1> SUFFICES ASSUME media' \in SplitJobs, InTime(media'.clips)
             PROVE  /\ medium' \in {"routing", "done", "failed"}
                    /\ medium' = "routing" => CutNow'
                    /\ medium' = "done" => Whole(media'.clips, media'.wanted, targets')
  BY DEF SplitInv
<1>0. media' = media
  BY DEF MediaNext, mediaVars, CopyWhole, OpenSlice, RoutePacket, EndSplit,
         FailSplit, NextInput, EncodeBatch, EndEncode, FailEncode, PublishMedia
<1>1. /\ media \in SplitJobs /\ InTime(media.clips)
      /\ medium \in {"routing", "done", "failed"}
      /\ medium = "routing" => CutNow
      /\ medium = "done" => Whole(media.clips, media.wanted, targets)
  BY <1>0 DEF SplitInv
<1> DEFINE clips == media.clips
           picked == media.wanted
<1>2. Clips(clips) /\ Wanted(picked, clips)
  BY <1>1, SplitType
<1>3. /\ DOMAIN Slices = 1 .. Len(picked) /\ Len(Slices) = Len(picked)
      /\ \A k \in 1 .. Len(picked) :
           /\ picked[k] \in 1 .. Len(clips)
           /\ Slices[k][1] = From(clips, picked[k])
           /\ Slices[k][2] = From(clips, picked[k] + 1)
  BY <1>2, SlicesAre DEF Slices
<1>4. Packets = Concatenated(clips)
  BY DEF Packets
<1>5. CASE CopyWhole
  <2>1. \/ /\ medium' = "done"
           /\ targets' = <<[state |-> "whole", packets |-> Concatenated(clips)]>>
        \/ medium' = "failed"
    BY <1>4, <1>5 DEF CopyWhole
  <2>2. /\ Len(picked) = 1 /\ From(clips, picked[1]) = 0
        /\ From(clips, picked[1] + 1) = From(clips, Len(clips) + 1)
    <3>1. /\ Len(Slices) = 1 /\ Slices[1][1] = 0
          /\ Slices[1][2] = PictureEnd(clips)
      BY <1>5 DEF CopyWhole, WholeFile
    <3>2. Len(picked) = 1 /\ 1 \in 1 .. Len(picked)
      BY <1>3, <3>1
    <3>3. Slices[1][1] = From(clips, picked[1])
          /\ Slices[1][2] = From(clips, picked[1] + 1)
          /\ picked[1] \in 1 .. Len(clips)
      BY <1>3, <3>2
    <3>4. Len(clips) \in Nat
      BY <1>2 DEF Clips
    <3>5. Len(clips) \in 1 .. Len(clips)
      BY <3>3, <3>4
    <3>6. To(clips, Len(clips)) = From(clips, Len(clips) + 1)
      BY <1>2, <3>5, TimesAre DEF Times
    <3>7. PictureEnd(clips) = To(clips, Len(clips))
      BY <1>1 DEF PictureEnd, To, InTime
    <3> QED BY <3>1, <3>2, <3>3, <3>6, <3>7
  <2>3. CASE medium' = "failed"
    BY <2>3
  <2>4. CASE /\ medium' = "done"
             /\ targets' = <<[state |-> "whole", packets |-> Concatenated(clips)]>>
    <3>1. Whole(clips, picked, targets')
      <4>1. InTime(clips)
        BY <1>1 DEF clips
      <4> HIDE DEF clips, picked
      <4> QED BY <1>2, <2>2, <2>4, <4>1, CopyIsWhole
    <3> QED BY <1>0, <2>4, <3>1
  <2> QED BY <2>1, <2>3, <2>4
<1>6. CASE OpenSlice
  <2>1. medium = "routing" /\ medium' = "routing" /\ demuxed' = demuxed
        /\ slice' = slice + 1
    BY <1>6 DEF OpenSlice, Splitting
  <2>2. PICK off : Belt(clips, off) /\ Cut(clips, picked, off, demuxed, slice, targets)
    BY <1>1, <2>1 DEF CutNow
  <2>3. /\ demuxed < off[Len(clips) + 1] /\ slice < Len(picked)
        /\ Concatenated(clips)[demuxed + 1].at >= From(clips, picked[slice + 1])
    <3>1. demuxed < Len(Packets) /\ slice < Len(Slices)
          /\ Packets[demuxed + 1].at >= Slices[slice + 1][1]
      BY <1>6 DEF OpenSlice, Reached
    <3>2. Len(Concatenated(clips)) = off[Len(clips) + 1]
      BY <2>2 DEF Belt
    <3>3. slice + 1 \in 1 .. Len(picked)
      <4>1. slice \in 0 .. Len(picked) /\ Len(picked) \in Nat
        BY <1>2, <2>2 DEF Cut, Wanted
      <4>2. slice < Len(picked)
        BY <1>3, <3>1
      <4> QED BY <4>1, <4>2
    <3> QED BY <1>3, <1>4, <3>1, <3>2, <3>3
  <2>4. demuxed >= off[picked[slice + 1]]
    <3>1. slice + 1 \in 1 .. Len(picked)
      <4>1. slice \in 0 .. Len(picked) /\ Len(picked) \in Nat
        BY <1>2, <2>2 DEF Cut, Wanted
      <4> QED BY <2>3, <4>1
    <3>2. picked[slice + 1] \in 1 .. Len(clips) + 1
      <4>1. picked[slice + 1] \in 1 .. Len(clips) /\ Len(clips) \in Nat
        BY <1>2, <1>3, <3>1 DEF Clips
      <4> QED BY <4>1
    <3>3. demuxed \in 0 .. off[Len(clips) + 1] - 1
      <4>1. demuxed \in 0 .. off[Len(clips) + 1]
        BY <2>2 DEF Cut
      <4>2. off[Len(clips) + 1] \in Nat
        <5>1. Len(clips) + 1 \in 1 .. Len(clips) + 1
          BY <1>2 DEF Clips
        <5> QED BY <2>2, <5>1 DEF Belt
      <4> QED BY <2>3, <4>1, <4>2
    <3> HIDE DEF clips, picked
    <3>4. Concatenated(clips)[demuxed + 1].at >= From(clips, picked[slice + 1])
            <=> demuxed >= off[picked[slice + 1]]
      BY <1>1, <1>2, <2>2, <3>2, <3>3, Arrival DEF clips
    <3> QED BY <2>3, <3>4
  <2>5. targets' = [k \in DOMAIN targets |->
                     IF k = slice THEN [targets[k] EXCEPT !.state = "whole"]
                     ELSE IF k = slice + 1 THEN [state |-> "partial", packets |-> <<>>]
                     ELSE targets[k]]
    BY <1>6 DEF OpenSlice
  <2>6. Cut(clips, picked, off, demuxed, slice + 1, targets')
    <3> HIDE DEF clips, picked
    <3> QED BY <1>2, <2>2, <2>3, <2>4, <2>5, CutOpens
  <2>7. CutNow'
    BY <1>0, <2>1, <2>2, <2>6 DEF CutNow
  <2> QED BY <2>1, <2>7
<1>7. CASE RoutePacket
  <2>1. medium = "routing" /\ medium' = "routing" /\ demuxed' = demuxed + 1
        /\ slice' = slice
    BY <1>7 DEF RoutePacket, Splitting
  <2>2. PICK off : Belt(clips, off) /\ Cut(clips, picked, off, demuxed, slice, targets)
    BY <1>1, <2>1 DEF CutNow
  <2> DEFINE packet == Concatenated(clips)[demuxed + 1]
  <2>3. /\ demuxed < off[Len(clips) + 1]
        /\ slice < Len(picked) => ~ (packet.at >= From(clips, picked[slice + 1]))
        /\ slice # 0 => Slices[slice][1] = From(clips, picked[slice])
                        /\ Slices[slice][2] = From(clips, picked[slice] + 1)
    <3>1. demuxed < Len(Packets) /\
          ~ (slice < Len(Slices) /\ Packets[demuxed + 1].at >= Slices[slice + 1][1])
      BY <1>7 DEF RoutePacket, Reached
    <3>2. Len(Concatenated(clips)) = off[Len(clips) + 1]
      BY <2>2 DEF Belt
    <3>3. slice \in 0 .. Len(picked) /\ Len(picked) \in Nat
      BY <1>2, <2>2 DEF Cut, Wanted
    <3>4. ASSUME slice < Len(picked)
          PROVE  ~ (packet.at >= From(clips, picked[slice + 1]))
      <4>1. slice + 1 \in 1 .. Len(picked)
        BY <3>3, <3>4
      <4> QED BY <1>3, <1>4, <3>1, <3>4, <4>1
    <3>5. ASSUME slice # 0
          PROVE  Slices[slice][1] = From(clips, picked[slice])
                 /\ Slices[slice][2] = From(clips, picked[slice] + 1)
      <4>1. slice \in 1 .. Len(picked)
        BY <3>3, <3>5
      <4> QED BY <1>3, <4>1
    <3> QED BY <1>4, <3>1, <3>2, <3>4, <3>5
  <2>4. targets' = IF slice = 0 \/ packet.at >= From(clips, picked[slice] + 1)
                   THEN targets
                   ELSE [targets EXCEPT ![slice].packets =
                          Append(@, [packet EXCEPT !.at = @ - From(clips, picked[slice])])]
    <3>1. targets' = IF slice = 0 \/ packet.at >= Slices[slice][2]
                     THEN targets
                     ELSE [targets EXCEPT ![slice].packets =
                            Append(@, [packet EXCEPT !.at = @ - Slices[slice][1]])]
      BY <1>4, <1>7 DEF RoutePacket
    <3> HIDE DEF packet
    <3> QED BY <2>3, <3>1
  <2>5. Cut(clips, picked, off, demuxed + 1, slice, targets')
    <3>1. InTime(clips) /\ packet = Concatenated(clips)[demuxed + 1]
      BY <1>1
    <3> HIDE DEF clips, picked, packet
    <3> QED BY <1>2, <2>2, <2>3, <2>4, <3>1, CutRoutes
  <2>6. CutNow'
    BY <1>0, <2>1, <2>2, <2>5 DEF CutNow
  <2> QED BY <2>1, <2>6
<1>8. CASE EndSplit
  <2>1. medium = "routing" /\ medium' = "done" /\ demuxed = Len(Packets)
    BY <1>8 DEF EndSplit, Splitting
  <2>2. PICK off : Belt(clips, off) /\ Cut(clips, picked, off, demuxed, slice, targets)
    BY <1>1, <2>1 DEF CutNow
  <2>3. demuxed = off[Len(clips) + 1]
    BY <1>4, <2>1, <2>2 DEF Belt
  <2>4. targets' = [k \in DOMAIN targets |->
                     IF k = slice THEN [targets[k] EXCEPT !.state = "whole"]
                     ELSE targets[k]]
    BY <1>8 DEF EndSplit
  <2>5. Whole(clips, picked, targets')
    <3>1. Cut(clips, picked, off, off[Len(clips) + 1], slice, targets)
      BY <2>2, <2>3
    <3> HIDE DEF clips, picked
    <3> QED BY <1>2, <2>2, <2>4, <3>1, CutEnds
  <2> QED BY <1>0, <2>1, <2>5
<1>9. CASE FailSplit
  BY <1>9 DEF FailSplit
<1>10. CASE NextInput \/ EncodeBatch \/ EndEncode \/ FailEncode \/ PublishMedia
  <2>1. medium \in {"encoding", "publishing"}
    BY <1>10 DEF NextInput, EncodeBatch, EndEncode, FailEncode, PublishMedia
  <2> QED BY <1>1, <2>1
<1>11. CASE UNCHANGED mediaVars
  <2>1. /\ medium' = medium /\ targets' = targets /\ demuxed' = demuxed
        /\ slice' = slice
    BY <1>11 DEF mediaVars
  <2>2. CutNow => CutNow'
    BY <1>0, <2>1 DEF CutNow
  <2> QED BY <1>0, <1>1, <2>1, <2>2
<1> QED
  BY <1>5, <1>6, <1>7, <1>8, <1>9, <1>10, <1>11 DEF MediaNext

(***************************************************************************)
(* Digests of slices: what has been digested of each slice, when some      *)
(* packets of the file have been read, is what has been digested of its    *)
(* clip alone when those of them that are the clip's have been read.       *)
(***************************************************************************)

Ranges(ranges, K) ==
  /\ K \in Nat \ {0} /\ DOMAIN ranges = 1 .. K /\ Len(ranges) = K
  /\ \A k \in 1 .. K : ranges[k][1] \in Nat /\ ranges[k][2] \in Nat

Digesting(K) == [index: 1 .. K, digests: [1 .. K -> Seq(Nat \X Nat)]]
NoDigest(ranges) == [index |-> 1, digests |-> [k \in DOMAIN ranges |-> <<>>]]

Digested(ranges, s, packet) ==
  IF packet.stream = "video" THEN AddDigest(ranges, s, packet) ELSE s

DigestSteps(h, packets, ranges, K) ==
  /\ h \in [0 .. Len(packets) -> Digesting(K)] /\ h[0] = NoDigest(ranges)
  /\ \A i \in 1 .. Len(packets) : h[i] = Digested(ranges, h[i - 1], packets[i])

LEMMA SkipIs ==
  ASSUME NEW K, NEW ranges, Ranges(ranges, K), NEW index \in 1 .. K, NEW at \in Nat
  PROVE  /\ Skip(ranges, index, at) \in index .. K
         /\ Skip(ranges, index, at) \in 1 .. K
         /\ \A j \in index .. Skip(ranges, index, at) - 1 : at >= ranges[j][2]
         /\ \/ Skip(ranges, index, at) = K
            \/ at < ranges[Skip(ranges, index, at)][2]
<1> DEFINE Stops == {k \in index .. K : k = K \/ at < ranges[k][2]}
           Ok(k) == /\ \A j \in index .. k - 1 : at >= ranges[j][2]
                    /\ k = K \/ at < ranges[k][2]
<1>1. K \in Nat /\ index \in Nat /\ index <= K /\ Len(ranges) = K
      /\ \A k \in 1 .. K : ranges[k][2] \in Nat
  BY DEF Ranges
<1>2. Stops # {} /\ IsFiniteSet(Stops) /\ Stops \in SUBSET Int
  <2>1. K \in Stops
    BY <1>1
  <2>2. IsFiniteSet(index .. K)
    BY <1>1, FS_Interval
  <2>3. Stops \in SUBSET (index .. K) /\ Stops \in SUBSET Int
    BY <1>1
  <2> HIDE DEF Stops
  <2> QED BY <2>1, <2>2, <2>3, FS_Subset
<1>3. PICK k \in Stops : \A x \in Stops : k <= x
  <2> HIDE DEF Stops
  <2> QED BY <1>2, FiniteMin
<1>4. k \in index .. K /\ Ok(k)
  <2>1. ASSUME NEW j \in index .. k - 1 PROVE at >= ranges[j][2]
    <3>1. j \in index .. K /\ j \in 1 .. K /\ ~ (k <= j)
      BY <1>1
    <3>2. j \notin Stops
      BY <1>3, <3>1
    <3>3. ~ (at < ranges[j][2]) /\ ranges[j][2] \in Nat
      BY <1>1, <3>1, <3>2
    <3> QED BY <3>3
  <2> QED BY <1>3, <2>1
<1>5. Skip(ranges, index, at) = CHOOSE x \in index .. K : Ok(x)
  BY <1>1 DEF Skip
<1>6. Skip(ranges, index, at) \in index .. K /\ Ok(Skip(ranges, index, at))
  <2> HIDE DEF Ok
  <2> QED BY <1>4, <1>5
<1>7. Skip(ranges, index, at) \in 1 .. K
  BY <1>1, <1>6
<1> QED
  BY <1>6, <1>7

LEMMA DigestType ==
  ASSUME NEW K, NEW ranges, Ranges(ranges, K), NEW s \in Digesting(K),
         NEW packet \in Stamped
  PROVE  Digested(ranges, s, packet) \in Digesting(K)
<1> DEFINE k == Skip(ranges, s.index, packet.at)
           more == [s.digests EXCEPT ![k] = Append(@, packet.of)]
<1>1. /\ s.index \in 1 .. K /\ s.digests \in [1 .. K -> Seq(Nat \X Nat)]
      /\ packet.at \in Nat /\ packet.of \in Nat \X Nat
  BY DEF Digesting, Stamped
<1>2. k \in 1 .. K
  BY <1>1, SkipIs
<1> HIDE DEF k
<1>3. more \in [1 .. K -> Seq(Nat \X Nat)]
  <2>1. s.digests[k] \in Seq(Nat \X Nat)
    BY <1>1, <1>2
  <2>2. Append(s.digests[k], packet.of) \in Seq(Nat \X Nat)
    BY <1>1, <2>1, AppendProperties
  <2> QED BY <1>1, <1>2, <2>2
<1> HIDE DEF more
<1>4. AddDigest(ranges, s, packet) =
        [index |-> k,
         digests |-> IF ranges[k][1] <= packet.at /\ packet.at < ranges[k][2]
                     THEN more ELSE s.digests]
  BY DEF AddDigest, k, more
<1>5. AddDigest(ranges, s, packet) \in Digesting(K)
  BY <1>1, <1>2, <1>3, <1>4 DEF Digesting
<1> QED
  BY <1>5 DEF Digested

(* Digesting goes through the packets in order, one step for each.         *)
LEMMA DigestsInOrder ==
  ASSUME NEW K, NEW ranges, Ranges(ranges, K), NEW packets \in Seq(Stamped)
  PROVE  \E h : /\ DigestSteps(h, packets, ranges, K)
                /\ Digests(packets, ranges) = h[Len(packets)].digests
<1> DEFINE n == Len(packets)
           D == 1 .. n
           St == Digesting(K)
           base == NoDigest(ranges)
           pick == [s \in SUBSET D |-> Max(s)]
           f == [p \in St \X D |-> Digested(ranges, p[1], packets[p[2]])]
           Step(g, s) == Digested(ranges, g[s \ {Max(s)}], packets[Max(s)])
           Fold == CHOOSE g : g = [s \in SUBSET DOMAIN packets |->
                                     IF s = {} THEN base ELSE Step(g, s)]
<1>1. n \in Nat /\ DOMAIN packets = D /\ \A i \in D : packets[i] \in Stamped
  BY LenProperties, ElementOfSeq
<1>2. base \in St
  <2>1. <<>> \in Seq(Nat \X Nat) /\ 1 \in 1 .. K /\ DOMAIN ranges = 1 .. K
    BY DEF Ranges
  <2> QED BY <2>1 DEF NoDigest, Digesting
<1>3. f \in [St \X D -> St]
  <2>1. ASSUME NEW s \in St, NEW i \in D PROVE Digested(ranges, s, packets[i]) \in St
    BY <1>1, DigestType
  <2> HIDE DEF St, D
  <2> QED BY <2>1
<1>4. Picks(pick, D) /\ TakesMax(pick, D, n)
  <2>1. TakesMax(pick, D, n)
    BY <1>1 DEF TakesMax
  <2> HIDE DEF pick, D
  <2> QED BY <2>1, MaxPicks
<1>5. PICK g \in [SUBSET D -> St] : Folds(g, f, pick, base, D, St)
  <2>1. IsFiniteSet(D)
    <3>1. 1 \in Int /\ n \in Int
      BY <1>1
    <3> QED BY <3>1, FS_Interval
  <2> HIDE DEF D, St, base, pick, f
  <2> QED BY <1>2, <1>3, <1>4, <2>1, FoldExists
<1>6. \A s \in SUBSET D : s # {} => pick[s] = Max(s) /\ pick[s] \in D
  BY <1>4 DEF Picks, TakesMax
<1>7. \A x, s : s \in SUBSET D /\ s # {} /\ x \in St =>
        f[<<x, pick[s]>>] = Digested(ranges, x, packets[Max(s)])
  <2> TAKE x, s
  <2> HAVE s \in SUBSET D /\ s # {} /\ x \in St
  <2>1. <<x, pick[s]>> \in St \X D /\ pick[s] = Max(s)
    BY <1>6
  <2> HIDE DEF St, D, pick
  <2> QED BY <2>1
<1> HIDE DEF f
<1>8. g = [s \in SUBSET DOMAIN packets |-> IF s = {} THEN base ELSE Step(g, s)]
  <2>1. ASSUME NEW s \in SUBSET D, s # {} PROVE g[s] = Step(g, s)
    <3>1. pick[s] \in D /\ g[s \ {pick[s]}] \in St /\ pick[s] = Max(s)
      BY <1>5, <1>6, <2>1
    <3>2. g[s] = f[<<g[s \ {pick[s]}], pick[s]>>]
      BY <1>5, <2>1, <3>1 DEF Folds
    <3> HIDE DEF St, D, pick
    <3> QED BY <1>7, <2>1, <3>1, <3>2
  <2>2. g[{}] = base /\ DOMAIN packets = D
    BY <1>1, <1>5 DEF Folds
  <2> HIDE DEF Step, D, St, base
  <2> QED BY <1>5, <2>1, <2>2
<1>9. Fold = [s \in SUBSET DOMAIN packets |-> IF s = {} THEN base ELSE Step(Fold, s)]
  <2> HIDE DEF Step, D, St, base
  <2> QED BY <1>8, Zenon
<1>10. Folds(Fold, f, pick, base, D, St)
  <2>1. ASSUME NEW s \in SUBSET D, s # {}, Fold[s \ {pick[s]}] \in St
        PROVE  Fold[s] = f[<<Fold[s \ {pick[s]}], pick[s]>>]
    <3>1. Fold[s] = Step(Fold, s)
      <4> HIDE DEF Step, Fold, base, D
      <4> QED BY <1>1, <1>9, <2>1
    <3>2. pick[s] = Max(s) /\ pick[s] \in D
      BY <1>6, <2>1
    <3> HIDE DEF Fold, St, D, pick
    <3> QED BY <1>7, <2>1, <3>1, <3>2
  <2>2. Fold[{}] = base
    <3> HIDE DEF Step, D, Fold, base
    <3> QED BY <1>9
  <2> HIDE DEF Fold, pick, St, D, base
  <2> QED BY <2>1, <2>2 DEF Folds
<1>11. PICK h : Steps(h, f, base, n, St) /\ Fold[D] = h[n]
  <2> HIDE DEF Fold, pick, St, base, D
  <2>1. StepsWithin(f, base, D, St)
    BY <1>2, <1>3 DEF StepsWithin
  <2> QED BY <1>4, <1>10, <2>1, FoldInOrder
<1>12. Digests(packets, ranges) = Fold[D].digests
  <2>1. Digests(packets, ranges) = Fold[DOMAIN packets].digests
    BY Zenon DEF Digests, FoldLeft, MapThenFoldSet, Digested, NoDigest
  <2> HIDE DEF Fold, D
  <2> QED BY <1>1, <2>1
<1>13. \A i \in 1 .. n : h[i] = Digested(ranges, h[i - 1], packets[i])
  <2> TAKE i \in 1 .. n
  <2>1. i - 1 \in 0 .. n
    BY <1>1
  <2>2. <<h[i - 1], i>> \in St \X D
    BY <1>11, <2>1 DEF Steps
  <2>3. h[i] = f[<<h[i - 1], i>>]
    BY <1>11 DEF Steps
  <2> HIDE DEF St, D
  <2> QED BY <2>2, <2>3 DEF f
<1>14. DigestSteps(h, packets, ranges, K)
  BY <1>11, <1>13 DEF Steps, DigestSteps
<1> QED
  <2> HIDE DEF Fold, D, St
  <2> QED BY <1>11, <1>12, <1>14

(* What is digested of a clip, as its packets are read one after another.  *)
ClipSteps(e, clips, c) ==
  /\ e[0] = <<>>
  /\ \A n \in 1 .. Len(clips[c].packets) :
       e[n] = IF clips[c].packets[n].stream = "video"
              THEN Append(e[n - 1], <<c, n>>) ELSE e[n - 1]

LEMMA SingleDigests ==
  ASSUME NEW clips, Clips(clips), InTime(clips), NEW c \in 1 .. Len(clips)
  PROVE  \E e : /\ ClipSteps(e, clips, c)
                /\ Digests(Single(clips, c), <<(<<0, clips[c].length>>)>>)[1]
                     = e[Len(clips[c].packets)]
<1> DEFINE L == Len(clips[c].packets)
           own == Single(clips, c)
           ranges == <<(<<0, clips[c].length>>)>>
<1>1. /\ L \in Nat /\ clips[c].packets \in Seq(Raw) /\ DOMAIN clips[c].packets = 1 .. L
      /\ clips[c].length \in Nat /\ c \in Nat
  BY DEF Clips
<1>2. \A n \in 1 .. L : clips[c].packets[n] \in Raw
  BY <1>1, ElementOfSeq
<1>3. own \in [1 .. L -> Stamped] /\ \A n \in 1 .. L : own[n] = Own(clips, c, n)
  <2>1. \A n \in 1 .. L : own[n] = Own(clips, c, n)
    BY <1>1 DEF Single, Own
  <2>2. \A n \in 1 .. L : Own(clips, c, n) \in Stamped
    <3> TAKE n \in 1 .. L
    <3>1. n \in Nat /\ clips[c].packets[n] \in Raw
      BY <1>1, <1>2
    <3> QED BY <1>1, <3>1 DEF Own, Stamped, Raw
  <2>3. own = [n \in 1 .. L |-> own[n]]
    BY <1>1 DEF Single
  <2> HIDE DEF own, L
  <2> QED BY <2>1, <2>2, <2>3
<1>4. own \in Seq(Stamped) /\ Len(own) = L
  <2> HIDE DEF own, L
  <2> QED BY <1>1, <1>3, SeqOfFunction
<1>5. /\ Ranges(ranges, 1) /\ ranges[1][1] = 0 /\ ranges[1][2] = clips[c].length
      /\ DOMAIN ranges = 1 .. 1
  <2>1. /\ DOMAIN ranges = 1 .. 1 /\ Len(ranges) = 1
        /\ ranges[1][1] = 0 /\ ranges[1][2] = clips[c].length
    OBVIOUS
  <2>2. \A k \in 1 .. 1 : k = 1
    OBVIOUS
  <2> HIDE DEF ranges
  <2> QED BY <1>1, <2>1, <2>2 DEF Ranges
<1> HIDE DEF own, ranges, L
<1>6. PICK h : /\ DigestSteps(h, own, ranges, 1)
               /\ Digests(own, ranges) = h[Len(own)].digests
  BY <1>4, <1>5, DigestsInOrder
<1> DEFINE e == [n \in 0 .. L |-> h[n].digests[1]]
<1>7. e[0] = <<>>
  <2>1. h[0].digests[1] = <<>>
    <3>1. h[0] = NoDigest(ranges) /\ 1 \in DOMAIN ranges
      BY <1>5, <1>6 DEF DigestSteps
    <3> QED BY <3>1 DEF NoDigest
  <2>2. 0 \in 0 .. L
    BY <1>1
  <2> QED BY <2>1, <2>2
<1>8. ASSUME NEW n \in 1 .. L
      PROVE  e[n] = IF clips[c].packets[n].stream = "video"
                    THEN Append(e[n - 1], <<c, n>>) ELSE e[n - 1]
  <2>1. n \in 0 .. L /\ n - 1 \in 0 .. L
    BY <1>1
  <2>2. e[n] = h[n].digests[1] /\ e[n - 1] = h[n - 1].digests[1]
    BY <2>1
  <2> HIDE DEF e
  <2>3. h[n] = Digested(ranges, h[n - 1], own[n]) /\ h[n - 1] \in Digesting(1)
    BY <1>4, <1>6, <2>1 DEF DigestSteps
  <2>4. /\ own[n].stream = clips[c].packets[n].stream
        /\ own[n].at = clips[c].packets[n].at /\ own[n].of = <<c, n>>
    BY <1>3 DEF Own
  <2>5. h[n - 1].index = 1 /\ h[n - 1].digests \in [1 .. 1 -> Seq(Nat \X Nat)]
    BY <2>3 DEF Digesting
  <2>6. own[n].at \in Nat /\ own[n].at < clips[c].length
    <3>1. clips[c] \in Range(clips) /\ n \in DOMAIN clips[c].packets
      BY <1>1 DEF Clips, Range, L
    <3> QED BY <1>2, <2>4, <3>1 DEF InTime, Raw
  <2>7. Skip(ranges, 1, own[n].at) = 1
    <3>1. Skip(ranges, 1, own[n].at) \in 1 .. 1
      <4>1. 1 \in 1 .. 1
        OBVIOUS
      <4> QED BY <1>5, <2>6, <4>1, SkipIs
    <3> QED BY <3>1
  <2>8. AddDigest(ranges, h[n - 1], own[n]).digests
          = [h[n - 1].digests EXCEPT ![1] = Append(@, <<c, n>>)]
    <3>1. AddDigest(ranges, h[n - 1], own[n]).digests =
            IF ranges[1][1] <= own[n].at /\ own[n].at < ranges[1][2]
            THEN [h[n - 1].digests EXCEPT ![1] = Append(@, <<c, n>>)]
            ELSE h[n - 1].digests
      BY <2>4, <2>5, <2>7 DEF AddDigest
    <3>2. ranges[1][1] <= own[n].at /\ own[n].at < ranges[1][2]
      BY <1>5, <2>6
    <3> QED BY <3>1, <3>2
  <2>9. AddDigest(ranges, h[n - 1], own[n]).digests[1]
          = Append(h[n - 1].digests[1], <<c, n>>)
    BY <2>5, <2>8
  <2> QED BY <2>2, <2>3, <2>4, <2>9 DEF Digested
<1>9. ClipSteps(e, clips, c)
  <2> HIDE DEF e
  <2> QED BY <1>7, <1>8 DEF ClipSteps, L
<1>10. Digests(own, ranges)[1] = e[L]
  <2>1. L \in 0 .. L
    BY <1>1
  <2> QED BY <1>4, <1>6, <2>1
<1> QED
  <2> HIDE DEF e
  <2> QED BY <1>9, <1>10 DEF own, ranges, L

(* The slices before the present one are over.                             *)
Behind(s, picked, off, d) == \A j \in 1 .. s.index - 1 : off[picked[j] + 1] <= d

Cutting(slices, clips, picked) ==
  slices = [k \in DOMAIN picked |-> <<From(clips, picked[k]), To(clips, picked[k])>>]

LEMMA CutRanges ==
  ASSUME NEW clips, Clips(clips), NEW picked, Wanted(picked, clips),
         NEW slices, Cutting(slices, clips, picked)
  PROVE  Ranges(slices, Len(picked))
<1> DEFINE K == Len(picked)
           N == Len(clips)
<1>1. /\ DOMAIN slices = 1 .. K /\ Len(slices) = K
      /\ \A k \in 1 .. K : /\ picked[k] \in 1 .. N
                           /\ slices[k][1] = From(clips, picked[k])
                           /\ slices[k][2] = From(clips, picked[k] + 1)
  BY SlicesAre DEF Cutting
<1>2. K \in Nat \ {0} /\ N \in Nat
  BY DEF Wanted, Clips
<1>3. \A i \in 1 .. N + 1 : From(clips, i) \in Nat
  BY TimesAre DEF Times
<1>4. \A i \in 1 .. N : i \in 1 .. N + 1 /\ i + 1 \in 1 .. N + 1
  BY <1>2
<1> QED
  BY <1>1, <1>2, <1>3, <1>4 DEF Ranges

(* A packet of clip picked[k] is digested for slice k, no other one is.     *)
DigestedNext(s, t, packet, off, picked, k, d) ==
  /\ Behind(t, picked, off, d + 1)
  /\ off[picked[k]] <= d /\ d < off[picked[k] + 1] /\ packet.stream = "video" =>
       t.digests[k] = Append(s.digests[k], packet.of)
  /\ ~ (off[picked[k]] <= d /\ d < off[picked[k] + 1] /\ packet.stream = "video") =>
       t.digests[k] = s.digests[k]

LEMMA DigestStep ==
  ASSUME NEW clips, Clips(clips), InTime(clips), NEW picked, Wanted(picked, clips),
         NEW off, Belt(clips, off), NEW d \in 0 .. off[Len(clips) + 1] - 1,
         NEW slices, Cutting(slices, clips, picked),
         NEW s \in Digesting(Len(picked)), Behind(s, picked, off, d),
         NEW packet, packet = Concatenated(clips)[d + 1],
         NEW t, t = Digested(slices, s, packet),
         NEW k \in 1 .. Len(picked)
  PROVE  DigestedNext(s, t, packet, off, picked, k, d)
<1> USE DEF DigestedNext
<1> DEFINE K == Len(picked)
           N == Len(clips)
           m == Skip(slices, s.index, packet.at)
<1>1. /\ K \in Nat /\ N \in Nat /\ picked \in [1 .. K -> 1 .. N]
      /\ off \in [1 .. N + 1 -> Nat]
      /\ \A i, j \in 1 .. N + 1 : i < j => off[i] < off[j]
      /\ \A i, j \in 1 .. K : i < j => picked[i] < picked[j]
  BY DEF Wanted, Belt, Clips
<1>2. /\ packet \in Stamped
      /\ \A i \in 1 .. N + 1 : packet.at >= From(clips, i) <=> d >= off[i]
  BY Arrival
<1>3. /\ packet.at \in Nat /\ packet.of \in Nat \X Nat
      /\ s.index \in 1 .. K /\ s.digests \in [1 .. K -> Seq(Nat \X Nat)]
  BY <1>2 DEF Stamped, Digesting
<1>4. d \in Nat
  OBVIOUS
<1>5. ASSUME NEW j \in 1 .. K
      PROVE  /\ picked[j] \in 1 .. N + 1 /\ picked[j] + 1 \in 1 .. N + 1
             /\ off[picked[j]] \in Nat /\ off[picked[j] + 1] \in Nat
             /\ slices[j][1] = From(clips, picked[j])
             /\ slices[j][2] = From(clips, picked[j] + 1)
             /\ From(clips, picked[j]) \in Nat /\ From(clips, picked[j] + 1) \in Nat
             /\ packet.at >= slices[j][1] <=> d >= off[picked[j]]
             /\ packet.at >= slices[j][2] <=> d >= off[picked[j] + 1]
  <2>1. /\ picked[j] \in 1 .. N /\ slices[j][1] = From(clips, picked[j])
        /\ slices[j][2] = From(clips, picked[j] + 1)
    BY SlicesAre DEF Cutting
  <2>2. picked[j] \in 1 .. N + 1 /\ picked[j] + 1 \in 1 .. N + 1
    BY <1>1, <2>1
  <2>3. From(clips, picked[j]) \in Nat /\ From(clips, picked[j] + 1) \in Nat
    BY <2>2, TimesAre DEF Times
  <2> HIDE DEF N
  <2>4. off[picked[j]] \in Nat /\ off[picked[j] + 1] \in Nat
    BY <1>1, <2>2
  <2> QED BY <1>2, <2>1, <2>2, <2>3, <2>4
<1>6. Ranges(slices, K)
  BY CutRanges
<1>7. CASE packet.stream # "video"
  <2>1. t = s
    BY <1>7 DEF Digested
  <2>2. Behind(s, picked, off, d + 1)
    <3> SUFFICES ASSUME NEW j \in 1 .. s.index - 1 PROVE off[picked[j] + 1] <= d + 1
      BY DEF Behind
    <3>1. off[picked[j] + 1] <= d
      BY DEF Behind
    <3>2. j \in 1 .. K
      BY <1>1, <1>3
    <3>3. off[picked[j] + 1] \in Nat
      BY <1>5, <3>2
    <3> QED BY <1>4, <3>1, <3>3
  <2> QED BY <1>7, <2>1, <2>2
<1>8. CASE packet.stream = "video"
  <2>1. /\ m \in s.index .. K /\ m \in 1 .. K
        /\ \A j \in s.index .. m - 1 : packet.at >= slices[j][2]
        /\ m = K \/ packet.at < slices[m][2]
    BY <1>3, <1>6, SkipIs
  <2>2. t = AddDigest(slices, s, packet)
    BY <1>8 DEF Digested
  <2>3. /\ t.index = m
        /\ t.digests = IF slices[m][1] <= packet.at /\ packet.at < slices[m][2]
                       THEN [s.digests EXCEPT ![m] = Append(@, packet.of)]
                       ELSE s.digests
    BY <2>2 DEF AddDigest
  <2> HIDE DEF m
  <2>4. ASSUME NEW j \in 1 .. m - 1 PROVE off[picked[j] + 1] <= d /\ j \in 1 .. K
    <3>1. j \in 1 .. K /\ (j \in 1 .. s.index - 1 \/ j \in s.index .. m - 1)
      <4> HIDE DEF K
      <4> QED BY <1>1, <1>3, <2>1
    <3>2. off[picked[j] + 1] \in Nat
      BY <1>5, <3>1
    <3>3. CASE j \in 1 .. s.index - 1
      BY <3>1, <3>3 DEF Behind
    <3>4. CASE j \in s.index .. m - 1
      <4>1. packet.at >= slices[j][2]
        BY <2>1, <3>4
      <4>2. d >= off[picked[j] + 1]
        BY <1>5, <3>1, <4>1
      <4> QED BY <1>4, <3>1, <3>2, <4>2
    <3> QED BY <3>1, <3>3, <3>4
  <2>5. Behind(t, picked, off, d + 1)
    <3> SUFFICES ASSUME NEW j \in 1 .. m - 1 PROVE off[picked[j] + 1] <= d + 1
      BY <2>3 DEF Behind
    <3>1. off[picked[j] + 1] <= d /\ off[picked[j] + 1] \in Nat
      BY <1>5, <2>4
    <3> QED BY <1>4, <3>1
  <2>6. m \in Nat /\ k \in Nat /\ m <= K /\ k <= K
    <3>1. k \in 1 .. K
      OBVIOUS
    <3> HIDE DEF K
    <3> QED BY <1>1, <2>1, <3>1
  <2>7. CASE k = m
    <3>1. /\ slices[m][1] <= packet.at <=> off[picked[m]] <= d
          /\ packet.at < slices[m][2] <=> d < off[picked[m] + 1]
      <4>1. /\ packet.at >= slices[m][1] <=> d >= off[picked[m]]
            /\ packet.at >= slices[m][2] <=> d >= off[picked[m] + 1]
        BY <1>5, <2>1
      <4>2. slices[m][1] \in Nat /\ slices[m][2] \in Nat
            /\ off[picked[m]] \in Nat /\ off[picked[m] + 1] \in Nat
        BY <1>5, <2>1
      <4>3. packet.at \in Nat /\ d \in Nat
        BY <1>3, <1>4
      <4> DEFINE first == slices[m][1]
                 last == slices[m][2]
                 begin == off[picked[m]]
                 end == off[picked[m] + 1]
                 at == packet.at
      <4>4. /\ first \in Nat /\ last \in Nat /\ begin \in Nat /\ end \in Nat
            /\ at \in Nat /\ d \in Nat
            /\ at >= first <=> d >= begin
            /\ at >= last <=> d >= end
        BY <4>1, <4>2, <4>3
      <4> HIDE DEF first, last, begin, end, at
      <4>5. first <= at <=> begin <= d
        BY <4>4
      <4>6. at < last <=> d < end
        BY <4>4
      <4> QED BY <4>5, <4>6 DEF first, last, begin, end, at
    <3>2. [s.digests EXCEPT ![m] = Append(@, packet.of)][m]
            = Append(s.digests[m], packet.of)
      BY <1>3, <2>1
    <3> QED BY <1>8, <2>3, <2>5, <2>7, <3>1, <3>2
  <2>8. CASE k # m
    <3>1. t.digests[k] = s.digests[k]
      <4>1. [s.digests EXCEPT ![m] = Append(@, packet.of)][k] = s.digests[k]
        BY <1>3, <2>8
      <4> QED BY <2>3, <4>1
    <3>2. ~ (off[picked[k]] <= d /\ d < off[picked[k] + 1])
      <4>0. off[picked[k]] \in Nat /\ off[picked[k] + 1] \in Nat
        BY <1>5
      <4>1. CASE k < m
        <5>1. k \in 1 .. m - 1
          BY <2>6, <4>1
        <5>2. off[picked[k] + 1] <= d
          BY <2>4, <5>1
        <5> QED BY <1>4, <4>0, <5>2
      <4>2. CASE m < k
        <5>1. m # K
          <6> HIDE DEF K
          <6> QED BY <1>1, <2>6, <4>2
        <5>2. ~ (d >= off[picked[m] + 1])
          <6>1. packet.at < slices[m][2] /\ slices[m][2] \in Nat
            BY <1>5, <2>1, <5>1
          <6>2. ~ (packet.at >= slices[m][2])
            BY <1>3, <6>1
          <6> QED BY <1>5, <2>1, <6>2
        <5>3. picked[m] < picked[k] /\ picked[m] \in 1 .. N /\ picked[k] \in 1 .. N
          BY <1>1, <2>1, <4>2
        <5>4. picked[m] + 1 = picked[k] \/ picked[m] + 1 < picked[k]
          BY <1>1, <5>3
        <5>5. off[picked[m] + 1] <= off[picked[k]] /\ off[picked[m] + 1] \in Nat
          <6>1. off[picked[m] + 1] \in Nat
            BY <1>5, <2>1
          <6>2. CASE picked[m] + 1 = picked[k]
            BY <4>0, <6>1, <6>2
          <6>3. CASE picked[m] + 1 < picked[k]
            <7>1. picked[m] + 1 \in 1 .. N + 1 /\ picked[k] \in 1 .. N + 1
              BY <1>5, <2>1
            <7>2. off[picked[m] + 1] < off[picked[k]]
              BY <1>1, <6>3, <7>1
            <7> QED BY <4>0, <6>1, <7>2
          <6> QED BY <5>4, <6>2, <6>3
        <5> QED BY <1>4, <4>0, <5>2, <5>5
      <4> QED BY <2>6, <2>8, <4>1, <4>2
    <3> QED BY <2>5, <3>1, <3>2
  <2> QED BY <2>7, <2>8
<1> QED
  BY <1>7, <1>8

LEMMA TakenAll ==
  ASSUME NEW clips, Clips(clips), NEW off, Belt(clips, off),
         NEW c \in 1 .. Len(clips), NEW d \in Nat, d >= off[c + 1]
  PROVE  /\ Taken(off, c, d) = Len(clips[c].packets)
         /\ Taken(off, c, d + 1) = Taken(off, c, d)
  BY TakenGrows

LEMMA DigestsAgree ==
  ASSUME NEW clips, Clips(clips), InTime(clips), NEW picked, Wanted(picked, clips),
         NEW slices, Cutting(slices, clips, picked), NEW k \in 1 .. Len(picked)
  PROVE  Digests(Concatenated(clips), slices)[k] =
           Digests(Single(clips, picked[k]), <<(<<0, clips[picked[k]].length>>)>>)[1]
<1> DEFINE K == Len(picked)
           N == Len(clips)
           c == picked[k]
           L == Len(clips[c].packets)
           packets == Concatenated(clips)
<1>1. /\ K \in Nat \ {0} /\ N \in Nat /\ c \in 1 .. N
  BY DEF Wanted, Clips
<1>2. PICK off : Belt(clips, off)
  BY BeltExists
<1>3. /\ packets \in Seq(Stamped) /\ Len(packets) = off[N + 1]
      /\ off[N + 1] \in Nat
  <2>1. N + 1 \in 1 .. N + 1
    BY <1>1
  <2> QED BY <1>2, <2>1 DEF Belt
<1>4. Ranges(slices, K)
  BY CutRanges
<1>5. PICK e : /\ ClipSteps(e, clips, c)
               /\ Digests(Single(clips, c), <<(<<0, clips[c].length>>)>>)[1] = e[L]
  <2> HIDE DEF c
  <2> QED BY <1>1, SingleDigests
<1> HIDE DEF K, packets
<1>6. PICK h : /\ DigestSteps(h, packets, slices, K)
               /\ Digests(packets, slices) = h[Len(packets)].digests
  BY <1>3, <1>4, DigestsInOrder
<1> DEFINE Good == {d \in Nat : d <= off[N + 1] =>
                      /\ Behind(h[d], picked, off, d)
                      /\ h[d].digests[k] = e[Taken(off, c, d)]}
<1>7. 0 \in Good
  <2>1. h[0] = NoDigest(slices) /\ k \in DOMAIN slices
    BY <1>4, <1>6 DEF DigestSteps, Ranges, K
  <2>2. h[0].index = 1 /\ h[0].digests[k] = <<>>
    BY <2>1 DEF NoDigest
  <2>3. Behind(h[0], picked, off, 0)
    <3>1. 1 .. h[0].index - 1 = {}
      BY <2>2
    <3> QED BY <3>1 DEF Behind
  <2>4. Taken(off, c, 0) = 0
    <3>1. off[c] \in Nat
      <4>1. c \in 1 .. N + 1
        BY <1>1
      <4> QED BY <1>2, <4>1 DEF Belt
    <3>2. 0 <= off[c]
      BY <3>1
    <3> HIDE DEF c
    <3> QED BY <1>1, <1>2, <3>2, TakenGrows
  <2> QED BY <1>5, <2>2, <2>3, <2>4 DEF ClipSteps
<1>8. ASSUME NEW d \in Good PROVE d + 1 \in Good
  <2> SUFFICES ASSUME d + 1 <= off[N + 1]
               PROVE  /\ Behind(h[d + 1], picked, off, d + 1)
                      /\ h[d + 1].digests[k] = e[Taken(off, c, d + 1)]
    OBVIOUS
  <2>1. /\ d \in Nat /\ d \in 0 .. off[N + 1] - 1 /\ d \in 0 .. off[N + 1]
        /\ d + 1 \in 1 .. off[N + 1] /\ (d + 1) - 1 = d /\ d <= off[N + 1]
    BY <1>3
  <2>2. Behind(h[d], picked, off, d) /\ h[d].digests[k] = e[Taken(off, c, d)]
    BY <2>1
  <2> HIDE DEF Good
  <2>3. h[d] \in Digesting(Len(picked))
        /\ h[d + 1] = Digested(slices, h[d], packets[d + 1])
    BY <1>3, <1>6, <2>1 DEF DigestSteps, K
  <2> DEFINE here == off[c] <= d /\ d < off[c + 1] /\ packets[d + 1].stream = "video"
  <2>4. /\ Behind(h[d + 1], picked, off, d + 1)
        /\ here => h[d + 1].digests[k] = Append(h[d].digests[k], packets[d + 1].of)
        /\ ~ here => h[d + 1].digests[k] = h[d].digests[k]
    <3> DEFINE t == h[d + 1]
               packet == packets[d + 1]
               s == h[d]
    <3>1. /\ packet = Concatenated(clips)[d + 1] /\ t = Digested(slices, s, packet)
          /\ s \in Digesting(Len(picked)) /\ Behind(s, picked, off, d)
          /\ InTime(clips) /\ Clips(clips) /\ Wanted(picked, clips)
          /\ d \in 0 .. off[Len(clips) + 1] - 1
      BY <2>1, <2>2, <2>3 DEF packets
    <3> HIDE DEF t, packet, s, N, c
    <3>2. DigestedNext(s, t, packet, off, picked, k, d)
      BY <1>2, <3>1, DigestStep
    <3> QED BY <3>2 DEF DigestedNext, t, packet, s, c
  <2>5. h[d + 1].digests[k] = e[Taken(off, c, d + 1)]
    <3>1. off[c] \in Nat /\ off[c + 1] \in Nat
      <4>1. c \in 1 .. N + 1 /\ c + 1 \in 1 .. N + 1
        BY <1>1
      <4> HIDE DEF N, c
      <4> QED BY <1>2, <4>1 DEF Belt, N
    <3>2. CASE off[c] <= d /\ d < off[c + 1]
      <4> DEFINE n == d - off[c] + 1
      <4>1. /\ n \in 1 .. L /\ packets[d + 1] = Shifted(clips, c, n)
        <5> HIDE DEF c
        <5> QED BY <1>1, <1>2, <2>1, <3>2, Arrival DEF packets
      <4>2. Taken(off, c, d) = n - 1 /\ Taken(off, c, d + 1) = n
        <5>1. Taken(off, c, d) = d - off[c] /\ Taken(off, c, d + 1) = d - off[c] + 1
          <6> HIDE DEF c
          <6> QED BY <1>1, <1>2, <2>1, <3>2, TakenGrows
        <5> QED BY <2>1, <3>1, <5>1
      <4> HIDE DEF n
      <4>3. packets[d + 1].stream = clips[c].packets[n].stream
            /\ packets[d + 1].of = <<c, n>>
        BY <4>1 DEF Shifted
      <4>4. e[n] = IF clips[c].packets[n].stream = "video"
                   THEN Append(e[n - 1], <<c, n>>) ELSE e[n - 1]
        BY <1>5, <4>1 DEF ClipSteps
      <4> QED BY <2>2, <2>4, <3>2, <4>2, <4>3, <4>4
    <3>3. CASE ~ (off[c] <= d /\ d < off[c + 1])
      <4>1. Taken(off, c, d + 1) = Taken(off, c, d)
        <5>1. d >= off[c + 1] \/ d + 1 <= off[c]
          BY <2>1, <3>1, <3>3
        <5>2. CASE d >= off[c + 1]
          BY <1>1, <1>2, <2>1, <5>2, TakenAll
        <5>3. CASE d + 1 <= off[c]
          <6>1. d <= off[c] /\ d + 1 \in Nat
            BY <2>1, <3>1, <5>3
          <6> HIDE DEF c
          <6>2. Taken(off, c, d) = 0
            BY <1>1, <1>2, <2>1, <6>1, TakenGrows
          <6>3. Taken(off, c, d + 1) = 0
            BY <1>1, <1>2, <5>3, <6>1, TakenGrows
          <6> QED BY <6>2, <6>3
        <5> QED BY <5>1, <5>2, <5>3
      <4> QED BY <2>2, <2>4, <3>3, <4>1
    <3> QED BY <3>2, <3>3
  <2> QED BY <2>4, <2>5
<1>9. Good = Nat
  <2>1. Good \in SUBSET Nat
    OBVIOUS
  <2> HIDE DEF Good
  <2> QED BY <1>7, <1>8, <2>1, SetInduction
<1>10. h[off[N + 1]].digests[k] = e[Taken(off, c, off[N + 1])]
  <2>1. off[N + 1] \in Good
    BY <1>3, <1>9
  <2>2. off[N + 1] <= off[N + 1]
    BY <1>3
  <2> QED BY <2>1, <2>2
<1>11. Taken(off, c, off[N + 1]) = L
  <2>1. off[N + 1] >= off[c + 1]
    <3>1. c + 1 \in 1 .. N + 1 /\ N + 1 \in 1 .. N + 1 /\ (c + 1 = N + 1 \/ c + 1 < N + 1)
      BY <1>1
    <3> HIDE DEF c
    <3>2. CASE c + 1 = N + 1
      BY <1>3, <3>2
    <3>3. CASE c + 1 < N + 1
      <4>1. off[c + 1] < off[N + 1] /\ off[c + 1] \in Nat
        BY <1>2, <3>1, <3>3 DEF Belt
      <4> QED BY <1>3, <4>1
    <3> QED BY <3>1, <3>2, <3>3
  <2> QED BY <1>1, <1>2, <1>3, <2>1, TakenAll
<1> QED
  BY <1>3, <1>5, <1>6, <1>10, <1>11 DEF packets

LEMMA SplitUndoes == SplitInv => SplitUndoesConcat
<1> SUFFICES ASSUME SplitInv, medium = "done", media \in SplitJobs, InStep(media.clips),
                    NEW k \in DOMAIN targets
             PROVE  /\ targets[k] = [state |-> "whole",
                                     packets |-> Single(media.clips, media.wanted[k])]
                    /\ Digests(Packets, Slices)[k] =
                         Digests(Single(media.clips, media.wanted[k]),
                                 <<(<<0, media.clips[media.wanted[k]].length>>)>>)[1]
  BY Zenon DEF SplitUndoesConcat, OutputsAreClips
<1>0. InTime(media.clips)
  BY InStepInTime
<1>1. Whole(media.clips, media.wanted, targets)
  BY <1>0 DEF SplitInv
<1>2. Clips(media.clips) /\ Wanted(media.wanted, media.clips)
  BY SplitType
<1>3. k \in 1 .. Len(media.wanted)
  BY <1>1 DEF Whole
<1>4. Cutting(Slices, media.clips, media.wanted)
  BY DEF Slices, Cutting
<1> QED
  BY <1>0, <1>1, <1>2, <1>3, <1>4, DigestsAgree DEF Whole, Packets

(* In every reachable state, for any clips whose sound does not outlast    *)
(* the picture and any slices of them: splitting returns every picked clip *)
(* with all of its packets at their own times, and slices of the file have *)
(* the digests of the single files.                                        *)
THEOREM SplitUndoesConcatThm == MediaSpec => []SplitUndoesConcat
<1>1. MediaInit => SplitInv
  BY SplitStart
<1>2. SplitInv /\ [MediaNext]_mediaVars => SplitInv'
  BY SplitStep
<1>3. SplitInv => SplitUndoesConcat
  BY SplitUndoes
<1> QED
  BY <1>1, <1>2, <1>3, PTL DEF MediaSpec
===============================================================================
