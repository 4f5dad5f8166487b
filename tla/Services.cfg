SPECIFICATION Spec
CONSTANTS
  NotGiven = NotGiven
  Requests <- MCRequests
  Throughputs = {1, 2, 4}
  Durations = {1, 6}
  MaxSeconds = 10
  MaxRead = 1000
  MaxWrite = 420
  MaxRuns = 2
  Merges <- MCMerges
  MergeRates = {1, 3}
  MergeDurations = {1, 6}
  MergeSeconds = 10
  MergeBytes = 200
  MaxMerges = 2
  ChunksSize = 2
  DataLimit = 4
  VideoLimit = 4
  Recordings <- MCRecordings
  Edits <- MCEdits
  Machines <- MCMachines
  Planner = {p1, p2}
  Nobody = Nobody
  Tasks = 3
  RequiredCpus = 2
  Submissions <- MCSubmissions
  Backoff = 1
  MaxCrashes = 1
  Thread = {t1, t2, t3}
  Shard = {s1, s2}
  NoShard = NoShard
  NoProvider = NoProvider
  Builtins <- MCBuiltins
  Applicants <- MCApplicants
  References <- MCReferences
  MaxCalls = 3
  Saver = {a1, a2, a3}
  MayOverwrite = {a3}
  NoPreset = NoPreset
  Torn = Torn
  Version = {v1, v2}
  NoVersion = NoVersion
  Launches <- MCLaunches
  MaxLaunches = 3
  Videos <- MCVideos
  PipeSize = 1
  SplitJobs <- MCSplitJobs
  EncodeJobs <- MCEncodeJobs
  MaxSize = 3
  Headers <- MCHeaders
INVARIANTS
  PlanFitsMachine FixedCountsStay SamplingIsBounded
  MergeSamplingIsBounded MadePlanFitsMemory
  EditIsExact EditedVideoPlays EditedStatsMatch EncodersFitMemory
  OnePlannerWins SubmissionDelivers
  SlicesComeFromOwnShard
  NamesStayWithTheirProvider
  PresetsStayWhole
  PreparedIsCurrent SupervisionIsComplete
   EncodingIsComplete
  RangesAreExact
PROPERTIES
  ReductionEnds
CHECK_DEADLOCK FALSE
