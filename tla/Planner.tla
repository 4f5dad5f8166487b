------------------------------- MODULE Planner ------------------------------
(***************************************************************************)
(* The planner of a conversion (planner/): a static heuristic, then either *)
(* a plan of an earlier run from the cache, or samples of real work that   *)
(* are bounded by bytes and by time.  Runs follow one another and share    *)
(* the cache.  Sizes are MiB; a resource holds one episode and there is    *)
(* one camera.                                                             *)
(***************************************************************************)
EXTENDS Optional, Collections, SequencesExt

CONSTANTS
  Requests,      \* what may be asked, on which machine: see RequestType
  Throughputs,   \* rates a sample may show
  Durations,     \* seconds a sample may take
  MaxSeconds, MaxRead, MaxWrite,   \* CalibrationOptions
  MaxRuns        \* bound of the model: runs in a row

RequestType ==
  [cpus: Nat, memory: Nat, network: BOOLEAN, target: {"v2.1", "v3.0"},
   logical: Seq(Nat), physical: Seq(Nat), media: Seq(Nat),
   encoding: BOOLEAN, codecThreads: Nat, codecMemory: Nat,
   workers: Options, videoWorkers: Options, dataSize: Options,
   videoSize: Options, calibrate: BOOLEAN, useCache: BOOLEAN]

ASSUME PlannerAssumption ==
  /\ Requests \subseteq RequestType
  /\ \A r \in Requests : r.cpus > 0 /\ r.codecThreads > 0
  /\ Throughputs \subseteq Nat \ {0}
  /\ Durations \subseteq Nat \ {0} /\ Durations # {} /\ IsFiniteSet(Durations)
  /\ {MaxSeconds, MaxRead, MaxWrite, MaxRuns} \subseteq Nat

VARIABLES
  asked,      \* the request of the present run
  planning,   \* its step
  choice,     \* counts and sizes chosen so far
  queue,      \* samples still to be taken in this stage
  best,       \* count with the best throughput of this stage
  samples,    \* complete samples of this stage
  measured,   \* some stage has a complete sample
  read, elapsed,   \* bytes charged and seconds spent
  sampleRoot, \* the directory of samples exists
  plans,      \* the cache: fingerprint -> entry
  runs        \* runs begun

planState == <<choice, queue, best, samples, measured, read, elapsed, sampleRoot>>
plannerVars == <<asked, planning, planState, plans, runs>>

Total(sizes) == SumFunction(sizes)
Ceiling(a, b) == (a + b - 1) \div b
AtLeastOne(n) == Max({1, n})
-----------------------------------------------------------------------------
(* The heuristic *)

DataTargets == {32, 64, 100, 128, 200, 256, 512}
VideoTargets == {64, 100, 200, 256, 400, 800}
Overhead == 16

(* Groups of one size go to the least loaded worker, one after another.    *)
MaxLoad(total, target, workers) ==
  LET groups == [g \in 1 .. Ceiling(total, target) |->
                  IF g <= total \div target THEN target ELSE total % target]
      Lightest(loads) ==
        Min({w \in DOMAIN loads : loads[w] = Min(Range(loads))})
      Add(loads, size) ==
        [loads EXCEPT ![Lightest(loads)] = @ + size + Overhead]
  IN  Max(Range(FoldLeft(Add, [w \in 1 .. AtLeastOne(workers) |-> 0], groups)))

BalancedTarget(targets, total, workers, preferred) ==
  LET Distance(t) == IF t < preferred THEN preferred - t ELSE t - preferred
      Load == [t \in targets |-> MaxLoad(total, t, workers)]
      Rank == [t \in targets |-> <<Load[t], Ceiling(total, t), Distance(t), t>>]
      Better(t, u) == \E k \in 1 .. 4 : /\ Rank[t][k] < Rank[u][k]
                                       /\ \A j \in 1 .. k - 1 : Rank[t][j] = Rank[u][j]
  IN  IF total = 0 THEN preferred
      ELSE CHOOSE t \in targets : \A u \in targets \ {t} : Better(t, u)

(* The value nine tenths and a half up the ordered sizes; halves are       *)
(* rounded to even.                                                        *)
Percentile95(sizes) ==
  LET place == (Len(sizes) - 1) * 95
  IN  IF sizes = <<>> THEN 0
      ELSE Sorted(sizes)[1 + (place + 49 + ((place \div 100) % 2)) \div 100]

Usable(memory) == (memory * 85) \div 100
PerWorker(r, target) ==
  Max({IF r.target = "v3.0" THEN target ELSE 0, Percentile95(r.logical)}) * 2 + 64
MemoryCap(r, target) == AtLeastOne(Usable(r.memory) \div PerWorker(r, target))

DataTasks(r, target) ==
  AtLeastOne(IF r.target = "v3.0" THEN Ceiling(Total(r.logical), target)
             ELSE Len(r.logical))
DataWorkers(r, target) ==
  Chosen(r.workers,
         AtLeastOne(Min({r.cpus, DataTasks(r, target), MemoryCap(r, target), 8})))

(* Worker count and size of the groups are adapted to each other; at most  *)
(* four rounds.                                                            *)
DataTarget(r) ==
  LET Fit(workers) == BalancedTarget(DataTargets, Total(r.logical), workers, 100)
      Round(target, n) == Fit(DataWorkers(r, target))
  IN  IF r.target = "v2.1" THEN NotGiven
      ELSE IF Given(r.dataSize) THEN r.dataSize
      ELSE FoldLeft(Round, Fit(Chosen(r.workers, Min({r.cpus, Len(r.logical), 8}))),
                    <<1, 2, 3, 4>>)

VideoTasks(r, target) ==
  IF r.media = <<>> THEN 0
  ELSE IF r.target = "v3.0" THEN AtLeastOne(Ceiling(Total(r.media), target))
  ELSE Len(r.media)
VideoWorkers(r) ==
  LET useful == Min({r.cpus, AtLeastOne(VideoTasks(r, Chosen(r.videoSize, 200)))})
  IN  IF Given(r.videoWorkers) THEN r.videoWorkers
      ELSE IF r.media = <<>> THEN 1
      ELSE Min({useful, IF r.network /\ ~r.encoding THEN 3 ELSE 8})
VideoTarget(r, workers, preferred) ==
  IF r.network THEN BalancedTarget(VideoTargets, Total(r.media), workers, preferred)
  ELSE 100

(* Encoders are limited by their threads and by their frame buffers.       *)
EncoderLimit(r) ==
  Min({r.cpus \div r.codecThreads}
          \cup IF r.codecMemory = 0 THEN {}
               ELSE {Usable(r.memory) \div r.codecMemory})

Heuristic(r) ==
  [workers |-> DataWorkers(r, DataTarget(r)),
   videoWorkers |-> Min({VideoWorkers(r), EncoderLimit(r)}),
   dataSize |-> DataTarget(r),
   videoSize |-> IF r.target = "v2.1" THEN NotGiven
                 ELSE IF Given(r.videoSize) \/ r.media = <<>>
                 THEN Chosen(r.videoSize, 200)
                 ELSE VideoTarget(r, VideoWorkers(r), 200)]

Infeasible(r) ==
  \/ \E option \in {r.workers, r.videoWorkers, r.dataSize, r.videoSize} :
       Given(option) /\ option < 1
  \/ Given(r.workers) /\ (r.workers > r.cpus
                            \/ r.workers > MemoryCap(r, DataTarget(r)))
  \/ Given(r.videoWorkers) /\ r.videoWorkers > Min({r.cpus, EncoderLimit(r)})
  \/ r.target = "v2.1" /\ (Given(r.dataSize) \/ Given(r.videoSize))
  \/ EncoderLimit(r) < 1
-----------------------------------------------------------------------------
(* Samples.  A job is known by the bytes it reads.                         *)

JobsOf(grouped, sizes, limit) ==
  LET Next(groups, i) ==
        IF groups # <<>> /\ Total([k \in DOMAIN Last(groups) |->
                                    grouped[Last(groups)[k]]]) + grouped[i] < limit
        THEN Append(Front(groups), Append(Last(groups), i))
        ELSE Append(groups, <<i>>)
      groups == FoldLeft(Next, <<>>, [i \in DOMAIN sizes |-> i])
  IN  [g \in DOMAIN groups |-> Total([k \in DOMAIN groups[g] |->
                                       sizes[groups[g][k]]])]

DataSampleJobs(r) == IF r.target = "v3.0"
               THEN JobsOf(r.logical, r.physical, Chosen(choice.dataSize, 100))
               ELSE r.physical
VideoSampleJobs(r) == IF r.target = "v3.0" /\ ~r.encoding
                THEN JobsOf(r.media, r.media, 32) ELSE r.media

Sample(workers, jobs) == [workers |-> workers, bytes |-> Total(jobs)]

(* Each count gets jobs of its own as long as jobs and bytes last.         *)
DisjointSamples(jobs, counts, limit) ==
  LET Used(i) == Total(SubSeq(counts, 1, i))
      Fits(i) == Used(i) <= Len(jobs) /\ Total(SubSeq(jobs, 1, Used(i))) <= limit
      taken == Max({n \in 0 .. Len(counts) : \A i \in 1 .. n : Fits(i)})
  IN  [i \in 1 .. taken |->
        Sample(counts[i], SubSeq(jobs, Used(i - 1) + 1, Used(i)))]

(* Otherwise all counts are compared on the first jobs, if that fits.      *)
ComparisonSamples(jobs, counts, limit) ==
  LET disjoint == DisjointSamples(jobs, counts, limit)
      prefixes == [i \in DOMAIN counts |->
                    Sample(counts[i], SubSeq(jobs, 1, counts[i]))]
  IN  IF \/ Len(disjoint) = Len(counts)
         \/ \E i \in DOMAIN counts : counts[i] > Len(jobs)
         \/ Total([i \in DOMAIN counts |-> prefixes[i].bytes]) > limit
      THEN disjoint ELSE prefixes

Counts(fixed, chosen, ceiling) ==
  IF Given(fixed) THEN <<chosen>>
  ELSE Ascending({1, chosen, ceiling} \ {0})

DataCounts(r) == Counts(r.workers, choice.workers,
                        Min({r.cpus, Len(DataSampleJobs(r))}))
VideoCounts(r) == Counts(r.videoWorkers, choice.videoWorkers,
                         Min({r.cpus, EncoderLimit(r), Len(VideoSampleJobs(r))}))

DataSamples(r) ==
  IF r.media = <<>> \/ 10 * Total(r.physical) >= Total(r.physical) + Total(r.media)
  THEN ComparisonSamples(DataSampleJobs(r), DataCounts(r),
                         IF r.media = <<>> THEN MaxRead ELSE MaxRead \div 2)
  ELSE <<>>

TooSmall(r) == \/ Total(r.physical) + Total(r.media) < 64
               \/ r.media = <<>> /\ Total(r.physical) < 512
-----------------------------------------------------------------------------
Reset ==
  /\ queue' = <<>> /\ best' = NotGiven /\ samples' = <<>>
  /\ measured' = FALSE /\ read' = 0 /\ elapsed' = 0

PlannerInit ==
  /\ asked \in Requests /\ planning = "request" /\ runs = 1
  /\ choice = NotGiven /\ plans = <<>> /\ sampleRoot = FALSE
  /\ queue = <<>> /\ best = NotGiven /\ samples = <<>>
  /\ measured = FALSE /\ read = 0 /\ elapsed = 0

(* Overrides that cannot be met are refused.                               *)
Refuse ==
  /\ planning = "request" /\ Infeasible(asked)
  /\ planning' = "refused"
  /\ UNCHANGED <<asked, planState, plans, runs>>

Choose ==
  /\ planning = "request" /\ ~Infeasible(asked)
  /\ choice' = Heuristic(asked)
  /\ planning' = "lookup"
  /\ UNCHANGED <<asked, queue, best, samples, measured, read, elapsed,
                 sampleRoot, plans, runs>>

(* Mutant: fixed counts are not part of the fingerprint.                   *)
FingerprintUnfixed(r) ==
  [cpus |-> r.cpus, memory |-> r.memory \div 1024, network |-> r.network,
   target |-> r.target,
   data |-> <<r.logical, r.physical, r.media, r.encoding>>,
   encoder |-> <<r.codecThreads, r.codecMemory>>]

(* Memory counts in whole GiB; host and free space do not count.           *)
Fingerprint(r) ==
  [cpus |-> r.cpus, memory |-> r.memory \div 1024, network |-> r.network,
   target |-> r.target,
   data |-> <<r.logical, r.physical, r.media, r.encoding>>,
   encoder |-> <<r.codecThreads, r.codecMemory>>,
   overrides |-> <<r.workers, r.videoWorkers, r.dataSize, r.videoSize>>]

CacheHit ==
  /\ planning = "lookup" /\ asked.useCache
  /\ Fingerprint(asked) \in DOMAIN plans
  /\ choice' = plans[Fingerprint(asked)]
  /\ measured' = TRUE
  /\ planning' = "chosen"
  /\ UNCHANGED <<asked, queue, best, samples, read, elapsed, sampleRoot, plans, runs>>

CacheMiss == planning = "lookup" /\ ~(asked.useCache
                                        /\ Fingerprint(asked) \in DOMAIN plans)

SkipCalibration ==
  /\ CacheMiss /\ (~asked.calibrate \/ TooSmall(asked))
  /\ planning' = "chosen"
  /\ UNCHANGED <<asked, planState, plans, runs>>

BeginCalibration ==
  /\ CacheMiss /\ asked.calibrate /\ ~TooSmall(asked)
  /\ sampleRoot' = TRUE
  /\ queue' = DataSamples(asked)
  /\ planning' = "data"
  /\ UNCHANGED <<asked, choice, best, samples, measured, read, elapsed, plans, runs>>

(* Mutant: the stages have a budget each.                                  *)
AllowsPerStage(sample) ==
  /\ elapsed < MaxSeconds /\ sample.bytes <= Min({MaxRead, MaxWrite})

(* _Budget.allows: what is written is charged like what is read.           *)
Allows(sample) ==
  /\ elapsed < MaxSeconds
  /\ read + sample.bytes <= MaxRead /\ read + sample.bytes <= MaxWrite

(* The newest of three samples is no better than the two before it.        *)
Saturated(taken) ==
  /\ Len(taken) >= 3
  /\ LET n == Len(taken)
     IN  100 * taken[n].rate <= 103 * Max({taken[n - 1].rate, taken[n - 2].rate})

BestRate == IF best = NotGiven THEN 0
            ELSE Max({samples[i].rate : i \in {j \in DOMAIN samples :
                                                 samples[j].workers = best}})

Measure(rate, seconds) ==
  /\ planning \in {"data", "video"} /\ queue # <<>> /\ Allows(Head(queue))
  /\ LET workers == Head(queue).workers
         taken == Append(samples, [workers |-> workers, rate |-> rate])
     IN  /\ samples' = taken
         /\ best' = IF 100 * rate > 103 * BestRate THEN workers ELSE best
         /\ queue' = IF Saturated(taken) THEN <<>> ELSE Tail(queue)
  /\ measured' = TRUE
  /\ read' = read + Head(queue).bytes
  /\ elapsed' = elapsed + seconds
  /\ UNCHANGED <<asked, planning, choice, sampleRoot, plans, runs>>

(* Encoding stops between two batches once the time is up; the sample is   *)
(* dropped.                                                                *)
TimeOut(seconds) ==
  /\ planning = "video" /\ asked.encoding /\ queue # <<>> /\ Allows(Head(queue))
  /\ elapsed + seconds >= MaxSeconds
  /\ elapsed' = elapsed + seconds
  /\ queue' = <<>>
  /\ UNCHANGED <<asked, planning, choice, best, samples, measured, read,
                 sampleRoot, plans, runs>>

StageOver == ~(queue # <<>> /\ Allows(Head(queue)))

DataStageOver ==
  /\ planning = "data" /\ StageOver
  /\ choice' = [choice EXCEPT !.workers = Chosen(best, @)]
  /\ queue' = DisjointSamples(VideoSampleJobs(asked), VideoCounts(asked),
                              Max({0, MaxRead - read}))
  /\ best' = NotGiven /\ samples' = <<>>
  /\ planning' = "video"
  /\ UNCHANGED <<asked, measured, read, elapsed, sampleRoot, plans, runs>>

(* Two samples that scale well, but not to the end, speak for the rest.    *)
Extrapolated(requested) ==
  LET n == Len(samples)
  IN  /\ n >= 2 /\ samples[n].workers < requested
      /\ 10 * samples[n].rate * samples[n - 1].workers
           >= 8 * samples[n].workers * samples[n - 1].rate

MeasuredVideoWorkers ==
  LET largest == Last(VideoCounts(asked))
      requested == IF asked.network THEN Min({largest, 16}) ELSE largest
  IN  IF ~Given(asked.videoWorkers) /\ Extrapolated(requested)
      THEN requested ELSE best

VideoStageOver ==
  /\ planning = "video" /\ StageOver
  /\ LET video == MeasuredVideoWorkers
         adapted == asked.target = "v3.0" /\ Given(video) /\ ~Given(asked.videoWorkers)
     IN  choice' = IF ~measured THEN choice
                   ELSE [choice EXCEPT
                          !.videoWorkers = Chosen(video, @),
                          !.videoSize = IF adapted
                                        THEN VideoTarget(asked, video, Chosen(@, 200))
                                        ELSE @]
  /\ sampleRoot' = FALSE
  /\ planning' = IF measured /\ asked.useCache THEN "save" ELSE "chosen"
  /\ UNCHANGED <<asked, queue, best, samples, measured, read, elapsed, plans, runs>>

(* A cache that cannot be written is ignored.                              *)
Save ==
  /\ planning = "save"
  /\ \/ plans' = Assign(plans, Fingerprint(asked), choice)
     \/ UNCHANGED plans
  /\ planning' = "chosen"
  /\ UNCHANGED <<asked, planState, runs>>

(* Mutant: cached counts are taken as they are.                            *)
FinishUnchecked ==
  /\ planning = "chosen"
  /\ planning' = "planned"
  /\ UNCHANGED <<asked, planState, plans, runs>>

Finish ==
  /\ planning = "chosen"
  /\ choice' = [choice EXCEPT !.videoWorkers = Min({@, EncoderLimit(asked)})]
  /\ planning' = "planned"
  /\ UNCHANGED <<asked, queue, best, samples, measured, read, elapsed,
                 sampleRoot, plans, runs>>

(* The next run, of anybody, on a machine that may have changed.           *)
NextRun ==
  /\ planning \in {"planned", "refused"} /\ runs < MaxRuns
  /\ asked' \in Requests /\ planning' = "request" /\ runs' = runs + 1
  /\ choice' = NotGiven /\ Reset
  /\ UNCHANGED <<sampleRoot, plans>>

Expire ==
  /\ planning = "request"
  /\ \E f \in DOMAIN plans : plans' = [g \in DOMAIN plans \ {f} |-> plans[g]]
  /\ UNCHANGED <<asked, planning, planState, runs>>

PlannerNext ==
  \/ Refuse \/ Choose \/ CacheHit \/ SkipCalibration \/ BeginCalibration
  \/ \E rate \in Throughputs, seconds \in Durations : Measure(rate, seconds)
  \/ \E seconds \in Durations : TimeOut(seconds)
  \/ DataStageOver \/ VideoStageOver \/ Save \/ Finish \/ NextRun \/ Expire

PlannerSpec == PlannerInit /\ [][PlannerNext]_plannerVars
-----------------------------------------------------------------------------
(* A plan, whether calculated, measured, extrapolated or found in the      *)
(* cache, asks for no more processors than the run has, nor for more       *)
(* encoders than its processors and memory carry.                          *)
PlanFitsMachine ==
  planning = "planned" =>
    choice.workers <= asked.cpus /\ choice.videoWorkers <= EncoderLimit(asked)

(* Counts and the data size that the caller has fixed survive measuring    *)
(* and other people's entries of the cache.                                *)
FixedCountsStay ==
  planning = "planned" =>
    /\ Chosen(asked.workers, choice.workers) = choice.workers
    /\ Chosen(asked.videoWorkers, choice.videoWorkers) = choice.videoWorkers
    /\ Chosen(asked.dataSize, choice.dataSize) = choice.dataSize

(* Both stages together stay within both budgets, time is exceeded by the  *)
(* sample under way at most, and when there is a plan nothing is left of   *)
(* what was written.                                                       *)
SamplingIsBounded ==
  /\ read <= MaxRead /\ read <= MaxWrite
  /\ elapsed < MaxSeconds + Max(Durations)
  /\ sampleRoot => planning \in {"data", "video"}
=============================================================================
