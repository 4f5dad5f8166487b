--------------------------- MODULE Planner_proofs ----------------------------
(***************************************************************************)
(* Proofs about the planners, for all requests, machines and measurements. *)
(***************************************************************************)
EXTENDS Planner, MergePlanner, DataLemmas

(* There is always a largest time a sample may take.                       *)
LEMMA LongestSample ==
  Max(Durations) \in Nat \ {0} /\ \A d \in Durations : d <= Max(Durations)
<1>1. Durations \in SUBSET Int /\ IsFiniteSet(Durations) /\ Durations # {}
  BY PlannerAssumption
<1> QED
  BY <1>1, FiniteMax, PlannerAssumption

(* The time spent is a number: the rest of the bounds follows from what a  *)
(* sample asks of the budgets before it runs.                              *)
Budgeted ==
  /\ read <= MaxRead /\ read <= MaxWrite
  /\ elapsed \in Nat /\ elapsed < MaxSeconds + Max(Durations)
  /\ sampleRoot => planning \in {"data", "video"}

LEMMA BudgetedInit == PlannerInit => Budgeted
BY LongestSample, PlannerAssumption DEF PlannerInit, Budgeted

LEMMA BudgetedStep == Budgeted /\ [PlannerNext]_plannerVars => Budgeted'
<1> SUFFICES ASSUME Budgeted, [PlannerNext]_plannerVars PROVE Budgeted'
  OBVIOUS
<1> USE DEF Budgeted
<1>a. MaxSeconds \in Nat /\ MaxRead \in Nat /\ MaxWrite \in Nat
  BY PlannerAssumption
<1>1. CASE Refuse
  BY <1>1 DEF Refuse, planState
<1>2. CASE Choose
  BY <1>2 DEF Choose
<1>3. CASE CacheHit
  BY <1>3 DEF CacheHit
<1>4. CASE SkipCalibration
  BY <1>4 DEF SkipCalibration, CacheMiss, planState
<1>5. CASE BeginCalibration
  BY <1>5 DEF BeginCalibration
<1>6. ASSUME NEW rate \in Throughputs, NEW seconds \in Durations, Measure(rate, seconds)
      PROVE  Budgeted'
  <2>1. read' <= MaxRead /\ read' <= MaxWrite
    BY <1>6 DEF Measure, Allows
  <2>2. elapsed < MaxSeconds /\ elapsed' = elapsed + seconds
    BY <1>6 DEF Measure, Allows
  <2>3. seconds \in Nat /\ seconds <= Max(Durations) /\ Max(Durations) \in Nat
    BY LongestSample, PlannerAssumption
  <2>4. elapsed' \in Nat /\ elapsed' < MaxSeconds + Max(Durations)
    BY <1>a, <2>2, <2>3
  <2>5. sampleRoot' = sampleRoot /\ planning' = planning
    BY <1>6 DEF Measure
  <2> QED
    BY <2>1, <2>4, <2>5
<1>7. ASSUME NEW seconds \in Durations, TimeOut(seconds) PROVE Budgeted'
  <2>2. elapsed < MaxSeconds /\ elapsed' = elapsed + seconds
    BY <1>7 DEF TimeOut, Allows
  <2>3. seconds \in Nat /\ seconds <= Max(Durations) /\ Max(Durations) \in Nat
    BY LongestSample, PlannerAssumption
  <2>4. elapsed' \in Nat /\ elapsed' < MaxSeconds + Max(Durations)
    BY <1>a, <2>2, <2>3
  <2> QED
    BY <1>7, <2>4 DEF TimeOut
<1>8. CASE DataStageOver
  BY <1>8 DEF DataStageOver
<1>9. CASE VideoStageOver
  BY <1>9 DEF VideoStageOver
<1>10. CASE Save
  BY <1>10 DEF Save, planState
<1>11. CASE Finish
  BY <1>11 DEF Finish
<1>12. CASE NextRun
  <2>1. read' = 0 /\ elapsed' = 0 /\ sampleRoot' = sampleRoot /\ ~sampleRoot
    BY <1>12 DEF NextRun, Reset
  <2> QED
    BY <1>a, <2>1, LongestSample
<1>13. CASE Expire
  BY <1>13 DEF Expire, planState
<1>14. CASE UNCHANGED plannerVars
  BY <1>14 DEF plannerVars, planState
<1> QED
  BY <1>1, <1>2, <1>3, <1>4, <1>5, <1>6, <1>7, <1>8, <1>9, <1>10, <1>11, <1>12,
     <1>13, <1>14 DEF PlannerNext

(* Both stages of samples together stay within both byte budgets, time is  *)
(* exceeded by the sample under way at most, and the directory of samples  *)
(* exists only while samples are taken, for every planner and machine.     *)
THEOREM SamplingIsBoundedThm == PlannerSpec => []SamplingIsBounded
<1>1. Budgeted => SamplingIsBounded
  BY DEF Budgeted, SamplingIsBounded
<1> QED
  BY <1>1, BudgetedInit, BudgetedStep, PTL DEF PlannerSpec
-----------------------------------------------------------------------------
(* The heuristic                                                           *)

LEMMA TotalType ==
  ASSUME NEW sizes \in Seq(Nat)
  PROVE  Total(sizes) \in Nat
BY SumType, LenProperties DEF Total

LEMMA CeilingType ==
  ASSUME NEW a \in Nat, NEW b \in Nat \ {0}
  PROVE  Ceiling(a, b) \in Nat
BY DEF Ceiling

LEMMA AtLeastOneType ==
  ASSUME NEW n \in Int
  PROVE  /\ AtLeastOne(n) \in Nat \ {0}
         /\ AtLeastOne(n) = IF n >= 1 THEN n ELSE 1
<1>1. {1, n} \in SUBSET Int /\ IsFiniteSet({1, n}) /\ {1, n} # {}
  <2>1. IsFiniteSet({1, n})
    BY PairIsFinite
  <2> QED BY <2>1
<1> QED
  BY <1>1, FiniteMax DEF AtLeastOne

(* However groups are dealt to the workers, the largest load is a number.  *)
LEMMA MaxLoadType ==
  ASSUME NEW total \in Nat, NEW target \in Nat \ {0}, NEW workers \in Nat
  PROVE  MaxLoad(total, target, workers) \in Nat
<1> DEFINE W == 1 .. AtLeastOne(workers)
           groups == [g \in 1 .. Ceiling(total, target) |->
                        IF g <= total \div target THEN target ELSE total % target]
           Lightest(loads) == Min({w \in DOMAIN loads : loads[w] = Min(Range(loads))})
           Add(loads, size) == [loads EXCEPT ![Lightest(loads)] = @ + size + Overhead]
           D == 1 .. Ceiling(total, target)
           St == [W -> Nat]
           base == [w \in W |-> 0]
           pick == [s \in SUBSET D |-> Max(s)]
           f == [p \in St \X D |-> Add(p[1], groups[p[2]])]
           Step(g, s) == Add(g[s \ {Max(s)}], groups[Max(s)])
           Fold == CHOOSE g : g = [s \in SUBSET D |-> IF s = {} THEN base ELSE Step(g, s)]
<1>1. /\ IsFiniteSet(D) /\ D \in SUBSET Int /\ DOMAIN groups = D
      /\ IsFiniteSet(W) /\ W # {}
  <2>1. Ceiling(total, target) \in Nat /\ AtLeastOne(workers) \in Nat \ {0}
    BY CeilingType, AtLeastOneType
  <2>2. IsFiniteSet(1 .. Ceiling(total, target)) /\ IsFiniteSet(1 .. AtLeastOne(workers))
    BY <2>1, FS_Interval
  <2>3. 1 \in W
    BY <2>1
  <2> QED BY <2>2, <2>3
<1>2. Picks(pick, D)
  <2> SUFFICES ASSUME NEW s \in SUBSET D, s # {} PROVE Max(s) \in s
    BY DEF Picks
  <2>1. IsFiniteSet(s) /\ s \in SUBSET Int
    BY <1>1, FS_Subset
  <2> QED BY <2>1, FiniteMax
<1>3. \A g \in D : groups[g] \in Nat
  OBVIOUS
<1>4. \A loads \in St : Range(loads) \in SUBSET Nat /\ IsFiniteSet(Range(loads))
                         /\ Range(loads) # {}
  <2> TAKE loads \in St
  <2>1. loads \in Surjection(W, Range(loads)) /\ Range(loads) # {}
    BY <1>1 DEF Surjection, Range
  <2> QED BY <1>1, <2>1, FS_Surjection DEF Range
<1>5. ASSUME NEW loads \in St, NEW size \in Nat PROVE Add(loads, size) \in St
  <2> DEFINE L == Lightest(loads)
  <2>1. Add(loads, size) = [loads EXCEPT ![L] = @ + size + Overhead]
    OBVIOUS
  <2> HIDE DEF L
  <2>2. CASE L \in W
    BY <2>1, <2>2 DEF Overhead
  <2>3. CASE L \notin W
    BY <2>1, <2>3
  <2> QED BY <2>2, <2>3
<1>6. base \in St /\ f \in [St \X D -> St]
  <2> HIDE DEF Add, groups, St, D
  <2>1. base \in St
    BY DEF St
  <2> QED BY <1>3, <1>5, <2>1
<1>7. PICK g \in [SUBSET D -> St] : Folds(g, f, pick, base, D, St)
  <2> HIDE DEF D, St, base, pick, f
  <2> QED BY <1>1, <1>2, <1>6, FoldExists
<1>8. g = [s \in SUBSET D |-> IF s = {} THEN base ELSE Step(g, s)]
  <2>1. ASSUME NEW s \in SUBSET D, s # {} PROVE g[s] = Step(g, s)
    <3>1. pick[s] \in D /\ g[s \ {pick[s]}] \in St
      BY <1>2, <1>7, <2>1 DEF Picks
    <3>2. g[s] = f[<<g[s \ {pick[s]}], pick[s]>>]
      BY <1>7, <2>1, <3>1 DEF Folds
    <3> HIDE DEF Add, groups, St, D
    <3> QED BY <3>1, <3>2
  <2> HIDE DEF Step, D, St, base
  <2> QED BY <1>7, <2>1 DEF Folds
<1>9. Fold = [s \in SUBSET D |-> IF s = {} THEN base ELSE Step(Fold, s)]
  <2> HIDE DEF Step, D, St, base
  <2> QED BY <1>8, Zenon
<1>10. Fold[D] \in St
  <2>1. Folds(Fold, f, pick, base, D, St)
    <3>1. ASSUME NEW s \in SUBSET D, s # {}, Fold[s \ {pick[s]}] \in St
          PROVE  Fold[s] = f[<<Fold[s \ {pick[s]}], pick[s]>>]
      <4>1. Fold[s] = Step(Fold, s) /\ pick[s] = Max(s) /\ pick[s] \in D
        <5> HIDE DEF Step, D, base, Fold
        <5>1. Fold[s] = Step(Fold, s)
          BY <1>9, <3>1
        <5> QED BY <1>2, <3>1, <5>1 DEF Picks
      <4> HIDE DEF Fold, Add, groups, St, D
      <4> QED BY <3>1, <4>1
    <3>2. Fold[{}] = base
      <4> HIDE DEF Step, D, base, Fold
      <4> QED BY <1>9
    <3> HIDE DEF Fold, f, pick, St, D, base
    <3> QED BY <3>1, <3>2 DEF Folds
  <2> HIDE DEF Fold, f, pick, St, D, base
  <2>2. \A s \in SUBSET D : Fold[s] \in St
    <3>1. IsFiniteSet(D)
      BY <1>1
    <3>2. base \in St
      BY <1>6
    <3>3. f \in [St \X D -> St]
      BY <1>6
    <3> QED BY <1>2, <2>1, <3>1, <3>2, <3>3, FoldStays
  <2> QED BY <2>2
<1>11. MaxLoad(total, target, workers) = Max(Range(Fold[D]))
  BY <1>1, Zenon DEF MaxLoad, FoldLeft, MapThenFoldSet
<1>12. Range(Fold[D]) \in SUBSET Nat /\ IsFiniteSet(Range(Fold[D])) /\ Range(Fold[D]) # {}
  <2> HIDE DEF Fold, St, D
  <2> QED BY <1>4, <1>10
<1> HIDE DEF Fold, D
<1> QED
  BY <1>11, <1>12, FiniteMax

(* Sizes are ranked by load, then groups, distance and size: one is first. *)
LEMMA BalancedTargetType ==
  ASSUME NEW targets \in SUBSET (Nat \ {0}), targets # {},
         NEW total \in Nat, NEW workers \in Nat, NEW preferred \in Nat
  PROVE  BalancedTarget(targets, total, workers, preferred) \in targets \cup {preferred}
<1> DEFINE Distance(t) == IF t < preferred THEN preferred - t ELSE t - preferred
           Load == [t \in targets |-> MaxLoad(total, t, workers)]
           Rank == [t \in targets |-> <<Load[t], Ceiling(total, t), Distance(t), t>>]
           Better(t, u) == \E k \in 1 .. 4 : /\ Rank[t][k] < Rank[u][k]
                                            /\ \A j \in 1 .. k - 1 : Rank[t][j] = Rank[u][j]
           Key(k) == [t \in targets |-> Rank[t][k]]
           First(S, k) == {t \in S : \A u \in S : Rank[t][k] <= Rank[u][k]}
<1>1. \A t \in targets : /\ Rank[t][1] \in Nat /\ Rank[t][2] \in Nat
                          /\ Rank[t][3] \in Nat /\ Rank[t][4] = t
  <2> TAKE t \in targets
  <2>1. MaxLoad(total, t, workers) \in Nat /\ Ceiling(total, t) \in Nat
    BY MaxLoadType, CeilingType
  <2>2. Distance(t) \in Nat
    OBVIOUS
  <2> QED BY <2>1, <2>2
<1> HIDE DEF Rank
<1>2. ASSUME NEW S \in SUBSET targets, S # {}, NEW k \in 1 .. 4
      PROVE  First(S, k) # {} /\ First(S, k) \in SUBSET targets
  <2>1. \A x \in S : Rank[x][k] \in Nat
    BY <1>1
  <2>2. \A x \in S : Key(k)[x] \in Nat /\ Key(k)[x] = Rank[x][k]
    BY <2>1
  <2>3. \E t \in S : \A u \in S : Key(k)[t] <= Key(k)[u]
    <3> HIDE DEF Key
    <3> QED BY <1>2, <2>2, LeastValue
  <2> QED BY <2>2, <2>3
<1> DEFINE S1 == First(targets, 1)
           S2 == First(S1, 2)
           S3 == First(S2, 3)
           S4 == First(S3, 4)
<1>3. S1 # {} /\ S2 # {} /\ S3 # {} /\ S4 # {}
  <2> HIDE DEF First
  <2>0. 1 \in 1 .. 4 /\ 2 \in 1 .. 4 /\ 3 \in 1 .. 4 /\ 4 \in 1 .. 4
    OBVIOUS
  <2>1. S1 # {} /\ S1 \in SUBSET targets
    BY <1>2, <2>0
  <2> HIDE DEF S1
  <2>2. S2 # {} /\ S2 \in SUBSET targets
    BY <1>2, <2>0, <2>1
  <2> HIDE DEF S2
  <2>3. S3 # {} /\ S3 \in SUBSET targets
    BY <1>2, <2>0, <2>2
  <2> HIDE DEF S3
  <2> QED BY <1>2, <2>0, <2>1, <2>2, <2>3
<1>4. PICK t \in S4 : TRUE
  BY <1>3
<1>5. ASSUME NEW u \in targets \ {t} PROVE Better(t, u)
  <2>0. /\ t \in targets /\ u \in targets /\ t # u /\ t \in S1 /\ t \in S2 /\ t \in S3
        /\ S1 \in SUBSET targets /\ S2 \in SUBSET S1 /\ S3 \in SUBSET S2
    BY <1>4
  <2>1. /\ \A s \in S1, v \in targets : Rank[s][1] <= Rank[v][1]
        /\ \A s \in S2, v \in S1 : Rank[s][2] <= Rank[v][2]
        /\ \A s \in S3, v \in S2 : Rank[s][3] <= Rank[v][3]
        /\ \A v \in S3 : Rank[t][4] <= Rank[v][4]
    BY <1>4
  <2>a. /\ \A v \in targets : v \notin S1 => \E w \in targets : ~ (Rank[v][1] <= Rank[w][1])
        /\ \A v \in S1 : v \notin S2 => \E w \in S1 : ~ (Rank[v][2] <= Rank[w][2])
        /\ \A v \in S2 : v \notin S3 => \E w \in S2 : ~ (Rank[v][3] <= Rank[w][3])
    OBVIOUS
  <2> HIDE DEF First, S1, S2, S3, S4
  <2>b. S2 \in SUBSET targets /\ S3 \in SUBSET targets
    BY <2>0
  <2>c. u \in S1 => Rank[t][1] = Rank[u][1]
    <3> SUFFICES ASSUME u \in S1 PROVE Rank[t][1] = Rank[u][1]
      OBVIOUS
    <3>1. Rank[t][1] \in Nat /\ Rank[u][1] \in Nat
      BY <1>1, <2>0
    <3>2. Rank[t][1] <= Rank[u][1] /\ Rank[u][1] <= Rank[t][1]
      BY <2>0, <2>1
    <3> QED BY <3>1, <3>2
  <2>d. u \in S2 => Rank[t][2] = Rank[u][2]
    <3> SUFFICES ASSUME u \in S2 PROVE Rank[t][2] = Rank[u][2]
      OBVIOUS
    <3>1. Rank[t][2] \in Nat /\ Rank[u][2] \in Nat
      BY <1>1, <2>0
    <3>2. Rank[t][2] <= Rank[u][2] /\ Rank[u][2] <= Rank[t][2]
      BY <2>0, <2>1
    <3> QED BY <3>1, <3>2
  <2>e. u \in S3 => Rank[t][3] = Rank[u][3]
    <3> SUFFICES ASSUME u \in S3 PROVE Rank[t][3] = Rank[u][3]
      OBVIOUS
    <3>1. Rank[t][3] \in Nat /\ Rank[u][3] \in Nat
      BY <1>1, <2>0
    <3>2. Rank[t][3] <= Rank[u][3] /\ Rank[u][3] <= Rank[t][3]
      BY <2>0, <2>1
    <3> QED BY <3>1, <3>2
  <2>2. CASE u \notin S1
    <3>1. PICK v \in targets : ~ (Rank[u][1] <= Rank[v][1])
      BY <2>0, <2>2, <2>a
    <3>2. Rank[t][1] \in Nat /\ Rank[u][1] \in Nat /\ Rank[v][1] \in Nat
      BY <1>1, <2>0
    <3>3. Rank[t][1] <= Rank[v][1]
      BY <2>0, <2>1
    <3>4. Rank[t][1] < Rank[u][1]
      BY <3>1, <3>2, <3>3
    <3> QED BY <3>4
  <2>3. CASE u \in S1 /\ u \notin S2
    <3>1. PICK v \in S1 : ~ (Rank[u][2] <= Rank[v][2])
      BY <2>3, <2>a
    <3>2. Rank[t][2] \in Nat /\ Rank[u][2] \in Nat /\ Rank[v][2] \in Nat
      BY <1>1, <2>0, <2>b
    <3>3. Rank[t][2] <= Rank[v][2]
      BY <2>0, <2>1
    <3>4. Rank[t][2] < Rank[u][2]
      BY <3>1, <3>2, <3>3
    <3>5. Rank[t][1] = Rank[u][1]
      BY <2>3, <2>c
    <3> QED BY <3>4, <3>5
  <2>4. CASE u \in S2 /\ u \notin S3
    <3>1. PICK v \in S2 : ~ (Rank[u][3] <= Rank[v][3])
      BY <2>4, <2>a
    <3>2. Rank[t][3] \in Nat /\ Rank[u][3] \in Nat /\ Rank[v][3] \in Nat
      BY <1>1, <2>0, <2>b
    <3>3. Rank[t][3] <= Rank[v][3]
      BY <2>0, <2>1
    <3>4. Rank[t][3] < Rank[u][3]
      BY <3>1, <3>2, <3>3
    <3>5. Rank[t][1] = Rank[u][1] /\ Rank[t][2] = Rank[u][2]
      BY <2>0, <2>4, <2>c, <2>d
    <3> QED BY <3>4, <3>5
  <2>5. CASE u \in S3
    <3>1. Rank[t][1] = Rank[u][1] /\ Rank[t][2] = Rank[u][2] /\ Rank[t][3] = Rank[u][3]
      BY <2>0, <2>5, <2>c, <2>d, <2>e
    <3>2. Rank[t][4] = t /\ Rank[u][4] = u /\ t \in Nat /\ u \in Nat
      BY <1>1, <2>0
    <3>3. Rank[t][4] <= Rank[u][4]
      BY <2>1, <2>5
    <3>4. Rank[t][4] < Rank[u][4]
      BY <2>0, <3>2, <3>3
    <3> QED BY <3>1, <3>4
  <2> QED BY <2>0, <2>2, <2>3, <2>4, <2>5
<1>6. \E b \in targets : \A u \in targets \ {b} : Better(b, u)
  <2> HIDE DEF Better
  <2> QED BY <1>4, <1>5
<1>7. (CHOOSE b \in targets : \A u \in targets \ {b} : Better(b, u)) \in targets
  <2> HIDE DEF Better
  <2> QED BY <1>6
<1>8. BalancedTarget(targets, total, workers, preferred) =
        IF total = 0 THEN preferred
        ELSE CHOOSE b \in targets : \A u \in targets \ {b} : Better(b, u)
  BY Zenon DEF BalancedTarget, Rank
<1> HIDE DEF Better
<1> QED
  BY <1>7, <1>8

LEMMA PercentileType ==
  ASSUME NEW sizes \in Seq(Nat)
  PROVE  Percentile95(sizes) \in Nat
<1> DEFINE place == (Len(sizes) - 1) * 95
           rank == 1 + (place + 49 + ((place \div 100) % 2)) \div 100
<1>1. CASE sizes = <<>>
  BY <1>1 DEF Percentile95
<1>2. CASE sizes # <<>>
  <2>1. Len(sizes) \in Nat \ {0}
    BY <1>2, EmptySeq
  <2>2. rank \in 1 .. Len(sizes)
    <3> DEFINE odd == (place \div 100) % 2
    <3>1. odd \in 0 .. 1
      BY <2>1
    <3> HIDE DEF odd
    <3> QED BY <2>1, <3>1
  <2>3. Sorted(sizes)[rank] \in Nat
    <3> HIDE DEF rank
    <3> QED BY <2>2, SortedType
  <2> QED BY <1>2, <2>3 DEF Percentile95
<1> QED
  BY <1>1, <1>2

LEMMA RequestFields ==
  ASSUME NEW r \in Requests
  PROVE  /\ r.cpus \in Nat \ {0} /\ r.memory \in Nat /\ r.network \in BOOLEAN
         /\ r.target \in {"v2.1", "v3.0"}
         /\ r.logical \in Seq(Nat) /\ r.physical \in Seq(Nat) /\ r.media \in Seq(Nat)
         /\ r.encoding \in BOOLEAN
         /\ r.codecThreads \in Nat \ {0} /\ r.codecMemory \in Nat
         /\ r.workers \in Options /\ r.videoWorkers \in Options
         /\ r.dataSize \in Options /\ r.videoSize \in Options
  BY PlannerAssumption DEF RequestType

(* Sizes of groups as they may be in a request's target version.           *)
TargetsOf(r) == IF r.target = "v3.0" THEN Nat \ {0} ELSE {NotGiven}

LEMMA DataWorkersType ==
  ASSUME NEW r \in Requests, NEW target \in TargetsOf(r)
  PROVE  /\ MemoryCap(r, target) \in Nat \ {0}
         /\ DataWorkers(r, target) \in Nat
         /\ Given(r.workers) => DataWorkers(r, target) = r.workers
         /\ ~Given(r.workers) => DataWorkers(r, target) <= r.cpus
<1> DEFINE size == IF r.target = "v3.0" THEN target ELSE 0
           worker == PerWorker(r, target)
           tasks == DataTasks(r, target)
           cap == MemoryCap(r, target)
           least == Min({r.cpus, tasks, cap, 8})
<1>0. size \in Nat /\ (r.target = "v3.0" => target \in Nat \ {0})
  BY DEF TargetsOf
<1>1. worker \in Nat \ {0}
  <2>1. Percentile95(r.logical) \in Nat
    BY RequestFields, PercentileType
  <2>2. Max({size, Percentile95(r.logical)}) \in Nat
    BY <1>0, <2>1, MaxOfTwo
  <2> QED BY <2>2 DEF PerWorker
<1>2. cap \in Nat \ {0}
  <2>1. Usable(r.memory) \in Nat
    BY RequestFields DEF Usable
  <2>2. Usable(r.memory) \div worker \in Int
    <3> HIDE DEF worker
    <3> QED BY <1>1, <2>1
  <2> QED BY <2>2, AtLeastOneType DEF MemoryCap
<1>3. tasks \in Nat \ {0}
  <2>1. r.target = "v3.0" => Ceiling(Total(r.logical), target) \in Nat
    BY <1>0, RequestFields, TotalType, CeilingType
  <2>2. Len(r.logical) \in Nat
    BY RequestFields, LenProperties
  <2> QED BY <2>1, <2>2, AtLeastOneType DEF DataTasks
<1>4. least \in Int /\ least <= r.cpus
  <2> HIDE DEF tasks, cap
  <2>1. r.cpus \in Int /\ tasks \in Int /\ cap \in Int /\ 8 \in Int
    BY <1>2, <1>3, RequestFields
  <2> QED BY <2>1, MinOfFour
<1>5. AtLeastOne(least) \in Nat /\ AtLeastOne(least) <= r.cpus
  <2> HIDE DEF least
  <2>1. AtLeastOne(least) \in Nat /\ AtLeastOne(least) = IF least >= 1 THEN least ELSE 1
    BY <1>4, AtLeastOneType
  <2> QED BY <1>4, <2>1, RequestFields
<1>6. DataWorkers(r, target) = IF Given(r.workers) THEN r.workers ELSE AtLeastOne(least)
  BY DEF DataWorkers, Chosen
<1> HIDE DEF least
<1> QED
  BY <1>2, <1>5, <1>6, RequestFields DEF Options, Given

(* Adapting worker count and size to each other stays among the sizes.     *)
LEMMA DataTargetType ==
  ASSUME NEW r \in Requests, Given(r.dataSize) => r.dataSize >= 1
  PROVE  /\ DataTarget(r) \in TargetsOf(r)
         /\ r.target = "v3.0" /\ Given(r.dataSize) => DataTarget(r) = r.dataSize
<1> DEFINE Fit(workers) == BalancedTarget(DataTargets, Total(r.logical), workers, 100)
           Round(target, n) == Fit(DataWorkers(r, target))
           start == Fit(Chosen(r.workers, Min({r.cpus, Len(r.logical), 8})))
           seq == <<1, 2, 3, 4>>
           D == DOMAIN seq
           St == DataTargets
           pick == [s \in SUBSET D |-> Max(s)]
           f == [p \in St \X D |-> Round(p[1], p[2])]
           Step(g, s) == Round(g[s \ {Max(s)}], seq[Max(s)])
           Fold == CHOOSE g : g = [s \in SUBSET D |-> IF s = {} THEN start ELSE Step(g, s)]
<1>1. CASE r.target = "v2.1"
  BY <1>1, RequestFields DEF DataTarget, TargetsOf
<1>2. CASE r.target = "v3.0" /\ Given(r.dataSize)
  BY <1>2, RequestFields DEF DataTarget, TargetsOf, Options, Given
<1>3. CASE r.target = "v3.0" /\ ~Given(r.dataSize)
  <2>1. ASSUME NEW workers \in Nat PROVE Fit(workers) \in DataTargets
    <3>1. DataTargets \in SUBSET (Nat \ {0}) /\ DataTargets # {} /\ 100 \in DataTargets
      BY DEF DataTargets
    <3>2. Total(r.logical) \in Nat
      BY RequestFields, TotalType
    <3>3. Fit(workers) \in DataTargets \cup {100}
      BY <3>1, <3>2, BalancedTargetType
    <3> QED BY <3>1, <3>3
  <2>2. start \in St
    <3> DEFINE few == Min({r.cpus, Len(r.logical), 8})
    <3>1. few \in Nat
      <4>1. r.cpus \in Nat /\ Len(r.logical) \in Nat
        BY RequestFields, LenProperties
      <4>2. r.cpus \in Int /\ Len(r.logical) \in Int /\ 8 \in Int
        BY <4>1
      <4>3. few \in {r.cpus, Len(r.logical), 8}
        BY <4>2, MinOfThree
      <4> QED BY <4>1, <4>3
    <3>2. Chosen(r.workers, few) \in Nat
      BY <3>1, RequestFields DEF Chosen, Options, Given
    <3> HIDE DEF Fit
    <3> QED BY <2>1, <3>2
  <2>3. ASSUME NEW target \in St, NEW n PROVE Round(target, n) \in St
    <3>1. target \in TargetsOf(r)
      BY <1>3 DEF TargetsOf, DataTargets
    <3>2. DataWorkers(r, target) \in Nat
      BY <3>1, DataWorkersType
    <3> HIDE DEF Fit
    <3> QED BY <2>1, <3>2
  <2> HIDE DEF Round, start
  <2>4. IsFiniteSet(D) /\ D = 1 .. 4 /\ D \in SUBSET Int
    <3>1. 1 \in Int /\ 4 \in Int
      OBVIOUS
    <3>2. IsFiniteSet(1 .. 4)
      BY <3>1, FS_Interval
    <3> QED BY <3>2
  <2>5. Picks(pick, D)
    <3> SUFFICES ASSUME NEW s \in SUBSET D, s # {} PROVE Max(s) \in s
      BY DEF Picks
    <3>1. IsFiniteSet(s) /\ s \in SUBSET Int
      BY <2>4, FS_Subset
    <3> QED BY <3>1, FiniteMax
  <2>6. f \in [St \X D -> St]
    BY <2>3
  <2>7. PICK g \in [SUBSET D -> St] : Folds(g, f, pick, start, D, St)
    <3> HIDE DEF D, St, pick, f
    <3>1. IsFiniteSet(D)
      BY <2>4
    <3> QED BY <2>2, <2>5, <2>6, <3>1, FoldExists
  <2>8. g = [s \in SUBSET D |-> IF s = {} THEN start ELSE Step(g, s)]
    <3>1. ASSUME NEW s \in SUBSET D, s # {} PROVE g[s] = Step(g, s)
      <4>1. pick[s] \in D /\ g[s \ {pick[s]}] \in St /\ pick[s] = Max(s)
        BY <2>5, <3>1 DEF Picks
      <4>2. g[s] = f[<<g[s \ {pick[s]}], pick[s]>>]
        BY <2>7, <3>1, <4>1 DEF Folds
      <4>3. seq[Max(s)] = Max(s)
        BY <4>1, <2>4
      <4> HIDE DEF St, D, seq, pick
      <4> QED BY <4>1, <4>2, <4>3
    <3> HIDE DEF Step, D, St
    <3> QED BY <2>7, <3>1 DEF Folds
  <2>9. Fold = [s \in SUBSET D |-> IF s = {} THEN start ELSE Step(Fold, s)]
    <3> HIDE DEF Step, D, St
    <3> QED BY <2>8, Zenon
  <2>10. Folds(Fold, f, pick, start, D, St)
    <3>1. ASSUME NEW s \in SUBSET D, s # {}, Fold[s \ {pick[s]}] \in St
          PROVE  Fold[s] = f[<<Fold[s \ {pick[s]}], pick[s]>>]
      <4>1. Fold[s] = Step(Fold, s)
        <5> HIDE DEF Step, D, Fold
        <5> QED BY <2>9, <3>1
      <4>2. pick[s] = Max(s) /\ pick[s] \in D
        BY <2>5, <3>1 DEF Picks
      <4>3. seq[Max(s)] = Max(s)
        BY <4>2, <2>4
      <4> HIDE DEF Fold, St, D, seq, pick
      <4> QED BY <3>1, <4>1, <4>2, <4>3
    <3>2. Fold[{}] = start
      <4> HIDE DEF Step, D, Fold
      <4> QED BY <2>9
    <3> HIDE DEF Fold, f, pick, St, D
    <3> QED BY <3>1, <3>2 DEF Folds
  <2>11. Fold[D] \in St
    <3> HIDE DEF Fold, f, pick, St, D
    <3>1. IsFiniteSet(D)
      BY <2>4
    <3>2. \A s \in SUBSET D : Fold[s] \in St
      BY <2>2, <2>5, <2>6, <2>10, <3>1, FoldStays
    <3> QED BY <3>2
  <2>12. DataTarget(r) = Fold[D]
    BY <1>3, Zenon DEF DataTarget, FoldLeft, MapThenFoldSet, Round, start
  <2> HIDE DEF Fold, D
  <2> QED BY <1>3, <2>11, <2>12 DEF TargetsOf, DataTargets
<1> QED
  BY <1>1, <1>2, <1>3, RequestFields

LEMMA EncoderLimitType ==
  ASSUME NEW r \in Requests
  PROVE  EncoderLimit(r) \in Nat
<1> DEFINE threads == r.cpus \div r.codecThreads
           frames == Usable(r.memory) \div r.codecMemory
<1>1. threads \in Nat
  <2>1. r.cpus \in Nat /\ r.codecThreads \in Nat \ {0}
    BY RequestFields
  <2> QED BY <2>1
<1>2. CASE r.codecMemory = 0
  <2>1. {threads, threads} = {threads} \cup {}
    OBVIOUS
  <2>2. Min({threads, threads}) = threads
    <3> HIDE DEF threads
    <3> QED BY <1>1, MinOfTwo
  <2> QED BY <1>1, <1>2, <2>1, <2>2 DEF EncoderLimit
<1>3. CASE r.codecMemory # 0
  <2>1. frames \in Nat
    <3>1. Usable(r.memory) \in Nat
      BY RequestFields DEF Usable
    <3>2. r.codecMemory \in Nat \ {0}
      BY <1>3, RequestFields
    <3> QED BY <3>1, <3>2
  <2>2. EncoderLimit(r) = Min({threads, frames})
    <3>1. {threads, frames} = {threads} \cup {frames}
      OBVIOUS
    <3> QED BY <1>3, <3>1 DEF EncoderLimit
  <2>3. Min({threads, frames}) \in Nat
    <3> HIDE DEF threads, frames
    <3> QED BY <1>1, <2>1, MinOfTwo
  <2> QED BY <2>2, <2>3
<1> QED
  BY <1>2, <1>3

(* Sizes of video groups, once there is a count of workers.                *)
LEMMA VideoTargetType ==
  ASSUME NEW r \in Requests, NEW workers \in Nat, NEW preferred \in Nat
  PROVE  VideoTarget(r, workers, preferred) \in Nat
<1>1. VideoTargets \in SUBSET (Nat \ {0}) /\ VideoTargets # {}
  BY DEF VideoTargets
<1>2. Total(r.media) \in Nat
  BY RequestFields, TotalType
<1>3. BalancedTarget(VideoTargets, Total(r.media), workers, preferred)
        \in VideoTargets \cup {preferred}
  BY <1>1, <1>2, BalancedTargetType
<1> QED
  BY <1>1, <1>3 DEF VideoTarget

LEMMA VideoWorkersType ==
  ASSUME NEW r \in Requests, Given(r.videoSize) => r.videoSize >= 1
  PROVE  /\ VideoWorkers(r) \in Nat
         /\ Given(r.videoWorkers) => VideoWorkers(r) = r.videoWorkers
<1> DEFINE target == Chosen(r.videoSize, 200)
           tasks == VideoTasks(r, target)
           useful == Min({r.cpus, AtLeastOne(tasks)})
           most == IF r.network /\ ~r.encoding THEN 3 ELSE 8
<1>1. CASE Given(r.videoWorkers)
  BY <1>1, RequestFields DEF VideoWorkers, Options, Given
<1>2. CASE ~Given(r.videoWorkers) /\ r.media = <<>>
  BY <1>2 DEF VideoWorkers
<1>3. CASE ~Given(r.videoWorkers) /\ r.media # <<>>
  <2>1. target \in Nat \ {0}
    BY RequestFields DEF Chosen, Options, Given
  <2>2. tasks \in Nat
    <3> HIDE DEF target
    <3>1. Ceiling(Total(r.media), target) \in Nat
      BY <2>1, RequestFields, TotalType, CeilingType
    <3>2. AtLeastOne(Ceiling(Total(r.media), target)) \in Nat
      BY <3>1, AtLeastOneType
    <3>3. Len(r.media) \in Nat
      BY RequestFields, LenProperties
    <3> QED BY <3>2, <3>3 DEF VideoTasks
  <2>3. AtLeastOne(tasks) \in Nat
    <3> HIDE DEF tasks
    <3> QED BY <2>2, AtLeastOneType
  <2>4. useful \in Nat
    <3> HIDE DEF tasks
    <3>1. r.cpus \in Nat /\ r.cpus \in Int /\ AtLeastOne(tasks) \in Int
      BY <2>3, RequestFields
    <3>2. useful = IF r.cpus <= AtLeastOne(tasks) THEN r.cpus ELSE AtLeastOne(tasks)
      BY <3>1, MinOfTwo
    <3> QED BY <2>3, <3>1, <3>2
  <2>5. Min({useful, most}) \in Nat
    <3> HIDE DEF useful
    <3> QED BY <2>4, MinOfTwo
  <2>6. VideoWorkers(r) = Min({useful, most})
    BY <1>3, Zenon DEF VideoWorkers
  <2> QED BY <1>3, <2>5, <2>6
<1> QED
  BY <1>1, <1>2, <1>3

(* What a plan is, and that it keeps to the machine and to what the caller *)
(* has fixed (workers, video workers and data size, in this order).        *)
PlanType == [workers: Nat, videoWorkers: Nat, dataSize: Options, videoSize: Options]

Keeps(plan, overrides) ==
  /\ Given(overrides[1]) => plan.workers = overrides[1]
  /\ Given(overrides[2]) => plan.videoWorkers = overrides[2]
  /\ Given(overrides[3]) => plan.dataSize = overrides[3]

Overrides(r) == <<r.workers, r.videoWorkers, r.dataSize, r.videoSize>>

PlanSuits(plan, cpus, overrides) ==
  plan \in PlanType /\ plan.workers <= cpus /\ Keeps(plan, overrides)

LEMMA FeasibleRequest ==
  ASSUME NEW r \in Requests, ~Infeasible(r)
  PROVE  /\ Given(r.workers) => r.workers <= r.cpus
         /\ Given(r.videoWorkers) => r.videoWorkers <= EncoderLimit(r)
         /\ Given(r.dataSize) => r.dataSize >= 1 /\ r.target = "v3.0"
         /\ Given(r.videoSize) => r.videoSize >= 1
<1>1. Given(r.workers) => ~(r.workers > r.cpus)
  BY DEF Infeasible
<1>2. Given(r.videoWorkers) => ~(r.videoWorkers > Min({r.cpus, EncoderLimit(r)}))
  BY DEF Infeasible
<1>3. Min({r.cpus, EncoderLimit(r)}) <= EncoderLimit(r)
      /\ Min({r.cpus, EncoderLimit(r)}) \in Nat
  <2>1. r.cpus \in Nat /\ EncoderLimit(r) \in Nat
    BY RequestFields, EncoderLimitType
  <2>2. Min({r.cpus, EncoderLimit(r)})
          = IF r.cpus <= EncoderLimit(r) THEN r.cpus ELSE EncoderLimit(r)
    BY <2>1, MinOfTwo
  <2> QED BY <2>1, <2>2
<1>4. \A option \in {r.workers, r.videoWorkers, r.dataSize, r.videoSize} :
        Given(option) => ~(option < 1)
  BY DEF Infeasible
<1>5. ~(r.target = "v2.1" /\ (Given(r.dataSize) \/ Given(r.videoSize)))
  BY DEF Infeasible
<1>6. Given(r.workers) => r.workers <= r.cpus
  BY <1>1, RequestFields DEF Options, Given
<1>7. Given(r.videoWorkers) => r.videoWorkers <= EncoderLimit(r)
  BY <1>2, <1>3, RequestFields, EncoderLimitType DEF Options, Given
<1>8. /\ Given(r.dataSize) => r.dataSize >= 1
      /\ Given(r.videoSize) => r.videoSize >= 1
  BY <1>4, RequestFields DEF Options, Given
<1> QED
  BY <1>5, <1>6, <1>7, <1>8, RequestFields

(* What the heuristic proposes suits the machine and the caller.           *)
LEMMA HeuristicSuits ==
  ASSUME NEW r \in Requests, ~Infeasible(r)
  PROVE  PlanSuits(Heuristic(r), r.cpus, Overrides(r))
<1> DEFINE size == DataTarget(r)
           video == IF r.target = "v2.1" THEN NotGiven
                    ELSE IF Given(r.videoSize) \/ r.media = <<>>
                    THEN Chosen(r.videoSize, 200)
                    ELSE VideoTarget(r, VideoWorkers(r), 200)
           few == Min({VideoWorkers(r), EncoderLimit(r)})
<1>1. /\ size \in TargetsOf(r)
      /\ r.target = "v3.0" /\ Given(r.dataSize) => size = r.dataSize
  BY FeasibleRequest, DataTargetType
<1>2. size \in Options /\ (Given(r.dataSize) => size = r.dataSize)
  BY <1>1, FeasibleRequest, RequestFields DEF TargetsOf, Options
<1>3. /\ DataWorkers(r, size) \in Nat /\ DataWorkers(r, size) <= r.cpus
      /\ Given(r.workers) => DataWorkers(r, size) = r.workers
  <2> HIDE DEF size
  <2>1. /\ DataWorkers(r, size) \in Nat
        /\ Given(r.workers) => DataWorkers(r, size) = r.workers
        /\ ~Given(r.workers) => DataWorkers(r, size) <= r.cpus
    BY <1>1, DataWorkersType
  <2> QED BY <2>1, FeasibleRequest
<1>4. /\ VideoWorkers(r) \in Nat
      /\ Given(r.videoWorkers) => VideoWorkers(r) = r.videoWorkers
  BY FeasibleRequest, VideoWorkersType
<1>5. few = IF VideoWorkers(r) <= EncoderLimit(r) THEN VideoWorkers(r) ELSE EncoderLimit(r)
  BY <1>4, EncoderLimitType, MinOfTwo
<1>6. few \in Nat /\ (Given(r.videoWorkers) => few = r.videoWorkers)
  BY <1>4, <1>5, EncoderLimitType, FeasibleRequest
<1>7. video \in Options
  <2>1. VideoTarget(r, VideoWorkers(r), 200) \in Nat
    BY <1>4, VideoTargetType
  <2> QED BY <2>1, RequestFields DEF Options, Chosen
<1>8. Heuristic(r) = [workers |-> DataWorkers(r, size), videoWorkers |-> few,
                      dataSize |-> size, videoSize |-> video]
  BY DEF Heuristic
<1> HIDE DEF size, video, few
<1> QED
  BY <1>2, <1>3, <1>6, <1>7, <1>8 DEF PlanSuits, PlanType, Keeps, Overrides
-----------------------------------------------------------------------------
(* Samples                                                                 *)

(* However resources are grouped into jobs, the jobs can be counted.       *)
LEMMA JobsOfLen ==
  ASSUME NEW sizes \in Seq(Nat), NEW grouped, NEW limit
  PROVE  Len(JobsOf(grouped, sizes, limit)) \in Nat
<1> DEFINE indices == [i \in DOMAIN sizes |-> i]
           Fits(groups, i) ==
             groups # <<>> /\ Total([k \in DOMAIN Last(groups) |->
                                      grouped[Last(groups)[k]]]) + grouped[i] < limit
           Add(groups, i) ==
             IF Fits(groups, i)
             THEN Append(Front(groups), Append(Last(groups), i))
             ELSE Append(groups, <<i>>)
           D == DOMAIN indices
           St == Seq(Seq(Nat))
           base == <<>>
           pick == [s \in SUBSET D |-> Max(s)]
           f == [p \in St \X D |-> Add(p[1], indices[p[2]])]
           Step(g, s) == Add(g[s \ {Max(s)}], indices[Max(s)])
           Fold == CHOOSE g : g = [s \in SUBSET D |-> IF s = {} THEN base ELSE Step(g, s)]
<1>1. IsFiniteSet(D) /\ D \in SUBSET Int /\ D \in SUBSET Nat /\ \A i \in D : indices[i] = i
  <2>1. Len(sizes) \in Nat /\ D = 1 .. Len(sizes)
    BY LenProperties
  <2>2. IsFiniteSet(1 .. Len(sizes))
    BY <2>1, FS_Interval
  <2> QED BY <2>1, <2>2
<1>2. Picks(pick, D)
  <2> SUFFICES ASSUME NEW s \in SUBSET D, s # {} PROVE Max(s) \in s
    BY DEF Picks
  <2>1. IsFiniteSet(s) /\ s \in SUBSET Int
    BY <1>1, FS_Subset
  <2> QED BY <2>1, FiniteMax
<1>3. ASSUME NEW groups \in St, NEW i \in Nat PROVE Add(groups, i) \in St
  <2> HIDE DEF Fits
  <2>1. CASE groups = <<>> \/ ~Fits(groups, i)
    <3>1. <<i>> \in Seq(Nat)
      OBVIOUS
    <3>2. Append(groups, <<i>>) \in St
      BY <3>1, AppendProperties
    <3> QED BY <2>1, <3>2 DEF Fits
  <2>2. CASE groups # <<>> /\ Fits(groups, i)
    <3>1. Len(groups) \in Nat \ {0}
      BY <2>2, EmptySeq
    <3>2. Last(groups) \in Seq(Nat)
      BY <3>1, ElementOfSeq DEF Last
    <3>3. Append(Last(groups), i) \in Seq(Nat)
      BY <3>2, AppendProperties
    <3>4. \A k \in 1 .. Len(groups) - 1 : groups[k] \in Seq(Nat)
      BY <3>1, ElementOfSeq
    <3>5. Front(groups) \in Seq(Seq(Nat))
      BY <3>1, <3>4, SubSeqProperties DEF Front
    <3>6. Append(Front(groups), Append(Last(groups), i)) \in St
      BY <3>3, <3>5, AppendProperties
    <3> QED BY <2>2, <3>6
  <2> QED BY <2>1, <2>2
<1>4. base \in St
  OBVIOUS
<1>5. f \in [St \X D -> St]
  <2> HIDE DEF St, D, Add, indices
  <2> QED BY <1>1, <1>3
<1> HIDE DEF Add
<1>6. PICK g \in [SUBSET D -> St] : Folds(g, f, pick, base, D, St)
  <2> HIDE DEF D, St, base, pick, f
  <2>1. IsFiniteSet(D)
    BY <1>1
  <2> QED BY <1>2, <1>4, <1>5, <2>1, FoldExists
<1>7. g = [s \in SUBSET D |-> IF s = {} THEN base ELSE Step(g, s)]
  <2>1. ASSUME NEW s \in SUBSET D, s # {} PROVE g[s] = Step(g, s)
    <3>1. pick[s] \in D /\ g[s \ {pick[s]}] \in St /\ pick[s] = Max(s)
      BY <1>2, <2>1 DEF Picks
    <3>2. g[s] = f[<<g[s \ {pick[s]}], pick[s]>>]
      BY <1>6, <2>1, <3>1 DEF Folds
    <3> HIDE DEF St, D, indices, pick
    <3> QED BY <3>1, <3>2
  <2> HIDE DEF Step, D, St, base
  <2> QED BY <1>6, <2>1 DEF Folds
<1>8. Fold = [s \in SUBSET D |-> IF s = {} THEN base ELSE Step(Fold, s)]
  <2> HIDE DEF Step, D, St, base
  <2> QED BY <1>7, Zenon
<1>9. Folds(Fold, f, pick, base, D, St)
  <2>1. ASSUME NEW s \in SUBSET D, s # {}, Fold[s \ {pick[s]}] \in St
        PROVE  Fold[s] = f[<<Fold[s \ {pick[s]}], pick[s]>>]
    <3>1. Fold[s] = Step(Fold, s)
      <4> HIDE DEF Step, D, Fold, base
      <4> QED BY <1>8, <2>1
    <3>2. pick[s] = Max(s) /\ pick[s] \in D
      BY <1>2, <2>1 DEF Picks
    <3> HIDE DEF Fold, St, D, indices, pick
    <3> QED BY <2>1, <3>1, <3>2
  <2>2. Fold[{}] = base
    <3> HIDE DEF Step, D, Fold, base
    <3> QED BY <1>8
  <2> HIDE DEF Fold, f, pick, St, D, base
  <2> QED BY <2>1, <2>2 DEF Folds
<1>10. Fold[D] \in St
  <2> HIDE DEF Fold, f, pick, St, D, base
  <2>1. IsFiniteSet(D)
    BY <1>1
  <2>2. \A s \in SUBSET D : Fold[s] \in St
    BY <1>2, <1>4, <1>5, <1>9, <2>1, FoldStays
  <2> QED BY <2>2
<1> DEFINE Sums(groups) == [x \in DOMAIN groups |->
                              Total([k \in DOMAIN groups[x] |-> sizes[groups[x][k]]])]
<1>11. JobsOf(grouped, sizes, limit) = Sums(Fold[D])
  BY Zenon DEF JobsOf, FoldLeft, MapThenFoldSet, Add
<1>12. ASSUME NEW groups \in St PROVE Len(Sums(groups)) \in Nat
  <2>1. Len(groups) \in Nat /\ DOMAIN groups = 1 .. Len(groups)
    BY LenProperties
  <2> DEFINE bytes == Sums(groups)
  <2>2. bytes = [k \in 1 .. Len(groups) |-> bytes[k]]
    BY <2>1
  <2> HIDE DEF bytes
  <2>3. Len(bytes) = Len(groups)
    BY <2>1, <2>2, LenOfFunction
  <2> QED BY <2>1, <2>3 DEF bytes
<1> QED
  <2> HIDE DEF Fold, D, St, Sums
  <2> QED BY <1>10, <1>11, <1>12

LEMMA SampleJobsLen ==
  ASSUME NEW r \in Requests
  PROVE  Len(DataSampleJobs(r)) \in Nat /\ Len(VideoSampleJobs(r)) \in Nat
BY RequestFields, JobsOfLen, LenProperties DEF DataSampleJobs, VideoSampleJobs

(* Counts to be sampled: the fixed one alone, or numbers up to the larger  *)
(* of the one chosen and the ceiling.                                      *)
LEMMA CountsType ==
  ASSUME NEW fixed, NEW chosen \in Nat, NEW ceiling \in Nat
  PROVE  /\ Counts(fixed, chosen, ceiling) \in Seq(Nat)
         /\ Len(Counts(fixed, chosen, ceiling)) >= 1
         /\ \A i \in 1 .. Len(Counts(fixed, chosen, ceiling)) :
              LET count == Counts(fixed, chosen, ceiling)[i]
              IN  IF Given(fixed) THEN count = chosen
                  ELSE count \in {1, chosen, ceiling}
<1> DEFINE S == {1, chosen, ceiling} \ {0}
           asc == Ascending(S)
<1>1. CASE Given(fixed)
  BY <1>1 DEF Counts
<1>2. CASE ~Given(fixed)
  <2>1. S \in SUBSET Nat /\ IsFiniteSet(S) /\ S # {}
    <3>1. IsFiniteSet({1, chosen}) /\ IsFiniteSet({ceiling})
      BY PairIsFinite, FS_Singleton
    <3>2. IsFiniteSet({1, chosen} \cup {ceiling})
      BY <3>1, FS_Union
    <3>3. S \in SUBSET ({1, chosen} \cup {ceiling}) /\ 1 \in S
      OBVIOUS
    <3>4. IsFiniteSet(S)
      BY <3>2, <3>3, FS_Subset
    <3> QED BY <3>3, <3>4
  <2>2. Cardinality(S) \in Nat \ {0} /\ asc \in [1 .. Cardinality(S) -> S]
    <3> HIDE DEF S
    <3>1. Cardinality(S) # 0
      BY <2>1, FS_EmptySet
    <3> QED BY <2>1, <3>1, AscendingType
  <2>3. Counts(fixed, chosen, ceiling) = asc
    BY <1>2 DEF Counts
  <2>4. asc \in Seq(S) /\ asc \in Seq(Nat) /\ Len(asc) = Cardinality(S)
    <3> HIDE DEF S, asc
    <3>1. asc \in Seq(S)
      BY <2>2, SeqDef
    <3>2. asc \in Seq(Nat)
      BY <2>1, <3>1, SeqMonotonic
    <3> QED BY <2>2, <3>1, <3>2, LenProperties
  <2>5. \A i \in 1 .. Len(asc) : asc[i] \in S
    <3> HIDE DEF S, asc
    <3> QED BY <2>2, <2>4
  <2>6. Len(asc) >= 1
    <3> HIDE DEF S, asc
    <3> QED BY <2>2, <2>4
  <2>7. \A i \in 1 .. Len(asc) : asc[i] \in {1, chosen, ceiling}
    <3> HIDE DEF asc
    <3> QED BY <2>5
  <2> HIDE DEF S, asc
  <2> QED BY <1>2, <2>3, <2>4, <2>6, <2>7
<1> QED
  BY <1>1, <1>2

(* Samples are taken for the counts asked for, in their order.             *)
SamplesFor(queued, counts) ==
  \E n \in 0 .. Len(counts) :
    /\ DOMAIN queued = 1 .. n /\ queued = [k \in 1 .. n |-> queued[k]]
    /\ \A i \in 1 .. n : queued[i].workers = counts[i]

LEMMA DisjointSamplesFor ==
  ASSUME NEW jobs, NEW counts \in Seq(Nat), NEW limit
  PROVE  SamplesFor(DisjointSamples(jobs, counts, limit), counts)
<1> DEFINE Used(i) == Total(SubSeq(counts, 1, i))
           Fits(i) == Used(i) <= Len(jobs) /\ Total(SubSeq(jobs, 1, Used(i))) <= limit
           N == {n \in 0 .. Len(counts) : \A i \in 1 .. n : Fits(i)}
           Slice(i) == SubSeq(jobs, Used(i - 1) + 1, Used(i))
           samp == DisjointSamples(jobs, counts, limit)
<1>1. Max(N) \in 0 .. Len(counts)
  <2> HIDE DEF Fits
  <2>1. 0 \in N /\ Len(counts) \in Nat
    BY LenProperties
  <2>2. IsFiniteSet(0 .. Len(counts))
    BY <2>1, FS_Interval
  <2>3. N \in SUBSET (0 .. Len(counts)) /\ N \in SUBSET Int
    OBVIOUS
  <2> HIDE DEF N
  <2>4. IsFiniteSet(N)
    BY <2>2, <2>3, FS_Subset
  <2> QED BY <2>1, <2>3, <2>4, FiniteMax
<1>2. samp = [i \in 1 .. Max(N) |-> Sample(counts[i], Slice(i))]
  BY Zenon DEF DisjointSamples
<1> HIDE DEF Slice, N, samp
<1>3. DOMAIN samp = 1 .. Max(N) /\ samp = [k \in 1 .. Max(N) |-> samp[k]]
  BY <1>2
<1>4. \A i \in 1 .. Max(N) : samp[i].workers = counts[i]
  BY <1>2 DEF Sample
<1>5. SamplesFor(samp, counts)
  BY <1>1, <1>3, <1>4 DEF SamplesFor
<1> QED
  BY <1>5 DEF samp

LEMMA ComparisonSamplesFor ==
  ASSUME NEW jobs, NEW counts \in Seq(Nat), NEW limit
  PROVE  SamplesFor(ComparisonSamples(jobs, counts, limit), counts)
<1> DEFINE prefixes == [i \in DOMAIN counts |-> Sample(counts[i], SubSeq(jobs, 1, counts[i]))]
<1>1. SamplesFor(prefixes, counts)
  <2>1. Len(counts) \in Nat /\ DOMAIN counts = 1 .. Len(counts)
    BY LenProperties
  <2>2. \A i \in 1 .. Len(counts) : prefixes[i].workers = counts[i]
    BY <2>1 DEF Sample
  <2>3. DOMAIN prefixes = 1 .. Len(counts)
        /\ prefixes = [k \in 1 .. Len(counts) |-> prefixes[k]]
    BY <2>1
  <2> HIDE DEF prefixes
  <2> QED BY <2>1, <2>2, <2>3 DEF SamplesFor
<1>2. SamplesFor(DisjointSamples(jobs, counts, limit), counts)
  BY DisjointSamplesFor
<1>3. \/ ComparisonSamples(jobs, counts, limit) = prefixes
      \/ ComparisonSamples(jobs, counts, limit) = DisjointSamples(jobs, counts, limit)
  BY DEF ComparisonSamples
<1> QED
  BY <1>1, <1>2, <1>3
-----------------------------------------------------------------------------
(* Plans *)

(* What the samples of the two stages may ask for.                         *)
DataMay(r) == {n \in Nat : n <= r.cpus /\ (Given(r.workers) => n = r.workers)}
VideoMay(r) == {n \in Nat : Given(r.videoWorkers) => n = r.videoWorkers}

Asks(W) ==
  /\ queue \in Seq(Range(queue)) /\ \A s \in Range(queue) : s.workers \in W
  /\ best \in W \cup {NotGiven}

(* Every plan, whoever's, suits the machine and the caller that its key in *)
(* the cache names; samples stay within both.                              *)
Suitable ==
  /\ asked \in Requests
  /\ planning \in {"request", "refused", "lookup", "data", "video", "save",
                   "chosen", "planned"}
  /\ planning \in {"request", "lookup"} => best = NotGiven
  /\ planning \notin {"request", "refused"} =>
       ~Infeasible(asked) /\ PlanSuits(choice, asked.cpus, Overrides(asked))
  /\ planning = "data" => Asks(DataMay(asked))
  /\ planning = "video" => Asks(VideoMay(asked))
  /\ planning = "planned" => choice.videoWorkers <= EncoderLimit(asked)
  /\ \A f \in DOMAIN plans : PlanSuits(plans[f], f.cpus, f.overrides)

LEMMA SamplesAsk ==
  ASSUME NEW queued, NEW counts \in Seq(Nat), SamplesFor(queued, counts),
         NEW W, \A i \in 1 .. Len(counts) : counts[i] \in W
  PROVE  queued \in Seq(Range(queued)) /\ \A s \in Range(queued) : s.workers \in W
<1>1. PICK n \in 0 .. Len(counts) :
        /\ DOMAIN queued = 1 .. n /\ queued = [k \in 1 .. n |-> queued[k]]
        /\ \A i \in 1 .. n : queued[i].workers = counts[i]
  BY DEF SamplesFor
<1>2. Len(counts) \in Nat /\ n \in Nat /\ 1 .. n \in SUBSET (1 .. Len(counts))
  BY LenProperties
<1>3. queued \in Seq(Range(queued))
  BY <1>1, <1>2, LenOfFunction
<1>4. ASSUME NEW s \in Range(queued) PROVE s.workers \in W
  <2>1. PICK i \in 1 .. n : s = queued[i]
    BY <1>1 DEF Range
  <2> QED BY <1>1, <1>2, <2>1
<1> QED
  BY <1>3, <1>4

LEMMA RestOfQueue ==
  ASSUME NEW queued, queued \in Seq(Range(queued)), queued # <<>>
  PROVE  /\ Head(queued) \in Range(queued)
         /\ Tail(queued) \in Seq(Range(Tail(queued)))
         /\ Range(Tail(queued)) \in SUBSET Range(queued)
<1> DEFINE R == Range(queued)
<1>1. queued \in Seq(R) /\ queued # <<>>
  OBVIOUS
<1>2. /\ Head(queued) \in R /\ Tail(queued) \in Seq(R)
      /\ Len(Tail(queued)) = Len(queued) - 1
  <2> HIDE DEF R
  <2> QED BY <1>1, HeadTailProperties
<1> DEFINE rest == Tail(queued)
<1>3. /\ Len(rest) \in Nat /\ rest = [k \in 1 .. Len(rest) |-> rest[k]]
      /\ \A k \in 1 .. Len(rest) : rest[k] \in R
  <2> HIDE DEF R, rest
  <2>1. rest \in Seq(R)
    BY <1>2 DEF rest
  <2>2. Len(rest) \in Nat /\ rest \in [1 .. Len(rest) -> R]
    BY <2>1, LenProperties
  <2> QED BY <2>2
<1>4. rest \in Seq(Range(rest))
  <2> HIDE DEF rest
  <2> QED BY <1>3, LenOfFunction
<1>5. Range(rest) \in SUBSET R
  <2> HIDE DEF R, rest
  <2> QED BY <1>3 DEF Range
<1> QED
  BY <1>2, <1>4, <1>5

LEMMA EmptyQueue == <<>> \in Seq(Range(<<>>)) /\ Range(<<>>) = {}
<1>1. Range(<<>>) = {}
  BY DEF Range
<1>2. <<>> \in Seq(Range(<<>>))
  OBVIOUS
<1> QED
  BY <1>1, <1>2

(* What the stages sample lies within what the caller and the machine      *)
(* allow.                                                                  *)
LEMMA DataCountsMay ==
  ASSUME NEW r \in Requests, PlanSuits(choice, r.cpus, Overrides(r))
  PROVE  /\ DataCounts(r) \in Seq(Nat)
         /\ \A i \in 1 .. Len(DataCounts(r)) : DataCounts(r)[i] \in DataMay(r)
<1> DEFINE ceiling == Min({r.cpus, Len(DataSampleJobs(r))})
           counts == Counts(r.workers, choice.workers, ceiling)
<1>1. r.cpus \in Nat \ {0} /\ Len(DataSampleJobs(r)) \in Nat
  BY RequestFields, SampleJobsLen
<1>2. ceiling = IF r.cpus <= Len(DataSampleJobs(r)) THEN r.cpus
                ELSE Len(DataSampleJobs(r))
  BY <1>1, MinOfTwo
<1>3. ceiling \in Nat /\ ceiling <= r.cpus
  <2> DEFINE len == Len(DataSampleJobs(r))
  <2>1. len \in Nat /\ ceiling = IF r.cpus <= len THEN r.cpus ELSE len
    BY <1>1, <1>2
  <2> HIDE DEF len, ceiling
  <2> QED BY <1>1, <2>1
<1>4. /\ choice.workers \in Nat /\ choice.workers <= r.cpus
      /\ Given(r.workers) => choice.workers = r.workers
  BY DEF PlanSuits, PlanType, Keeps, Overrides
<1>5. /\ counts \in Seq(Nat)
      /\ \A i \in 1 .. Len(counts) :
           IF Given(r.workers) THEN counts[i] = choice.workers
           ELSE counts[i] \in {1, choice.workers, ceiling}
  <2> HIDE DEF ceiling
  <2> QED BY <1>3, <1>4, CountsType
<1>6. ASSUME NEW i \in 1 .. Len(counts) PROVE counts[i] \in DataMay(r)
  <2> DEFINE n == counts[i]
  <2>1. IF Given(r.workers) THEN n = choice.workers
        ELSE n \in {1, choice.workers, ceiling}
    BY <1>5
  <2> HIDE DEF n, ceiling
  <2>2. n \in Nat /\ n <= r.cpus /\ (Given(r.workers) => n = r.workers)
    BY <1>1, <1>3, <1>4, <2>1
  <2>3. n \in DataMay(r)
    BY <2>2 DEF DataMay
  <2> QED BY <2>3 DEF n
<1>7. DataCounts(r) = counts
  BY DEF DataCounts
<1> HIDE DEF counts
<1> QED
  BY <1>5, <1>6, <1>7

LEMMA VideoCountsMay ==
  ASSUME NEW r \in Requests, PlanSuits(choice, r.cpus, Overrides(r))
  PROVE  /\ VideoCounts(r) \in Seq(Nat) /\ Len(VideoCounts(r)) >= 1
         /\ \A i \in 1 .. Len(VideoCounts(r)) : VideoCounts(r)[i] \in VideoMay(r)
<1> DEFINE len == Len(VideoSampleJobs(r))
           encoders == EncoderLimit(r)
           ceiling == Min({r.cpus, encoders, len})
           counts == Counts(r.videoWorkers, choice.videoWorkers, ceiling)
<1>1. r.cpus \in Nat /\ len \in Nat /\ encoders \in Nat
  BY RequestFields, SampleJobsLen, EncoderLimitType
<1>2. ceiling \in Nat
  <2> HIDE DEF len, encoders
  <2>1. r.cpus \in Int /\ encoders \in Int /\ len \in Int
    BY <1>1
  <2>2. ceiling \in {r.cpus, encoders, len}
    BY <2>1, MinOfThree
  <2> QED BY <1>1, <2>2
<1>4. /\ choice.videoWorkers \in Nat
      /\ Given(r.videoWorkers) => choice.videoWorkers = r.videoWorkers
  BY DEF PlanSuits, PlanType, Keeps, Overrides
<1>5. /\ counts \in Seq(Nat) /\ Len(counts) >= 1
      /\ \A i \in 1 .. Len(counts) :
           IF Given(r.videoWorkers) THEN counts[i] = choice.videoWorkers
           ELSE counts[i] \in {1, choice.videoWorkers, ceiling}
  <2> HIDE DEF ceiling
  <2> QED BY <1>2, <1>4, CountsType
<1>6. ASSUME NEW i \in 1 .. Len(counts) PROVE counts[i] \in VideoMay(r)
  <2> DEFINE n == counts[i]
  <2>1. IF Given(r.videoWorkers) THEN n = choice.videoWorkers
        ELSE n \in {1, choice.videoWorkers, ceiling}
    BY <1>5
  <2> HIDE DEF n, ceiling
  <2>2. n \in Nat /\ (Given(r.videoWorkers) => n = r.videoWorkers)
    BY <1>2, <1>4, <2>1
  <2>3. n \in VideoMay(r)
    BY <2>2 DEF VideoMay
  <2> QED BY <2>3 DEF n
<1>7. VideoCounts(r) = counts
  BY DEF VideoCounts
<1> HIDE DEF counts
<1> QED
  BY <1>5, <1>6, <1>7

LEMMA SuitableInit == PlannerInit => Suitable
BY DEF PlannerInit, Suitable

(* Calibration begins: the first samples stay within the machine.          *)
LEMMA BeginSuits == Suitable /\ BeginCalibration => Suitable'
<1> SUFFICES ASSUME Suitable, BeginCalibration PROVE Suitable'
  OBVIOUS
<1>1. /\ planning = "lookup" /\ planning' = "data" /\ queue' = DataSamples(asked)
      /\ UNCHANGED <<asked, choice, best, plans>>
  BY DEF BeginCalibration, CacheMiss
<1>2. /\ asked \in Requests /\ best = NotGiven
      /\ ~Infeasible(asked) /\ PlanSuits(choice, asked.cpus, Overrides(asked))
  BY <1>1 DEF Suitable
<1> DEFINE q == DataSamples(asked)
<1>3. q \in Seq(Range(q)) /\ \A s \in Range(q) : s.workers \in DataMay(asked)
  <2>1. CASE q = <<>>
    <3> HIDE DEF q
    <3> QED BY <2>1, EmptyQueue
  <2>2. CASE q # <<>>
    <3>1. PICK limit : q = ComparisonSamples(DataSampleJobs(asked), DataCounts(asked), limit)
      BY <2>2 DEF DataSamples
    <3>2. /\ DataCounts(asked) \in Seq(Nat)
          /\ \A i \in 1 .. Len(DataCounts(asked)) : DataCounts(asked)[i] \in DataMay(asked)
      BY <1>2, DataCountsMay
    <3> HIDE DEF q
    <3>3. SamplesFor(q, DataCounts(asked))
      BY <3>1, <3>2, ComparisonSamplesFor
    <3> QED BY <3>2, <3>3, SamplesAsk
  <2> QED BY <2>1, <2>2
<1>4. Asks(DataMay(asked))'
  <2> HIDE DEF q
  <2>1. queue' = q /\ best' = NotGiven /\ DataMay(asked)' = DataMay(asked)
    BY <1>1, <1>2 DEF q, DataMay
  <2> QED BY <1>3, <2>1 DEF Asks
<1>5. (PlanSuits(choice, asked.cpus, Overrides(asked)) /\ ~Infeasible(asked))'
  BY <1>1, <1>2
<1>6. (\A f \in DOMAIN plans : PlanSuits(plans[f], f.cpus, f.overrides))'
  BY <1>1 DEF Suitable
<1> QED
  BY <1>1, <1>2, <1>4, <1>5, <1>6 DEF Suitable

LEMMA MeasureSuits ==
  ASSUME Suitable, NEW rate, NEW seconds, Measure(rate, seconds)
  PROVE  Suitable'
<1>1. /\ planning \in {"data", "video"} /\ queue # <<>>
      /\ best' = best \/ best' = Head(queue).workers
      /\ queue' = <<>> \/ queue' = Tail(queue)
      /\ UNCHANGED <<asked, planning, choice, plans>>
  BY DEF Measure
<1>2. ASSUME NEW W, Asks(W), W' = W PROVE Asks(W)'
  <2>1. queue \in Seq(Range(queue)) /\ \A s \in Range(queue) : s.workers \in W
    BY <1>2 DEF Asks
  <2>2. /\ Head(queue) \in Range(queue)
        /\ Tail(queue) \in Seq(Range(Tail(queue)))
        /\ Range(Tail(queue)) \in SUBSET Range(queue)
    BY <1>1, <2>1, RestOfQueue
  <2>3. queue' \in Seq(Range(queue')) /\ \A s \in Range(queue') : s.workers \in W
    BY <1>1, <2>1, <2>2, EmptyQueue
  <2>4. best' \in W \cup {NotGiven}
    BY <1>1, <1>2, <2>1, <2>2 DEF Asks
  <2> QED BY <1>2, <2>3, <2>4 DEF Asks
<1>3. planning' = "data" => Asks(DataMay(asked))'
  BY <1>1, <1>2 DEF Suitable, DataMay
<1>4. planning' = "video" => Asks(VideoMay(asked))'
  BY <1>1, <1>2 DEF Suitable, VideoMay
<1>5. (\A f \in DOMAIN plans : PlanSuits(plans[f], f.cpus, f.overrides))'
  BY <1>1 DEF Suitable
<1>6. (PlanSuits(choice, asked.cpus, Overrides(asked)) /\ ~Infeasible(asked))'
  BY <1>1 DEF Suitable
<1> QED
  BY <1>1, <1>3, <1>4, <1>5, <1>6 DEF Suitable

LEMMA TimeOutSuits ==
  ASSUME Suitable, NEW seconds, TimeOut(seconds)
  PROVE  Suitable'
<1>1. /\ planning = "video" /\ queue' = <<>>
      /\ UNCHANGED <<asked, planning, choice, best, plans>>
  BY DEF TimeOut
<1>2. Asks(VideoMay(asked))'
  BY <1>1, EmptyQueue DEF Suitable, Asks, VideoMay
<1> QED
  BY <1>1, <1>2 DEF Suitable

(* The best count of the data stage is the plan's; the video stage begins. *)
LEMMA DataStageSuits == Suitable /\ DataStageOver => Suitable'
<1> SUFFICES ASSUME Suitable, DataStageOver PROVE Suitable'
  OBVIOUS
<1> DEFINE q == DisjointSamples(VideoSampleJobs(asked), VideoCounts(asked),
                                Max({0, MaxRead - read}))
<1>1. /\ planning = "data" /\ planning' = "video"
      /\ choice' = [choice EXCEPT !.workers = Chosen(best, @)]
      /\ queue' = q /\ best' = NotGiven /\ UNCHANGED <<asked, plans>>
  BY DEF DataStageOver
<1>2. /\ asked \in Requests /\ Asks(DataMay(asked))
      /\ ~Infeasible(asked) /\ PlanSuits(choice, asked.cpus, Overrides(asked))
  BY <1>1 DEF Suitable
<1>3. PlanSuits(choice', asked.cpus, Overrides(asked))
  <2>1. best \in DataMay(asked) \cup {NotGiven}
    BY <1>2 DEF Asks
  <2>2. choice \in PlanType /\ choice.workers \in DataMay(asked)
    BY <1>2 DEF PlanSuits, Keeps, PlanType, Overrides, DataMay
  <2>3. Chosen(best, choice.workers) \in DataMay(asked)
    BY <2>1, <2>2 DEF Chosen, Given
  <2> DEFINE n == Chosen(best, choice.workers)
  <2>4. n \in Nat /\ n <= asked.cpus /\ (Given(asked.workers) => n = asked.workers)
    BY <2>3 DEF DataMay
  <2>5. choice' = [choice EXCEPT !.workers = n]
    BY <1>1
  <2> HIDE DEF n
  <2>6. choice' \in PlanType /\ choice'.workers = n
        /\ choice'.videoWorkers = choice.videoWorkers
        /\ choice'.dataSize = choice.dataSize
    BY <2>2, <2>4, <2>5 DEF PlanType
  <2> QED BY <1>2, <2>4, <2>6 DEF PlanSuits, Keeps, Overrides
<1>4. q \in Seq(Range(q)) /\ \A s \in Range(q) : s.workers \in VideoMay(asked)
  <2>1. /\ VideoCounts(asked) \in Seq(Nat)
        /\ \A i \in 1 .. Len(VideoCounts(asked)) :
             VideoCounts(asked)[i] \in VideoMay(asked)
    BY <1>2, VideoCountsMay
  <2>2. SamplesFor(q, VideoCounts(asked))
    BY <2>1, DisjointSamplesFor
  <2> HIDE DEF q
  <2> QED BY <2>1, <2>2, SamplesAsk
<1>5. Asks(VideoMay(asked))'
  <2> HIDE DEF q
  <2>1. VideoMay(asked)' = VideoMay(asked)
    BY <1>1 DEF VideoMay
  <2> QED BY <1>1, <1>4, <2>1 DEF Asks
<1>6. ~Infeasible(asked)'
  BY <1>1, <1>2
<1>7. PlanSuits(choice, asked.cpus, Overrides(asked))'
  BY <1>1, <1>3
<1>8. (\A f \in DOMAIN plans : PlanSuits(plans[f], f.cpus, f.overrides))'
  BY <1>1 DEF Suitable
<1> QED
  BY <1>1, <1>2, <1>5, <1>6, <1>7, <1>8 DEF Suitable

(* Measured or extrapolated, the count of encoders is a number, and the    *)
(* fixed one if there is one.                                              *)
LEMMA VideoStageSuits == Suitable /\ VideoStageOver => Suitable'
<1> SUFFICES ASSUME Suitable, VideoStageOver PROVE Suitable'
  OBVIOUS
<1> DEFINE video == MeasuredVideoWorkers
           adapted == asked.target = "v3.0" /\ Given(video) /\ ~Given(asked.videoWorkers)
           n == Chosen(video, choice.videoWorkers)
           size == IF adapted THEN VideoTarget(asked, video, Chosen(choice.videoSize, 200))
                   ELSE choice.videoSize
<1>1. /\ planning = "video" /\ planning' \in {"save", "chosen"}
      /\ \/ choice' = choice
         \/ choice' = [choice EXCEPT !.videoWorkers = n, !.videoSize = size]
      /\ UNCHANGED <<asked, plans>>
  BY DEF VideoStageOver
<1>2. /\ asked \in Requests /\ Asks(VideoMay(asked))
      /\ ~Infeasible(asked) /\ PlanSuits(choice, asked.cpus, Overrides(asked))
  BY <1>1 DEF Suitable
<1>3. choice \in PlanType /\ choice.videoWorkers \in VideoMay(asked)
  BY <1>2 DEF PlanSuits, Keeps, PlanType, Overrides, VideoMay
<1>4. video \in VideoMay(asked) \cup {NotGiven}
  <2> DEFINE counts == VideoCounts(asked)
             largest == Last(counts)
             requested == IF asked.network THEN Min({largest, 16}) ELSE largest
  <2>1. counts \in Seq(Nat) /\ Len(counts) >= 1
    BY <1>2, VideoCountsMay
  <2>2. largest \in Nat
    <3> HIDE DEF counts
    <3>1. Len(counts) \in Nat /\ counts \in [1 .. Len(counts) -> Nat]
      BY <2>1, LenProperties
    <3> QED BY <2>1, <3>1 DEF Last
  <2>3. requested \in Nat
    <3> HIDE DEF largest
    <3>1. Min({largest, 16}) = IF largest <= 16 THEN largest ELSE 16
      BY <2>2, MinOfTwo
    <3> QED BY <2>2, <3>1
  <2>4. best \in VideoMay(asked) \cup {NotGiven}
    BY <1>2 DEF Asks
  <2>5. video = best \/ (~Given(asked.videoWorkers) /\ video = requested)
    BY DEF MeasuredVideoWorkers
  <2> HIDE DEF video, requested
  <2> QED BY <2>3, <2>4, <2>5 DEF VideoMay
<1> HIDE DEF video
<1>5. n \in VideoMay(asked)
  BY <1>3, <1>4 DEF Chosen, Given
<1>6. size \in Options
  <2>1. CASE adapted
    <3>1. video \in Nat
      BY <1>4, <2>1 DEF VideoMay, Given
    <3>2. Chosen(choice.videoSize, 200) \in Nat
      BY <1>3 DEF PlanType, Options, Chosen, Given
    <3>3. VideoTarget(asked, video, Chosen(choice.videoSize, 200)) \in Nat
      BY <1>2, <3>1, <3>2, VideoTargetType
    <3> QED BY <2>1, <3>3 DEF Options
  <2>2. CASE ~adapted
    BY <1>3, <2>2 DEF PlanType
  <2> QED BY <2>1, <2>2
<1>7. PlanSuits(choice', asked.cpus, Overrides(asked))
  <2>1. CASE choice' = choice
    BY <1>2, <2>1
  <2>2. CASE choice' = [choice EXCEPT !.videoWorkers = n, !.videoSize = size]
    <3>1. n \in Nat /\ (Given(asked.videoWorkers) => n = asked.videoWorkers)
      BY <1>5 DEF VideoMay
    <3> HIDE DEF n, size
    <3>2. choice' \in PlanType /\ choice'.videoWorkers = n
          /\ choice'.workers = choice.workers /\ choice'.dataSize = choice.dataSize
      BY <1>3, <1>6, <2>2, <3>1 DEF PlanType
    <3> QED BY <1>2, <3>1, <3>2 DEF PlanSuits, Keeps, Overrides
  <2> QED BY <1>1, <2>1, <2>2
<1>8. PlanSuits(choice, asked.cpus, Overrides(asked))' /\ ~Infeasible(asked)'
  BY <1>1, <1>2, <1>7
<1>9. (\A f \in DOMAIN plans : PlanSuits(plans[f], f.cpus, f.overrides))'
  BY <1>1 DEF Suitable
<1> QED
  BY <1>1, <1>2, <1>8, <1>9 DEF Suitable

LEMMA FinishSuits == Suitable /\ Finish => Suitable'
<1> SUFFICES ASSUME Suitable, Finish PROVE Suitable'
  OBVIOUS
<1> DEFINE n == Min({choice.videoWorkers, EncoderLimit(asked)})
<1>1. /\ planning = "chosen" /\ planning' = "planned"
      /\ choice' = [choice EXCEPT !.videoWorkers = n]
      /\ UNCHANGED <<asked, plans>>
  BY DEF Finish
<1>2. /\ asked \in Requests /\ ~Infeasible(asked)
      /\ PlanSuits(choice, asked.cpus, Overrides(asked))
  BY <1>1 DEF Suitable
<1>3. /\ choice \in PlanType /\ choice.videoWorkers \in Nat
      /\ Given(asked.videoWorkers) => choice.videoWorkers = asked.videoWorkers
  BY <1>2 DEF PlanSuits, Keeps, PlanType, Overrides
<1>4. EncoderLimit(asked) \in Nat
  BY <1>2, EncoderLimitType
<1>5. n = IF choice.videoWorkers <= EncoderLimit(asked) THEN choice.videoWorkers
          ELSE EncoderLimit(asked)
  BY <1>3, <1>4, MinOfTwo
<1>6. Given(asked.videoWorkers) => asked.videoWorkers <= EncoderLimit(asked)
  BY <1>2, FeasibleRequest
<1> HIDE DEF n
<1>7. /\ n \in Nat /\ n <= EncoderLimit(asked)
      /\ Given(asked.videoWorkers) => n = asked.videoWorkers
  BY <1>3, <1>4, <1>5, <1>6
<1>8. /\ choice' \in PlanType /\ choice'.videoWorkers = n
      /\ choice'.workers = choice.workers /\ choice'.dataSize = choice.dataSize
  BY <1>1, <1>3, <1>7 DEF PlanType
<1>9. PlanSuits(choice', asked.cpus, Overrides(asked))
  BY <1>2, <1>7, <1>8 DEF PlanSuits, Keeps, Overrides
<1>10. /\ PlanSuits(choice, asked.cpus, Overrides(asked))' /\ ~Infeasible(asked)'
       /\ (choice.videoWorkers <= EncoderLimit(asked))'
  BY <1>1, <1>2, <1>7, <1>8, <1>9
<1>11. (\A f \in DOMAIN plans : PlanSuits(plans[f], f.cpus, f.overrides))'
  BY <1>1 DEF Suitable
<1> QED
  BY <1>1, <1>2, <1>10, <1>11 DEF Suitable

(* An entry is kept under a key that names the machine and the caller it   *)
(* suits; so whoever hits it is suited too.                                *)
LEMMA SaveSuits == Suitable /\ Save => Suitable'
<1> SUFFICES ASSUME Suitable, Save PROVE Suitable'
  OBVIOUS
<1> DEFINE key == Fingerprint(asked)
<1>1. /\ planning = "save" /\ planning' = "chosen" /\ UNCHANGED <<asked, choice>>
      /\ \/ plans' = [f \in DOMAIN plans \cup {key} |->
                        IF f = key THEN choice ELSE plans[f]]
         \/ plans' = plans
  BY DEF Save, Assign, planState
<1>2. /\ asked \in Requests /\ ~Infeasible(asked)
      /\ PlanSuits(choice, asked.cpus, Overrides(asked))
      /\ \A f \in DOMAIN plans : PlanSuits(plans[f], f.cpus, f.overrides)
  BY <1>1 DEF Suitable
<1>3. key.cpus = asked.cpus /\ key.overrides = Overrides(asked)
  BY DEF Fingerprint, Overrides
<1> HIDE DEF key
<1>4. \A f \in DOMAIN plans' : PlanSuits(plans'[f], f.cpus, f.overrides)
  BY <1>1, <1>2, <1>3
<1>5. (PlanSuits(choice, asked.cpus, Overrides(asked)) /\ ~Infeasible(asked))'
  BY <1>1, <1>2
<1> QED
  BY <1>1, <1>2, <1>4, <1>5 DEF Suitable

LEMMA HitSuits == Suitable /\ CacheHit => Suitable'
<1> SUFFICES ASSUME Suitable, CacheHit PROVE Suitable'
  OBVIOUS
<1> DEFINE key == Fingerprint(asked)
<1>1. /\ planning = "lookup" /\ planning' = "chosen" /\ UNCHANGED <<asked, plans>>
      /\ key \in DOMAIN plans /\ choice' = plans[key]
  BY DEF CacheHit
<1>2. /\ asked \in Requests /\ ~Infeasible(asked)
      /\ \A f \in DOMAIN plans : PlanSuits(plans[f], f.cpus, f.overrides)
  BY <1>1 DEF Suitable
<1>3. key.cpus = asked.cpus /\ key.overrides = Overrides(asked)
  BY DEF Fingerprint, Overrides
<1>4. PlanSuits(choice', asked.cpus, Overrides(asked))
  <2> HIDE DEF key
  <2> QED BY <1>1, <1>2, <1>3
<1>5. (PlanSuits(choice, asked.cpus, Overrides(asked)) /\ ~Infeasible(asked))'
  BY <1>1, <1>2, <1>4
<1>6. (\A f \in DOMAIN plans : PlanSuits(plans[f], f.cpus, f.overrides))'
  BY <1>1, <1>2
<1> QED
  BY <1>1, <1>2, <1>5, <1>6 DEF Suitable

LEMMA SuitableStep == Suitable /\ [PlannerNext]_plannerVars => Suitable'
<1> SUFFICES ASSUME Suitable, [PlannerNext]_plannerVars PROVE Suitable'
  OBVIOUS
<1>1. CASE Refuse
  BY <1>1 DEF Refuse, Suitable, planState
<1>2. CASE Choose
  <2>1. /\ planning = "request" /\ planning' = "lookup" /\ ~Infeasible(asked)
        /\ choice' = Heuristic(asked) /\ UNCHANGED <<asked, best, plans>>
    BY <1>2 DEF Choose
  <2>2. asked \in Requests /\ best = NotGiven
    BY <2>1 DEF Suitable
  <2>3. PlanSuits(Heuristic(asked), asked.cpus, Overrides(asked))
    BY <2>1, <2>2, HeuristicSuits
  <2>4. (PlanSuits(choice, asked.cpus, Overrides(asked)) /\ ~Infeasible(asked))'
    BY <2>1, <2>3
  <2>5. (\A f \in DOMAIN plans : PlanSuits(plans[f], f.cpus, f.overrides))'
    BY <2>1 DEF Suitable
  <2> QED BY <2>1, <2>2, <2>4, <2>5 DEF Suitable
<1>3. CASE CacheHit
  BY <1>3, HitSuits
<1>4. CASE SkipCalibration
  <2>1. /\ planning = "lookup" /\ planning' = "chosen"
        /\ UNCHANGED <<asked, planState, plans>>
    BY <1>4 DEF SkipCalibration, CacheMiss
  <2> QED BY <2>1 DEF Suitable, planState
<1>5. CASE BeginCalibration
  BY <1>5, BeginSuits
<1>6. ASSUME NEW rate \in Throughputs, NEW seconds \in Durations, Measure(rate, seconds)
      PROVE  Suitable'
  BY <1>6, MeasureSuits
<1>7. ASSUME NEW seconds \in Durations, TimeOut(seconds) PROVE Suitable'
  BY <1>7, TimeOutSuits
<1>8. CASE DataStageOver
  BY <1>8, DataStageSuits
<1>9. CASE VideoStageOver
  BY <1>9, VideoStageSuits
<1>10. CASE Save
  BY <1>10, SaveSuits
<1>11. CASE Finish
  BY <1>11, FinishSuits
<1>12. CASE NextRun
  <2>1. /\ asked' \in Requests /\ planning' = "request" /\ best' = NotGiven
        /\ plans' = plans
    BY <1>12 DEF NextRun, Reset
  <2> QED BY <2>1 DEF Suitable
<1>13. CASE Expire
  <2>1. PICK f \in DOMAIN plans : plans' = [g \in DOMAIN plans \ {f} |-> plans[g]]
    BY <1>13 DEF Expire
  <2>2. planning = "request" /\ UNCHANGED <<asked, planning, best>>
    BY <1>13 DEF Expire, planState
  <2>3. \A g \in DOMAIN plans' : PlanSuits(plans'[g], g.cpus, g.overrides)
    BY <2>1 DEF Suitable
  <2> QED BY <2>2, <2>3 DEF Suitable
<1>14. CASE UNCHANGED plannerVars
  BY <1>14 DEF plannerVars, planState, Suitable, Asks, DataMay, VideoMay
<1> QED
  BY <1>1, <1>2, <1>3, <1>4, <1>5, <1>6, <1>7, <1>8, <1>9, <1>10, <1>11, <1>12,
     <1>13, <1>14 DEF PlannerNext

LEMMA SuitableInvariance == PlannerSpec => []Suitable
BY SuitableInit, SuitableStep, PTL DEF PlannerSpec

(* On every machine, for every caller and whatever samples show, a plan    *)
(* (of _heuristic, _calibrate or the cache, planner/core.py) needs no more *)
(* processors than there are and no more encoders than they carry.         *)
THEOREM PlanFitsMachineThm == PlannerSpec => []PlanFitsMachine
<1>1. Suitable => PlanFitsMachine
  BY DEF Suitable, PlanFitsMachine, PlanSuits
<1> QED
  BY <1>1, SuitableInvariance, PTL

(* What the caller has fixed is in the plan, also when it comes from a     *)
(* cache that others have filled.                                          *)
THEOREM FixedCountsStayThm == PlannerSpec => []FixedCountsStay
<1>1. Suitable => FixedCountsStay
  BY DEF Suitable, FixedCountsStay, PlanSuits, Keeps, Overrides, Chosen
<1> QED
  BY <1>1, SuitableInvariance, PTL
-----------------------------------------------------------------------------
(* Planning a merge *)

LEMMA MergeFields ==
  ASSUME NEW m \in Merges
  PROVE  /\ m.cpus \in Nat \ {0} /\ m.memory \in Nat /\ m.network \in BOOLEAN
         /\ m.logical \in Seq(Nat) /\ m.physical \in Seq(Nat) /\ m.media \in Seq(Nat)
         /\ m.rowBytes \in Nat \ {0}
         /\ m.dataWorkers \in Options \ {0} /\ m.fileWorkers \in Options \ {0}
  BY MergePlannerAssumption DEF MergeType

LEMMA LargestType ==
  ASSUME NEW sizes \in Seq(Nat)
  PROVE  Largest(sizes) \in Nat
<1>1. CASE sizes = <<>>
  BY <1>1 DEF Largest
<1>2. CASE sizes # <<>>
  <2>1. Len(sizes) \in Nat \ {0} /\ sizes \in [1 .. Len(sizes) -> Nat]
    BY <1>2, LenProperties, EmptySeq
  <2> DEFINE S == Range(sizes)
  <2>2. S \in SUBSET Nat /\ S \in SUBSET Int /\ S # {}
    BY <2>1 DEF Range
  <2>3. IsFiniteSet(S)
    <3>1. IsFiniteSet(1 .. Len(sizes))
      <4>1. 1 \in Int /\ Len(sizes) \in Int
        BY <2>1
      <4> QED BY <4>1, FS_Interval
    <3>2. sizes \in Surjection(1 .. Len(sizes), S)
      BY <2>1 DEF Surjection, Range
    <3> HIDE DEF S
    <3> QED BY <3>1, <3>2, FS_Surjection
  <2>4. Max(S) \in S
    <3> HIDE DEF S
    <3> QED BY <2>2, <2>3, FiniteMax
  <2> QED BY <1>2, <2>2, <2>4 DEF Largest
<1> QED
  BY <1>1, <1>2

(* Half of the memory, and the workers it feeds.                           *)
LEMMA DataCapType ==
  ASSUME NEW m \in Merges
  PROVE  /\ Budget(m) \in Nat /\ Budget(m) >= 256
         /\ DataCap(m) \in Nat \ {0}
         /\ DataCap(m) > 1 => 64 * DataCap(m) <= Budget(m)
<1> DEFINE half == m.memory \div 2
           worker == Max({2 * Largest(m.logical), 64})
           cap == Budget(m) \div worker
<1>1. half \in Nat
  BY MergeFields
<1>2. Budget(m) \in Nat /\ Budget(m) >= 256
  <2>1. Max({256, half}) = IF 256 >= half THEN 256 ELSE half
    <3> HIDE DEF half
    <3> QED BY <1>1, MaxOfTwo
  <2>2. Budget(m) = Max({256, half})
    BY DEF Budget
  <2> HIDE DEF half
  <2> QED BY <1>1, <2>1, <2>2
<1>3. worker \in Nat /\ worker >= 64
  <2> DEFINE twice == 2 * Largest(m.logical)
  <2>1. twice \in Nat
    BY MergeFields, LargestType
  <2>2. worker = IF twice >= 64 THEN twice ELSE 64
    <3> HIDE DEF twice
    <3> QED BY <2>1, MaxOfTwo DEF twice
  <2> HIDE DEF twice, worker
  <2> QED BY <2>1, <2>2
<1>4. cap \in Nat /\ worker * cap <= Budget(m)
  <2> HIDE DEF worker
  <2> QED BY <1>2, <1>3, Quotients
<1>5. 64 * cap <= Budget(m)
  <2> DEFINE more == worker - 64
  <2>1. more \in Nat /\ worker = 64 + more
    BY <1>3
  <2> HIDE DEF more, worker, cap
  <2>2. worker * cap = 64 * cap + more * cap /\ more * cap \in Nat
    BY <1>4, <2>1
  <2> QED BY <1>2, <1>4, <2>2
<1>6. DataCap(m) = IF 1 >= cap THEN 1 ELSE cap
  <2>1. DataCap(m) = Max({1, cap})
    BY DEF DataCap
  <2> HIDE DEF cap
  <2> QED BY <1>4, <2>1, MaxOfTwo
<1> HIDE DEF cap, worker
<1> QED
  BY <1>2, <1>4, <1>5, <1>6

(* A batch that is larger than the least one fits into a worker's share.   *)
LEMMA BatchRowsType ==
  ASSUME NEW m \in Merges, NEW workers \in Nat \ {0}, NEW ceiling \in Nat
  PROVE  /\ BatchRows(m, workers, ceiling) \in Nat
         /\ BatchRows(m, workers, ceiling) > 1024 =>
              3 * m.rowBytes * BatchRows(m, workers, ceiling)
                <= Bytes(Max({16, Budget(m) \div workers}))
<1> DEFINE part == Budget(m) \div workers
           share == Max({16, part})
           row == 3 * m.rowBytes
           most == Bytes(share) \div row
           fewer == Min({ceiling, most})
           rows == BatchRows(m, workers, ceiling)
<1>1. part \in Nat
  BY DataCapType, Quotients
<1>2. share \in Nat
  <2> HIDE DEF part
  <2> QED BY <1>1, MaxOfTwo
<1>3. row \in Nat \ {0} /\ Bytes(share) \in Nat
  <2> HIDE DEF share
  <2> QED BY <1>2, MergeFields DEF Bytes, MiB
<1>4. most \in Nat /\ row * most <= Bytes(share)
  <2> DEFINE all == Bytes(share)
  <2>1. all \in Nat
    BY <1>3
  <2> HIDE DEF row, all
  <2> QED BY <1>3, <2>1, Quotients DEF all
<1>5. fewer = IF ceiling <= most THEN ceiling ELSE most
  <2> HIDE DEF most
  <2> QED BY <1>4, MinOfTwo
<1>6. rows = IF 1024 >= fewer THEN 1024 ELSE fewer
  <2>1. fewer \in Nat
    <3> HIDE DEF most, fewer
    <3> QED BY <1>4, <1>5
  <2>2. rows = Max({1024, fewer})
    BY DEF BatchRows
  <2> HIDE DEF fewer, rows
  <2> QED BY <2>1, <2>2, MaxOfTwo
<1>7. rows \in Nat /\ (rows > 1024 => rows <= most)
  <2> HIDE DEF most, fewer, rows
  <2> QED BY <1>4, <1>5, <1>6
<1>8. ASSUME rows > 1024 PROVE row * rows <= Bytes(share)
  <2> DEFINE all == Bytes(share)
             left == most - rows
  <2>1. left \in Nat /\ most = rows + left
    <3> HIDE DEF most, rows
    <3> QED BY <1>4, <1>7, <1>8
  <2>2. all \in Nat /\ row * most <= all
    BY <1>3, <1>4
  <2> HIDE DEF most, rows, row, all, left
  <2>3. row * most = row * rows + row * left /\ row * left \in Nat /\ row * rows \in Nat
    BY <1>3, <1>7, <2>1
  <2>4. row * rows <= all
    BY <2>2, <2>3
  <2> QED BY <2>4 DEF all
<1>9. 3 * m.rowBytes * rows = row * rows
  OBVIOUS
<1> QED
  BY <1>7, <1>8, <1>9

(* At most five counts are tried.                                          *)
LEMMA CandidatesType ==
  ASSUME NEW limit \in 1 .. 16
  PROVE  /\ CandidateCounts(limit) \in Seq(1 .. limit)
         /\ Len(CandidateCounts(limit)) \in 1 .. 5
<1> DEFINE S == PowersUpTo(limit)
<1>1. S \in SUBSET {1, 2, 4, 8, limit} /\ limit \in S
      /\ S \in SUBSET (1 .. limit)
  BY DEF PowersUpTo
<1>2. IsFiniteSet({1, 2, 4, 8, limit}) /\ Cardinality({1, 2, 4, 8, limit}) <= 5
  <2> DEFINE A == {1, 2, 4, 8}
             B == {limit}
  <2>1. IsFiniteSet({1, 2}) /\ Cardinality({1, 2}) <= 2
    <3>1. IsFiniteSet({1}) /\ Cardinality({1}) = 1 /\ IsFiniteSet({2}) /\ Cardinality({2}) = 1
      BY FS_Singleton
    <3>2. {1, 2} = {1} \cup {2} /\ {1} \cap {2} = {}
      OBVIOUS
    <3>3. IsFiniteSet({1} \cup {2}) /\ Cardinality({1} \cup {2}) = 1 + 1 - Cardinality({})
      BY <3>1, <3>2, FS_Union
    <3> QED BY <3>2, <3>3, FS_EmptySet
  <2>2. IsFiniteSet({4, 8}) /\ Cardinality({4, 8}) <= 2
    <3>1. IsFiniteSet({4}) /\ Cardinality({4}) = 1 /\ IsFiniteSet({8}) /\ Cardinality({8}) = 1
      BY FS_Singleton
    <3>2. {4, 8} = {4} \cup {8} /\ {4} \cap {8} = {}
      OBVIOUS
    <3>3. IsFiniteSet({4} \cup {8}) /\ Cardinality({4} \cup {8}) = 1 + 1 - Cardinality({})
      BY <3>1, <3>2, FS_Union
    <3> QED BY <3>2, <3>3, FS_EmptySet
  <2>3. A = {1, 2} \cup {4, 8} /\ {1, 2, 4, 8, limit} = A \cup B
        /\ {1, 2} \cap {4, 8} = {}
    OBVIOUS
  <2> DEFINE P == {1, 2}
             Q == {4, 8}
  <2>4. IsFiniteSet(A) /\ Cardinality(A) <= 4 /\ Cardinality(A) \in Nat
    <3>1. /\ IsFiniteSet(P) /\ IsFiniteSet(Q) /\ A = P \cup Q /\ P \cap Q = {}
          /\ Cardinality(P) <= 2 /\ Cardinality(Q) <= 2
      BY <2>1, <2>2, <2>3
    <3> HIDE DEF A, P, Q
    <3>2. IsFiniteSet(A) /\ Cardinality(A) = Cardinality(P) + Cardinality(Q) - Cardinality({})
      BY <3>1, FS_Union
    <3>3. Cardinality({}) = 0
      BY FS_EmptySet
    <3>4. Cardinality(P) \in Nat /\ Cardinality(Q) \in Nat
      BY <3>1, FS_CardinalityType
    <3> QED BY <3>1, <3>2, <3>3, <3>4
  <2>5. IsFiniteSet(B) /\ Cardinality(B) = 1
    BY FS_Singleton
  <2>6. IsFiniteSet(A \cup B) /\ Cardinality(A \cup B) <= 5
    <3> HIDE DEF A, B
    <3>1. /\ IsFiniteSet(A \cup B)
          /\ Cardinality(A \cup B) = Cardinality(A) + Cardinality(B) - Cardinality(A \cap B)
      BY <2>4, <2>5, FS_Union
    <3>2. Cardinality(A \cap B) \in Nat
      BY <2>4, FS_Subset, FS_CardinalityType
    <3> QED BY <2>4, <2>5, <3>1, <3>2
  <2> QED BY <2>3, <2>6
<1>3. IsFiniteSet(S) /\ Cardinality(S) \in 1 .. 5
  <2> DEFINE few == {1, 2, 4, 8, limit}
  <2>1. IsFiniteSet(few) /\ Cardinality(few) <= 5 /\ S \in SUBSET few /\ S # {}
    BY <1>1, <1>2
  <2> HIDE DEF few, S
  <2>2. IsFiniteSet(S) /\ Cardinality(S) <= Cardinality(few)
    BY <2>1, FS_Subset
  <2>3. Cardinality(S) \in Nat /\ Cardinality(few) \in Nat /\ Cardinality(S) # 0
    BY <2>1, <2>2, FS_CardinalityType, FS_EmptySet
  <2> QED BY <2>1, <2>2, <2>3
<1>4. Ascending(S) \in [1 .. Cardinality(S) -> S]
  <2>1. S \in SUBSET Nat
    BY <1>1
  <2> HIDE DEF S
  <2> QED BY <1>3, <2>1, AscendingType
<1>5. CandidateCounts(limit) = Ascending(S)
  BY DEF CandidateCounts
<1> DEFINE counts == CandidateCounts(limit)
<1>6. counts \in [1 .. Cardinality(S) -> 1 .. limit]
  <2> HIDE DEF S, counts
  <2> QED BY <1>1, <1>4, <1>5 DEF counts
<1> HIDE DEF S, counts
<1>7. counts \in Seq(1 .. limit)
  BY <1>3, <1>6, SeqDef
<1>8. Len(counts) = Cardinality(S)
  BY <1>3, <1>6, <1>7, LenProperties
<1> QED
  BY <1>3, <1>7, <1>8 DEF counts

LEMMA DataCandidatesType ==
  ASSUME NEW m \in Merges
  PROVE  /\ DataCandidates(m) \in Seq(1 .. DataCap(m))
         /\ Len(DataCandidates(m)) \in 1 .. 5
<1> DEFINE most == Max({1, Len(m.physical)})
           cap == DataCap(m)
           limit == Min({m.cpus, most, cap, 16})
<1>1. m.cpus \in Nat \ {0} /\ most \in Nat \ {0} /\ cap \in Nat \ {0}
  <2>1. Len(m.physical) \in Nat
    BY MergeFields, LenProperties
  <2> DEFINE len == Len(m.physical)
  <2>2. most = IF 1 >= len THEN 1 ELSE len
    <3> HIDE DEF len
    <3> QED BY <2>1, MaxOfTwo DEF len
  <2> HIDE DEF most
  <2> QED BY <2>1, <2>2, MergeFields, DataCapType
<1>2. limit \in {m.cpus, most, cap, 16} /\ limit <= cap /\ limit <= 16
  <2> HIDE DEF most, cap
  <2>1. m.cpus \in Int /\ most \in Int /\ cap \in Int /\ 16 \in Int
    BY <1>1
  <2> QED BY <2>1, MinOfFour
<1> HIDE DEF most, limit
<1>3. limit \in 1 .. 16 /\ 1 .. limit \in SUBSET (1 .. cap)
  <2> HIDE DEF cap
  <2> QED BY <1>1, <1>2
<1>4. CandidateCounts(limit) \in Seq(1 .. limit) /\ Len(CandidateCounts(limit)) \in 1 .. 5
  BY <1>3, CandidatesType
<1>5. CandidateCounts(limit) \in Seq(1 .. cap)
  BY <1>3, <1>4, SeqMonotonic
<1>6. DataCandidates(m) = CandidateCounts(limit)
  BY DEF DataCandidates, limit, most
<1> QED
  BY <1>4, <1>5, <1>6

LEMMA FileCandidatesType ==
  ASSUME NEW m \in Merges
  PROVE  FileCandidates(m) \in Seq(Nat) /\ Len(FileCandidates(m)) \in 1 .. 5
<1> DEFINE most == Max({1, Len(m.media)})
           limit == Min({m.cpus, most, 16})
<1>1. m.cpus \in Nat \ {0} /\ most \in Nat \ {0}
  <2>1. Len(m.media) \in Nat
    BY MergeFields, LenProperties
  <2> DEFINE len == Len(m.media)
  <2>2. most = IF 1 >= len THEN 1 ELSE len
    <3> HIDE DEF len
    <3> QED BY <2>1, MaxOfTwo DEF len
  <2> HIDE DEF most
  <2> QED BY <2>1, <2>2, MergeFields
<1>2. limit \in {m.cpus, most, 16} /\ limit <= 16
  <2> HIDE DEF most
  <2>1. m.cpus \in Int /\ most \in Int /\ 16 \in Int
    BY <1>1
  <2> QED BY <2>1, MinOfThree
<1> HIDE DEF most, limit
<1>3. limit \in 1 .. 16 /\ 1 .. limit \in SUBSET Nat
  BY <1>1, <1>2
<1>4. CandidateCounts(limit) \in Seq(1 .. limit) /\ Len(CandidateCounts(limit)) \in 1 .. 5
  BY <1>3, CandidatesType
<1>5. CandidateCounts(limit) \in Seq(Nat)
  BY <1>3, <1>4, SeqMonotonic
<1>6. FileCandidates(m) = CandidateCounts(limit)
  BY DEF FileCandidates, limit, most
<1> QED
  BY <1>4, <1>5, <1>6

LEMMA ShareType ==
  ASSUME NEW m \in Merges
  PROVE  SharePerSample(m) \in Nat \ {0}
<1> DEFINE d == Len(DataCandidates(m))
           f == Len(FileCandidates(m))
           n == d + IF m.media = <<>> THEN 0 ELSE f
           part == MergeBytes \div n
<1>1. n \in Nat \ {0}
  <2>1. d \in 1 .. 5 /\ f \in 1 .. 5
    BY DataCandidatesType, FileCandidatesType
  <2> HIDE DEF d, f
  <2> QED BY <2>1
<1>2. part \in Nat
  <2> HIDE DEF n
  <2> QED BY <1>1, MergePlannerAssumption, Quotients
<1>3. Max({1, part}) = IF 1 >= part THEN 1 ELSE part
  <2> HIDE DEF part
  <2> QED BY <1>2, MaxOfTwo
<1>4. SharePerSample(m) = Max({1, part})
  BY DEF SharePerSample
<1> HIDE DEF part
<1> QED
  BY <1>2, <1>3, <1>4

(* What is taken for one sample fits into one share.                       *)
LEMMA SampleFits ==
  ASSUME NEW m \in Merges, NEW sizes \in Seq(Nat), NEW limit \in Nat
  PROVE  /\ SampleBytes(m, sizes, limit) \in Nat
         /\ SampleBytes(m, sizes, limit) <= SharePerSample(m)
<1> DEFINE Smallest(n) == Sum(SubSeq(Sorted(sizes), 1, n))
           most == Min({Len(sizes), limit})
           N == {n \in 0 .. most : Smallest(n) <= SharePerSample(m)}
<1>1. Len(sizes) \in Nat
  BY LenProperties
<1>2. most = IF Len(sizes) <= limit THEN Len(sizes) ELSE limit
  <2> DEFINE len == Len(sizes)
  <2> HIDE DEF len
  <2> QED BY <1>1, MinOfTwo DEF len
<1> HIDE DEF most
<1>3. most \in Nat /\ most <= Len(sizes)
  BY <1>1, <1>2
<1>4. ASSUME NEW n \in 0 .. most PROVE Smallest(n) \in Nat
  <2> DEFINE up == Sorted(sizes)
             few == SubSeq(up, 1, n)
  <2>1. up \in [1 .. Len(sizes) -> Nat]
    BY SortedType
  <2>2. n \in Nat /\ n <= Len(sizes)
    BY <1>1, <1>3
  <2>3. \A i \in 1 .. n : up[i] \in Nat
    <3> HIDE DEF up
    <3> QED BY <1>1, <2>1, <2>2
  <2>4. few \in Seq(Nat)
    <3> HIDE DEF up
    <3>1. 1 \in Int /\ n \in Int
      BY <2>2
    <3> QED BY <2>3, <3>1, SubSeqProperties
  <2>5. Len(few) \in Nat /\ few \in [1 .. Len(few) -> Nat]
    <3> HIDE DEF few
    <3> QED BY <2>4, LenProperties
  <2>6. SumFunction(few) \in Nat
    <3> HIDE DEF few
    <3> QED BY <2>5, SumType
  <2> QED BY <2>6 DEF Sum
<1>5. Smallest(0) = 0
  <2>1. SubSeq(Sorted(sizes), 1, 0) = <<>>
    BY SubSeqEmpty
  <2>2. DOMAIN <<>> = {}
    OBVIOUS
  <2> QED BY <2>1, <2>2, SumOfNone DEF Sum
<1> HIDE DEF Smallest
<1>6. Max(N) \in N
  <2>1. 0 \in N
    BY <1>3, <1>5, ShareType
  <2>2. IsFiniteSet(0 .. most)
    <3>1. 0 \in Int /\ most \in Int
      BY <1>3
    <3> QED BY <3>1, FS_Interval
  <2>3. N \in SUBSET (0 .. most) /\ N \in SUBSET Int
    OBVIOUS
  <2> HIDE DEF N
  <2>4. IsFiniteSet(N)
    BY <2>2, <2>3, FS_Subset
  <2> QED BY <2>1, <2>3, <2>4, FiniteMax
<1>7. SampleBytes(m, sizes, limit) = Smallest(Max(N))
  BY Zenon DEF SampleBytes, Smallest, most
<1> QED
  BY <1>4, <1>6, <1>7

LEMMA StageSamples ==
  ASSUME NEW m \in Merges
  PROVE  /\ DataSample(m) \in Nat /\ DataSample(m) <= SharePerSample(m)
         /\ FileSample(m) \in Nat /\ FileSample(m) <= SharePerSample(m)
<1>1. Last(DataCandidates(m)) \in Nat
  <2> DEFINE counts == DataCandidates(m)
  <2>1. /\ counts \in Seq(1 .. DataCap(m)) /\ Len(counts) \in 1 .. 5
        /\ DataCap(m) \in Nat
    BY DataCandidatesType, DataCapType
  <2> HIDE DEF counts
  <2>2. counts \in [1 .. Len(counts) -> 1 .. DataCap(m)]
    BY <2>1, LenProperties
  <2>3. Last(counts) \in Nat
    BY <2>1, <2>2 DEF Last
  <2> QED BY <2>3 DEF counts
<1>2. Last(FileCandidates(m)) \in Nat
  <2> DEFINE counts == FileCandidates(m)
  <2>1. counts \in Seq(Nat) /\ Len(counts) \in 1 .. 5
    BY FileCandidatesType
  <2> HIDE DEF counts
  <2>2. counts \in [1 .. Len(counts) -> Nat]
    BY <2>1, LenProperties
  <2>3. Last(counts) \in Nat
    BY <2>1, <2>2 DEF Last
  <2> QED BY <2>3 DEF counts
<1> QED
  BY <1>1, <1>2, MergeFields, SampleFits DEF DataSample, FileSample

(* The favoured count is one of those that were tried.                     *)
LEMMA NearPeakType ==
  ASSUME NEW W \in SUBSET Nat, NEW taken \in Seq([workers: W, rate: Nat]),
         NEW otherwise \in W
  PROVE  NearPeak(taken, otherwise) \in W
<1>1. CASE taken = <<>>
  BY <1>1 DEF NearPeak
<1>2. CASE taken # <<>>
  <2> DEFINE R == Range(taken)
             shown == {s.rate : s \in R}
             peak == Max(shown)
             near == {r \in R : 100 * r.rate >= 97 * peak}
             least == {s.workers : s \in near}
  <2>1. Len(taken) \in Nat \ {0} /\ taken \in [1 .. Len(taken) -> [workers: W, rate: Nat]]
    BY <1>2, LenProperties, EmptySeq
  <2>2. R # {} /\ \A s \in R : s.rate \in Nat /\ s.workers \in W
    BY <2>1 DEF Range
  <2>3. IsFiniteSet(R)
    <3>1. IsFiniteSet(1 .. Len(taken))
      <4>1. 1 \in Int /\ Len(taken) \in Int
        BY <2>1
      <4> QED BY <4>1, FS_Interval
    <3>2. taken \in Surjection(1 .. Len(taken), R)
      BY <2>1 DEF Surjection, Range
    <3> HIDE DEF R
    <3> QED BY <3>1, <3>2, FS_Surjection
  <2> HIDE DEF R
  <2>4. IsFiniteSet(shown) /\ shown # {} /\ shown \in SUBSET Int
    <3>1. [s \in R |-> s.rate] \in Surjection(R, shown)
      BY DEF Surjection
    <3>2. IsFiniteSet(shown)
      <4> HIDE DEF shown
      <4> QED BY <2>3, <3>1, FS_Surjection
    <3> QED BY <2>2, <3>2
  <2>5. PICK best0 \in R : best0.rate = peak
    <3>1. peak \in shown
      <4> HIDE DEF shown
      <4> QED BY <2>4, FiniteMax
    <3> HIDE DEF peak
    <3> QED BY <3>1
  <2>6. near # {}
    <3> HIDE DEF peak
    <3>1. peak \in Nat /\ 100 * best0.rate >= 97 * peak
      BY <2>2, <2>5
    <3> QED BY <3>1
  <2>7. IsFiniteSet(near) /\ near \in SUBSET R
    <3>1. near \in SUBSET R
      OBVIOUS
    <3> HIDE DEF near
    <3> QED BY <2>3, <3>1, FS_Subset
  <2> HIDE DEF near
  <2>8. IsFiniteSet(least) /\ least # {} /\ least \in SUBSET Int /\ least \in SUBSET W
    <3>1. [s \in near |-> s.workers] \in Surjection(near, least)
      BY DEF Surjection
    <3>2. IsFiniteSet(least)
      <4> HIDE DEF least
      <4> QED BY <2>7, <3>1, FS_Surjection
    <3>3. least # {}
      BY <2>6
    <3>4. \A s \in near : s.workers \in W
      BY <2>2, <2>7
    <3>5. least \in SUBSET W
      BY <3>4
    <3> HIDE DEF least
    <3> QED BY <3>2, <3>3, <3>5
  <2>9. Min(least) \in least
    <3> HIDE DEF least
    <3> QED BY <2>8, FiniteMin
  <2>10. NearPeak(taken, otherwise) = Min(least)
    BY <1>2, Zenon DEF NearPeak, R, near
  <2> QED BY <2>8, <2>9, <2>10
<1> QED
  BY <1>1, <1>2

LEMMA MergeDataType ==
  ASSUME NEW m \in Merges, ~MergeInfeasible(m)
  PROVE  MergeData(m) \in 1 .. DataCap(m)
<1> DEFINE tasks == Max({1, Len(m.logical)})
           cap == DataCap(m)
           top == IF m.network THEN 8 ELSE 16
           least == Min({m.cpus, tasks, cap, top})
<1>1. m.cpus \in Nat \ {0} /\ tasks \in Nat \ {0} /\ cap \in Nat \ {0} /\ top \in Nat
  <2>1. Len(m.logical) \in Nat
    BY MergeFields, LenProperties
  <2> DEFINE len == Len(m.logical)
  <2>2. tasks = IF 1 >= len THEN 1 ELSE len
    <3> HIDE DEF len
    <3> QED BY <2>1, MaxOfTwo DEF len
  <2> HIDE DEF tasks
  <2> QED BY <2>1, <2>2, MergeFields, DataCapType
<1>2. Max({1, least}) \in Nat \ {0}
  <2>1. least \in Int
    <3> HIDE DEF tasks, cap, top
    <3>1. m.cpus \in Int /\ tasks \in Int /\ cap \in Int /\ top \in Int
      BY <1>1
    <3> QED BY <3>1, MinOfFour
  <2> HIDE DEF least
  <2>2. Max({1, least}) = IF 1 >= least THEN 1 ELSE least
    BY <2>1, MaxOfTwo
  <2> QED BY <2>1, <2>2
<1>3. Default(m, {m.cpus, tasks, cap}) = Max({1, least})
  <2>1. {m.cpus, tasks, cap} \cup {top} = {m.cpus, tasks, cap, top}
    OBVIOUS
  <2> QED BY <2>1 DEF Default
<1>4. MergeData(m) = Chosen(m.dataWorkers, Default(m, {m.cpus, tasks, cap}))
  BY DEF MergeData
<1>5. MergeData(m) \in Nat \ {0}
  <2> HIDE DEF least, tasks, cap
  <2> QED BY <1>2, <1>3, <1>4, MergeFields DEF Chosen, Given, Options
<1>6. ~(MergeData(m) > Min({m.cpus, cap}))
  BY DEF MergeInfeasible
<1>7. Min({m.cpus, cap}) = IF m.cpus <= cap THEN m.cpus ELSE cap
  <2> HIDE DEF cap
  <2> QED BY <1>1, MinOfTwo
<1> HIDE DEF tasks, least
<1> QED
  BY <1>1, <1>5, <1>6, <1>7

(* Samples that a merge may still take, and all that it takes.             *)
MergeSteps(m) ==
  Len(DataCandidates(m)) + IF m.media = <<>> THEN 0 ELSE Len(FileCandidates(m))
MergeLeft ==
  Len(candidates)
    + IF merging # "data" \/ merge.media = <<>> THEN 0 ELSE Len(FileCandidates(merge))

(* Rows in hand stay within the memory, unless a batch is the least one.   *)
RowsFit(m, plan) ==
  plan.rows > 1024 => plan.data * plan.rows * 3 <= Bytes(Budget(m)) \div m.rowBytes

IsMergePlan(m, plan) ==
  /\ plan = [data |-> plan.data, files |-> plan.files, rows |-> plan.rows]
  /\ plan.data \in 1 .. DataCap(m) /\ plan.rows \in Nat

(* Each sample still to be taken has its share, and no count that is tried *)
(* exceeds what the memory feeds.                                          *)
Apportioned ==
  /\ merge \in Merges
  /\ merging \in {"request", "refused", "lookup", "cached", "data", "files",
                  "calibrated", "planned"}
  /\ sampledBytes \in Nat /\ candidates \in Seq(Nat)
  /\ merging \in {"request", "lookup"} => sampledBytes = 0 /\ rates = <<>>
  /\ sampledBytes <= SharePerSample(merge) * MergeSteps(merge)
  /\ merging \in {"data", "files"} =>
       sampledBytes + SharePerSample(merge) * MergeLeft
         <= SharePerSample(merge) * MergeSteps(merge)
  /\ merging = "data" => /\ candidates \in Seq(1 .. DataCap(merge))
                         /\ rates \in Seq([workers: 1 .. DataCap(merge), rate: Nat])
  /\ merging \in {"lookup", "data", "files"} => IsMergePlan(merge, mergePlan)
  /\ merging \in {"lookup", "calibrated", "planned"} => RowsFit(merge, mergePlan)

(* With its share of the memory every worker keeps within the whole.       *)
LEMMA BatchFits ==
  ASSUME NEW m \in Merges, NEW d \in 1 .. DataCap(m), NEW ceiling \in Nat,
         NEW plan, plan.data = d, plan.rows = BatchRows(m, d, ceiling)
  PROVE  RowsFit(m, plan)
<1> DEFINE rows == BatchRows(m, d, ceiling)
           part == Budget(m) \div d
           w == m.rowBytes
<1>0. MiB \in Nat
  BY DEF MiB
<1>1. /\ Budget(m) \in Nat /\ Budget(m) >= 256 /\ DataCap(m) \in Nat
      /\ DataCap(m) > 1 => 64 * DataCap(m) <= Budget(m)
  BY DataCapType
<1>2. d \in Nat \ {0} /\ w \in Nat \ {0}
  BY <1>1, MergeFields
<1>3. part \in Nat /\ d * part <= Budget(m) /\ (64 * d <= Budget(m) => 64 <= part)
  <2>1. part \in Nat /\ d * part <= Budget(m)
        /\ \A c \in Nat : d * c <= Budget(m) => c <= part
    BY <1>1, <1>2, Quotients
  <2>2. d * 64 = 64 * d /\ 64 \in Nat
    BY <1>2
  <2> HIDE DEF part
  <2> QED BY <2>1, <2>2
<1>4. 64 * d <= Budget(m)
  <2> DEFINE cap == DataCap(m)
             budget == Budget(m)
  <2>1. /\ d \in Nat /\ d <= cap /\ cap \in Nat /\ budget \in Nat /\ budget >= 256
        /\ cap > 1 => 64 * cap <= budget
    BY <1>1, <1>2
  <2> HIDE DEF cap, budget
  <2>2. 64 * d <= budget
    BY <2>1
  <2> QED BY <2>2 DEF budget
<1>5. Max({16, part}) = part
  <2>1. part >= 64 /\ part \in Int
    BY <1>3, <1>4
  <2> HIDE DEF part
  <2> QED BY <2>1, MaxOfTwo
<1>6. rows \in Nat /\ (rows > 1024 => 3 * w * rows <= Bytes(part))
  <2>1. rows \in Nat /\ (rows > 1024 => 3 * w * rows <= Bytes(Max({16, part})))
    BY <1>2, BatchRowsType
  <2> QED BY <1>5, <2>1
<1>7. ASSUME rows > 1024 PROVE d * rows * 3 <= Bytes(Budget(m)) \div w
  <2> DEFINE budget == Budget(m)
             whole == Bytes(budget)
             row == 3 * w * rows
             left == MiB * part - row
             used == d * rows * 3
  <2>1. left \in Nat /\ MiB * part = row + left /\ row \in Nat
    <3>1. row <= MiB * part
      BY <1>0, <1>3, <1>6, <1>7 DEF Bytes
    <3>2. row \in Nat /\ MiB * part \in Nat
      <4> HIDE DEF part, rows, w
      <4> QED BY <1>0, <1>2, <1>3, <1>6
    <3> HIDE DEF part, row
    <3> QED BY <3>1, <3>2
  <2>2. d * row <= d * (MiB * part)
    <3> HIDE DEF row, part, left
    <3>1. d * (MiB * part) = d * row + d * left
      BY <1>0, <1>2, <1>3, <2>1
    <3>2. d * left \in Nat /\ d * row \in Nat
      BY <1>0, <1>2, <1>3, <2>1
    <3> QED BY <3>1, <3>2
  <2>3. d * (MiB * part) = MiB * (d * part)
    <3> HIDE DEF part
    <3> QED BY <1>0, <1>2, <1>3
  <2>4. d * part \in Nat /\ d * part <= budget /\ budget \in Nat
    <3> HIDE DEF part
    <3> QED BY <1>1, <1>2, <1>3
  <2>5. MiB * (d * part) <= MiB * budget
    <3> DEFINE x == d * part
    <3> HIDE DEF x, budget
    <3> QED BY <1>0, <2>4
  <2>6. w * used = d * row
    <3> HIDE DEF w, rows
    <3> QED BY <1>2, <1>6
  <2>7. w * used <= whole /\ whole \in Nat /\ used \in Nat
    <3>1. whole = MiB * budget
      <4> HIDE DEF budget
      <4> QED BY <1>0, <2>4 DEF Bytes
    <3>2. used \in Nat
      <4> HIDE DEF rows
      <4> QED BY <1>2, <1>6
    <3>3. d * row \in Nat
      <4> HIDE DEF row
      <4> QED BY <1>0, <1>2, <1>3, <2>1
    <3>4. MiB * budget \in Nat
      <4> HIDE DEF budget
      <4> QED BY <1>0, <2>4
    <3> DEFINE a == d * row
               b == d * (MiB * part)
               c == MiB * budget
    <3>5. a <= b /\ b <= c
      <4> HIDE DEF row, budget, part
      <4> QED BY <2>2, <2>3, <2>5
    <3>6. b \in Nat
      <4> HIDE DEF part
      <4> QED BY <1>0, <1>2, <1>3
    <3>7. a <= c
      <4> HIDE DEF a, b, c
      <4>1. a \in Nat /\ b \in Nat /\ c \in Nat
        BY <3>3, <3>4, <3>6 DEF a, c
      <4> QED BY <3>5, <4>1
    <3> QED BY <2>6, <3>1, <3>2, <3>4, <3>7
  <2> HIDE DEF used, whole, w
  <2>8. used <= whole \div w
    BY <1>2, <2>7, Quotients
  <2> QED BY <2>8 DEF used, whole
<1> HIDE DEF rows, w
<1> QED
  BY <1>7 DEF RowsFit, rows, w

LEMMA StepsType ==
  ASSUME NEW m \in Merges
  PROVE  /\ MergeSteps(m) \in 1 .. 10
         /\ MergeSteps(m) = Len(DataCandidates(m))
                              + IF m.media = <<>> THEN 0 ELSE Len(FileCandidates(m))
         /\ Len(DataCandidates(m)) \in Nat /\ Len(FileCandidates(m)) \in Nat
<1> DEFINE d == Len(DataCandidates(m))
           f == Len(FileCandidates(m))
<1>1. d \in 1 .. 5 /\ f \in 1 .. 5
  BY DataCandidatesType, FileCandidatesType
<1>2. MergeSteps(m) = d + IF m.media = <<>> THEN 0 ELSE f
  BY DEF MergeSteps
<1>3. d \in Nat /\ f \in Nat /\ (d + IF m.media = <<>> THEN 0 ELSE f) \in 1 .. 10
  <2> HIDE DEF d, f
  <2> QED BY <1>1
<1> QED
  BY <1>2, <1>3

LEMMA ShareTimes ==
  ASSUME NEW s \in Nat, NEW k \in Nat
  PROVE  s * k \in Nat /\ s * (k + 1) = s * k + s /\ s * 0 = 0
         /\ \A j \in Nat : j <= k => s * j <= s * k /\ s * j \in Nat
<1>1. s * k \in Nat /\ s * (k + 1) = s * k + s /\ s * 0 = 0
  OBVIOUS
<1>2. ASSUME NEW j \in Nat, j <= k PROVE s * j <= s * k /\ s * j \in Nat
  <2> DEFINE i == k - j
  <2>1. i \in Nat /\ k = j + i
    BY <1>2
  <2> HIDE DEF i
  <2>2. s * k = s * j + s * i /\ s * i \in Nat /\ s * j \in Nat
    BY <2>1
  <2> QED BY <2>2
<1> QED
  BY <1>1, <1>2

LEMMA ApportionedInit == MergePlannerInit => Apportioned
<1> SUFFICES ASSUME MergePlannerInit PROVE Apportioned
  OBVIOUS
<1> DEFINE whole == SharePerSample(merge) * MergeSteps(merge)
<1>1. /\ merge \in Merges /\ merging = "request" /\ candidates = <<>> /\ rates = <<>>
      /\ sampledBytes = 0
  BY DEF MergePlannerInit
<1>2. whole \in Nat
  <2>1. SharePerSample(merge) \in Nat /\ MergeSteps(merge) \in Nat
    BY <1>1, ShareType, StepsType
  <2> QED BY <2>1, ShareTimes
<1>3. 0 <= whole /\ candidates \in Seq(Nat)
  <2> HIDE DEF whole
  <2> QED BY <1>1, <1>2
<1> QED
  BY <1>1, <1>3 DEF Apportioned

LEMMA ChoiceFits ==
  ASSUME NEW m \in Merges, ~MergeInfeasible(m)
  PROVE  IsMergePlan(m, MergeHeuristic(m)) /\ RowsFit(m, MergeHeuristic(m))
<1> DEFINE plan == MergeHeuristic(m)
           d == MergeData(m)
<1>1. d \in 1 .. DataCap(m)
  BY MergeDataType
<1>2. plan = [data |-> d, files |-> MergeFiles(m), rows |-> BatchRows(m, d, 131072)]
  BY DEF MergeHeuristic
<1>3. BatchRows(m, d, 131072) \in Nat
  <2>1. d \in Nat \ {0}
    <3> HIDE DEF d
    <3> QED BY <1>1, DataCapType
  <2> DEFINE ceiling == 131072
  <2>2. ceiling \in Nat
    OBVIOUS
  <2> HIDE DEF d, ceiling
  <2>3. BatchRows(m, d, ceiling) \in Nat
    BY <2>1, <2>2, BatchRowsType
  <2> QED BY <2>3 DEF ceiling
<1> HIDE DEF plan, d
<1>4. IsMergePlan(m, plan)
  BY <1>1, <1>2, <1>3 DEF IsMergePlan
<1>5. RowsFit(m, plan)
  <2>1. plan.data = d /\ plan.rows = BatchRows(m, d, 131072)
    BY <1>2
  <2> QED BY <1>1, <2>1, BatchFits
<1> QED
  BY <1>4, <1>5 DEF plan

(* One more sample: its share was set aside for it.                        *)
LEMMA MergeMeasureFits ==
  ASSUME Apportioned, NEW rate \in MergeRates, NEW seconds, MergeMeasure(rate, seconds)
  PROVE  Apportioned'
<1> DEFINE s == SharePerSample(merge)
           n == MergeSteps(merge)
           l == Len(candidates)
           f == IF merging # "data" \/ merge.media = <<>> THEN 0
                ELSE Len(FileCandidates(merge))
           b == IF merging = "data" THEN DataSample(merge) ELSE FileSample(merge)
<1>1. /\ merging \in {"data", "files"} /\ candidates # <<>>
      /\ rates' = Append(rates, [workers |-> Head(candidates), rate |-> rate])
      /\ candidates' = Tail(candidates) /\ sampledBytes' = sampledBytes + b
      /\ UNCHANGED <<merge, merging, mergePlan>>
  BY DEF MergeMeasure
<1>2. /\ merge \in Merges /\ candidates \in Seq(Nat) /\ sampledBytes \in Nat
      /\ sampledBytes + s * (l + f) <= s * n
  BY <1>1 DEF Apportioned, MergeLeft
<1>3. s \in Nat /\ n \in Nat /\ f \in Nat /\ b \in Nat /\ b <= s
  BY <1>2, ShareType, StepsType, StageSamples
<1>4. l \in Nat \ {0} /\ candidates' \in Seq(Nat) /\ Len(candidates') = l - 1
  BY <1>1, <1>2, HeadTailProperties, LenProperties, EmptySeq
<1>5. MergeLeft' = (l - 1) + f
  BY <1>1, <1>4 DEF MergeLeft
<1>6. /\ sampledBytes' \in Nat /\ sampledBytes' <= s * n
      /\ sampledBytes' + s * MergeLeft' <= s * n
  <2> DEFINE k == (l - 1) + f
  <2>1. k \in Nat /\ l + f = k + 1
    <3> HIDE DEF l, f
    <3> QED BY <1>3, <1>4
  <2>2. s * (k + 1) = s * k + s /\ s * k \in Nat /\ s * n \in Nat
    <3> HIDE DEF s, k, n
    <3> QED BY <1>3, <2>1, ShareTimes
  <2>3. sampledBytes + (s * k + s) <= s * n
    BY <1>2, <2>1, <2>2
  <2> DEFINE sk == s * k
             sn == s * n
  <2>4. sampledBytes + b \in Nat /\ sampledBytes + b <= sn /\ sampledBytes + b + sk <= sn
    <3>1. /\ sk \in Nat /\ sn \in Nat /\ sampledBytes + (sk + s) <= sn
          /\ sampledBytes \in Nat /\ s \in Nat /\ b \in Nat /\ b <= s
      BY <1>2, <1>3, <2>2, <2>3
    <3> HIDE DEF s, b, sk, sn
    <3> QED BY <3>1
  <2> QED BY <1>1, <1>5, <2>4
<1>7. merging' = "data" =>
        /\ candidates' \in Seq(1 .. DataCap(merge'))
        /\ rates' \in Seq([workers: 1 .. DataCap(merge'), rate: Nat])
  <2> SUFFICES ASSUME merging' = "data"
               PROVE  /\ candidates' \in Seq(1 .. DataCap(merge'))
                      /\ rates' \in Seq([workers: 1 .. DataCap(merge'), rate: Nat])
    OBVIOUS
  <2> DEFINE W == 1 .. DataCap(merge)
  <2>1. candidates \in Seq(W) /\ rates \in Seq([workers: W, rate: Nat])
    BY <1>1 DEF Apportioned
  <2>2. Head(candidates) \in W /\ Tail(candidates) \in Seq(W)
    <3> HIDE DEF W
    <3> QED BY <1>1, <2>1, HeadTailProperties
  <2>3. [workers |-> Head(candidates), rate |-> rate] \in [workers: W, rate: Nat]
    <3> HIDE DEF W
    <3> QED BY <2>2, MergePlannerAssumption
  <2>4. rates' \in Seq([workers: W, rate: Nat])
    <3> HIDE DEF W
    <3> QED BY <1>1, <2>1, <2>3, AppendProperties
  <2> QED BY <1>1, <2>2, <2>4
<1>8. IsMergePlan(merge', mergePlan')
  BY <1>1 DEF Apportioned, IsMergePlan
<1> HIDE DEF s, n, l, f, b
<1> QED
  BY <1>1, <1>2, <1>4, <1>6, <1>7, <1>8 DEF Apportioned, s, n

(* The favoured count is one that the memory feeds; what one stage has     *)
(* left is not given to the other.                                         *)
LEMMA MergeDataOverFits == Apportioned /\ MergeDataOver => Apportioned'
<1> SUFFICES ASSUME Apportioned, MergeDataOver PROVE Apportioned'
  OBVIOUS
<1> DEFINE s == SharePerSample(merge)
           n == MergeSteps(merge)
           f == IF merge.media = <<>> THEN 0 ELSE Len(FileCandidates(merge))
           d == NearPeak(rates, mergePlan.data)
           l == Len(candidates)
           m == Len(candidates')
<1>1. /\ merging = "data" /\ merging' = "files" /\ rates' = <<>>
      /\ mergePlan' = [mergePlan EXCEPT !.data = d]
      /\ candidates' = IF merge.media = <<>> \/ FileSample(merge) = 0 THEN <<>>
                       ELSE FileCandidates(merge)
      /\ UNCHANGED <<merge, sampledBytes>>
  BY DEF MergeDataOver
<1>2. /\ merge \in Merges /\ candidates \in Seq(Nat) /\ sampledBytes \in Nat
      /\ sampledBytes + s * (l + f) <= s * n /\ sampledBytes <= s * n
      /\ IsMergePlan(merge, mergePlan)
      /\ rates \in Seq([workers: 1 .. DataCap(merge), rate: Nat])
  BY <1>1 DEF Apportioned, MergeLeft
<1>3. s \in Nat /\ n \in Nat /\ f \in Nat /\ l \in Nat
  BY <1>2, ShareType, StepsType, LenProperties
<1>4. candidates' \in Seq(Nat) /\ m \in Nat /\ m <= f
  <2>1. CASE merge.media = <<>> \/ FileSample(merge) = 0
    <3>1. candidates' = <<>>
      BY <1>1, <2>1
    <3>2. candidates' \in Seq(Nat) /\ m = 0
      BY <3>1
    <3> HIDE DEF m, f
    <3> QED BY <1>3, <3>2
  <2>2. CASE ~(merge.media = <<>> \/ FileSample(merge) = 0)
    <3>1. candidates' = FileCandidates(merge) /\ f = Len(FileCandidates(merge))
      BY <1>1, <2>2
    <3>2. FileCandidates(merge) \in Seq(Nat)
      BY <1>2, FileCandidatesType
    <3>3. m = f
      BY <3>1
    <3> HIDE DEF m, f
    <3> QED BY <1>3, <3>1, <3>2, <3>3
  <2> QED BY <2>1, <2>2
<1>5. MergeLeft' = m
  <2>1. MergeLeft' = Len(candidates') + 0
    BY <1>1 DEF MergeLeft
  <2> HIDE DEF m
  <2> QED BY <1>4, <2>1 DEF m
<1>6. sampledBytes + s * MergeLeft' <= s * n
  <2> HIDE DEF s, n, f, l, m
  <2>1. l + f \in Nat /\ m <= l + f
    BY <1>3, <1>4
  <2>2. s * m <= s * (l + f) /\ s * m \in Nat /\ s * (l + f) \in Nat /\ s * n \in Nat
    BY <1>3, <1>4, <2>1, ShareTimes
  <2> DEFINE a == s * m
             b == s * (l + f)
             c == s * n
  <2>3. sampledBytes + a <= c
    <3>1. a <= b /\ a \in Nat /\ b \in Nat /\ c \in Nat /\ sampledBytes + b <= c
      BY <1>2, <2>2 DEF s, n, f, l
    <3> HIDE DEF a, b, c
    <3> QED BY <1>2, <3>1
  <2> QED BY <1>5, <2>3
<1>7. IsMergePlan(merge, mergePlan')
  <2>1. d \in 1 .. DataCap(merge)
    <3> DEFINE W == 1 .. DataCap(merge)
    <3>1. W \in SUBSET Nat
      BY <1>2, DataCapType
    <3>2. rates \in Seq([workers: W, rate: Nat]) /\ mergePlan.data \in W
      BY <1>2 DEF IsMergePlan
    <3>3. d \in W
      <4> HIDE DEF W
      <4> QED BY <3>1, <3>2, NearPeakType
    <3> QED BY <3>3
  <2> HIDE DEF d
  <2> QED BY <1>1, <1>2, <2>1 DEF IsMergePlan
<1> HIDE DEF s, n, l, f, d, m
<1>8. /\ merge' \in Merges /\ merging' = "files" /\ sampledBytes' \in Nat
      /\ candidates' \in Seq(Nat)
      /\ sampledBytes' <= SharePerSample(merge') * MergeSteps(merge')
  BY <1>1, <1>2, <1>4 DEF s, n
<1>9. sampledBytes' + SharePerSample(merge') * MergeLeft'
        <= SharePerSample(merge') * MergeSteps(merge')
  BY <1>1, <1>6 DEF s, n
<1>10. IsMergePlan(merge', mergePlan')
  BY <1>1, <1>7
<1> QED
  BY <1>8, <1>9, <1>10 DEF Apportioned

(* Batches are cut to the count that has been favoured.                    *)
LEMMA MergeFilesOverFits == Apportioned /\ MergeFilesOver => Apportioned'
<1> SUFFICES ASSUME Apportioned, MergeFilesOver PROVE Apportioned'
  OBVIOUS
<1> DEFINE d == mergePlan.data
           r == mergePlan.rows
           rows == BatchRows(merge, d, r)
<1>1. /\ merging = "files" /\ merging' = "calibrated"
      /\ mergePlan' = [mergePlan EXCEPT !.files = NearPeak(rates, @), !.rows = rows]
      /\ UNCHANGED <<merge, candidates, sampledBytes>>
  BY DEF MergeFilesOver, samplingVars
<1>2. merge \in Merges /\ IsMergePlan(merge, mergePlan)
  BY <1>1 DEF Apportioned
<1>3. d \in 1 .. DataCap(merge) /\ r \in Nat
  BY <1>2 DEF IsMergePlan
<1>4. RowsFit(merge, mergePlan')
  <2> HIDE DEF rows
  <2>1. mergePlan'.data = d /\ mergePlan'.rows = rows
    BY <1>1, <1>2 DEF IsMergePlan
  <2> QED BY <1>2, <1>3, <2>1, BatchFits DEF rows
<1> HIDE DEF d, r, rows
<1> QED
  BY <1>1, <1>4 DEF Apportioned, RowsFit

LEMMA ApportionedStep ==
  Apportioned /\ [MergePlannerNext]_mergePlannerVars => Apportioned'
<1> SUFFICES ASSUME Apportioned, [MergePlannerNext]_mergePlannerVars PROVE Apportioned'
  OBVIOUS
<1>1. CASE MergeRefuse
  BY <1>1 DEF MergeRefuse, samplingVars, Apportioned
<1>2. CASE MergeChoose
  <2>1. /\ merging = "request" /\ merging' = "lookup" /\ ~MergeInfeasible(merge)
        /\ mergePlan' = MergeHeuristic(merge)
        /\ UNCHANGED <<merge, candidates, rates, sampledBytes>>
    BY <1>2 DEF MergeChoose, samplingVars
  <2>2. merge \in Merges
    BY DEF Apportioned
  <2>3. IsMergePlan(merge', mergePlan') /\ RowsFit(merge', mergePlan')
    BY <2>1, <2>2, ChoiceFits
  <2> QED BY <2>1, <2>3 DEF Apportioned
<1>3. CASE MergeCacheHit
  BY <1>3 DEF MergeCacheHit, samplingVars, Apportioned
<1>4. CASE MergeKeep
  BY <1>4 DEF MergeKeep, samplingVars, Apportioned
<1>5. CASE MergeBeginSampling
  <2> DEFINE s == SharePerSample(merge)
             n == MergeSteps(merge)
             f == IF merge.media = <<>> THEN 0 ELSE Len(FileCandidates(merge))
             m == Len(candidates')
  <2>1. /\ merging = "lookup" /\ merging' = "data"
        /\ candidates' = IF DataSample(merge) = 0 THEN <<>> ELSE DataCandidates(merge)
        /\ UNCHANGED <<merge, mergePlan, rates, sampledBytes>>
    BY <1>5 DEF MergeBeginSampling
  <2>2. merge \in Merges /\ sampledBytes = 0 /\ rates = <<>>
        /\ IsMergePlan(merge, mergePlan)
    BY <2>1 DEF Apportioned
  <2>3. s \in Nat /\ n \in Nat /\ f \in Nat
        /\ n = Len(DataCandidates(merge)) + f /\ Len(DataCandidates(merge)) \in Nat
    BY <2>2, ShareType, StepsType
  <2>4. /\ candidates' \in Seq(1 .. DataCap(merge)) /\ candidates' \in Seq(Nat)
        /\ m \in Nat /\ m + f <= n
    <3>1. DataCandidates(merge) \in Seq(1 .. DataCap(merge))
      BY <2>2, DataCandidatesType
    <3>2. 1 .. DataCap(merge) \in SUBSET Nat
      BY <2>2, DataCapType
    <3>3. DataCandidates(merge) \in Seq(Nat)
      BY <3>1, <3>2, SeqMonotonic
    <3>4. <<>> \in Seq(1 .. DataCap(merge)) /\ <<>> \in Seq(Nat) /\ Len(<<>>) = 0
      OBVIOUS
    <3>5. m = 0 \/ m = Len(DataCandidates(merge))
      BY <2>1, <3>4
    <3>6. m \in Nat /\ m + f <= n
      <4> DEFINE all == Len(DataCandidates(merge))
      <4>1. m = 0 \/ m = all
        BY <3>5
      <4> HIDE DEF all, m, f, n
      <4> QED BY <2>3, <4>1 DEF all
    <3> HIDE DEF m, f, n
    <3> QED BY <2>1, <3>1, <3>3, <3>4, <3>6
  <2>5. MergeLeft' = m + f
    BY <2>1 DEF MergeLeft
  <2>6. s * (m + f) <= s * n /\ s * n \in Nat /\ s * (m + f) \in Nat
    <3> HIDE DEF s, m, f, n
    <3>1. m + f \in Nat /\ m + f <= n
      BY <2>3, <2>4
    <3> QED BY <2>3, <3>1, ShareTimes
  <2>7. sampledBytes' = 0 /\ 0 <= s * n /\ 0 + s * MergeLeft' <= s * n
    <3> HIDE DEF s, m, f, n
    <3> QED BY <2>1, <2>2, <2>5, <2>6
  <2>8. rates' \in Seq([workers: 1 .. DataCap(merge), rate: Nat])
    BY <2>1, <2>2
  <2> HIDE DEF s, m, f, n
  <2>9. /\ sampledBytes' <= SharePerSample(merge') * MergeSteps(merge')
        /\ sampledBytes' + SharePerSample(merge') * MergeLeft'
             <= SharePerSample(merge') * MergeSteps(merge')
    BY <2>1, <2>7 DEF s, n
  <2>10. /\ IsMergePlan(merge', mergePlan') /\ merge' \in Merges
         /\ candidates' \in Seq(1 .. DataCap(merge')) /\ candidates' \in Seq(Nat)
         /\ rates' \in Seq([workers: 1 .. DataCap(merge'), rate: Nat])
    BY <2>1, <2>2, <2>4, <2>8
  <2> QED BY <2>1, <2>7, <2>9, <2>10 DEF Apportioned
<1>6. ASSUME NEW rate \in MergeRates, NEW seconds \in MergeDurations,
             MergeMeasure(rate, seconds)
      PROVE  Apportioned'
  BY <1>6, MergeMeasureFits
<1>7. CASE MergeDataOver
  BY <1>7, MergeDataOverFits
<1>8. CASE MergeFilesOver
  BY <1>8, MergeFilesOverFits
<1>9. CASE MergeSave
  BY <1>9 DEF MergeSave, samplingVars, Apportioned
<1>10. CASE MergeNextRun
  <2> DEFINE whole == SharePerSample(merge') * MergeSteps(merge')
  <2>1. /\ merge' \in Merges /\ merging' = "request" /\ candidates' = <<>>
        /\ rates' = <<>> /\ sampledBytes' = 0
    BY <1>10 DEF MergeNextRun
  <2>2. SharePerSample(merge') \in Nat /\ MergeSteps(merge') \in Nat
    BY <2>1, ShareType, StepsType
  <2>3. whole \in Nat
    BY <2>2, ShareTimes
  <2>4. 0 <= whole /\ candidates' \in Seq(Nat)
    <3> HIDE DEF whole
    <3> QED BY <2>1, <2>3
  <2> QED BY <2>1, <2>4 DEF Apportioned
<1>11. CASE UNCHANGED mergePlannerVars
  BY <1>11 DEF mergePlannerVars, samplingVars, Apportioned, MergeLeft
<1> QED
  BY <1>1, <1>2, <1>3, <1>4, <1>5, <1>6, <1>7, <1>8, <1>9, <1>10, <1>11
     DEF MergePlannerNext

LEMMA ApportionedInvariance == MergePlannerSpec => []Apportioned
BY ApportionedInit, ApportionedStep, PTL DEF MergePlannerSpec

(* The samples of both stages of _calibrate_plan (merge.py) stay within    *)
(* the bytes given, if there is one for each of the ten counts that may be *)
(* tried.                                                                  *)
THEOREM MergeSamplingIsBoundedThm ==
  ASSUME MergeBytes >= 10
  PROVE  MergePlannerSpec => []MergeSamplingIsBounded
<1>1. Apportioned => MergeSamplingIsBounded
  <2> SUFFICES ASSUME Apportioned PROVE sampledBytes <= MergeBytes
    BY DEF MergeSamplingIsBounded
  <2> DEFINE n == MergeSteps(merge)
             part == MergeBytes \div n
  <2>1. merge \in Merges /\ sampledBytes \in Nat
        /\ sampledBytes <= SharePerSample(merge) * n
    BY DEF Apportioned
  <2>2. n \in 1 .. 10 /\ MergeBytes \in Nat
    BY <2>1, StepsType, MergePlannerAssumption
  <2>3. part \in Nat /\ n * part <= MergeBytes /\ 1 <= part
    <3> HIDE DEF n
    <3>1. n \in Nat \ {0} /\ n * 1 <= MergeBytes
      BY <2>2
    <3> QED BY <2>2, <3>1, Quotients
  <2>4. SharePerSample(merge) = part
    <3>1. SharePerSample(merge) = Max({1, part})
      BY DEF SharePerSample, MergeSteps
    <3> HIDE DEF part
    <3>2. Max({1, part}) = IF 1 >= part THEN 1 ELSE part
      BY <2>3, MaxOfTwo
    <3> QED BY <2>3, <3>1, <3>2
  <2> HIDE DEF n, part
  <2>5. part * n = n * part /\ n * part \in Nat
    BY <2>2, <2>3
  <2> QED BY <2>1, <2>2, <2>3, <2>4, <2>5
<1> QED
  BY <1>1, ApportionedInvariance, PTL

(* A plan that merge.py makes, heuristic or measured, has no more rows in  *)
(* hand than half of the memory holds, whatever the samples favour.        *)
THEOREM MadePlanFitsMemoryThm == MergePlannerSpec => []MadePlanFitsMemory
<1>1. Apportioned => MadePlanFitsMemory
  BY DEF Apportioned, MadePlanFitsMemory, RowsFit
<1> QED
  BY <1>1, ApportionedInvariance, PTL
=============================================================================
