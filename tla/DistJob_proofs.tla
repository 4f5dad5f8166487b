--------------------------- MODULE DistJob_proofs ---------------------------
(* Theorems about DistJob for every set of tasks and attempts and every    *)
(* value of the flags and bounds.                                          *)
EXTENDS DistJob, TLAPS

(* The trees the actions create are trees. *)
LEMMA FreshTree ==
  /\ Absent \in Tree /\ Foreign \in Tree
  /\ \A d \in {"partial", "holed", "full"} : Fresh(d) \in Tree
BY DEF Absent, Foreign, Fresh, Tree

(* Type correctness, by cases on the action. *)
THEOREM TypeCorrect == Spec => []TypeOK
<1>1. Init => TypeOK
  <2> SUFFICES ASSUME Init PROVE TypeOK
    OBVIOUS
  <2>1. part \in [Task -> {"none", "torn", "bare", "good"}]
    BY DEF Init
  <2>2. result \in [Task -> {"none", "stale", "good"}]
    <3>1. CASE Leftover
      BY <3>1 DEF Init
    <3>2. CASE ~Leftover
      BY <3>2 DEF Init
    <3> QED
      BY <3>1, <3>2
  <2>3. final \in Tree /\ dest \in Tree
    BY FreshTree DEF Init
  <2>4. kills \in 0..MaxKills /\ faults \in 0..MaxFaults
    BY JobAssumption DEF Init
  <2> QED
    BY <2>1, <2>2, <2>3, <2>4 DEF Init, TypeOK
<1>2. TypeOK /\ [Next]_vars => TypeOK'
  <2> SUFFICES ASSUME TypeOK, [Next]_vars PROVE TypeOK'
    OBVIOUS
  <2> USE JobAssumption DEF TypeOK, Steps, Go, Raise, AfterRaise,
         files, parts, trees, proc, counts, bounds
  <2>1. ASSUME NEW a \in Attempt, NEW t \in Task, Start(a, t) PROVE TypeOK'
    BY <2>1 DEF Start
  <2>2. ASSUME NEW a \in Attempt, StartFinalize(a) PROVE TypeOK'
    BY <2>2 DEF StartFinalize
  <2>3. ASSUME NEW a \in Attempt, Work(a) PROVE TypeOK'
    <3>1. CASE Convert(a)
      BY <3>1 DEF Convert
    <3>2. CASE ClearPart(a)
      BY <3>2 DEF ClearPart
    <3>3. CASE ClearedPart(a)
      BY <3>3 DEF ClearedPart
    <3>4. CASE SwapPart(a)
      BY <3>4 DEF SwapPart
    <3>5. CASE Commit(a)
      BY <3>5 DEF Commit
    <3>6. CASE RemoveError(a)
      BY <3>6 DEF RemoveError
    <3>7. CASE WriteError(a)
      BY <3>7 DEF WriteError
    <3>8. CASE Acquire(a)
      BY <3>8 DEF Acquire
    <3>9. CASE InspectReturn(a)
      BY <3>9 DEF InspectReturn
    <3>10. CASE InspectRecover(a)
      BY <3>10 DEF InspectRecover
    <3>11. CASE InspectReject(a)
      BY <3>11 DEF InspectReject
    <3>12. CASE InspectResume(a)
      BY <3>12 DEF InspectResume
    <3>13. CASE InspectBuild(a)
      BY <3>13, FreshTree DEF InspectBuild
    <3>14. ASSUME NEW t \in Task, ReadPart(a, t) PROVE TypeOK'
      BY <3>14 DEF ReadPart, Tree
    <3>15. CASE BuildDone(a)
      BY <3>15, FreshTree DEF BuildDone
    <3>16. CASE StampProvenance(a)
      BY <3>16 DEF StampProvenance, Tree
    <3>17. CASE RestoreStart(a)
      BY <3>17 DEF RestoreStart, Tree
    <3>18. CASE RestoreDone(a)
      BY <3>18 DEF RestoreDone, Tree
    <3>19. CASE ReplaceDestination(a)
      BY <3>19, FreshTree DEF ReplaceDestination
    <3>20. CASE RenameFinal(a)
      BY <3>20, FreshTree DEF RenameFinal
    <3>21. CASE MarkPublished(a)
      BY <3>21 DEF MarkPublished
    <3>22. CASE Leave(a)
      BY <3>22 DEF Leave
    <3>23. CASE CheckDestination(a)
      BY <3>23 DEF CheckDestination
    <3> QED
      BY <2>3, <3>1, <3>2, <3>3, <3>4, <3>5, <3>6, <3>7, <3>8, <3>9, <3>10,
         <3>11, <3>12, <3>13, <3>14, <3>15, <3>16, <3>17, <3>18, <3>19, <3>20,
         <3>21, <3>22, <3>23 DEF Work
  <2>4. ASSUME NEW a \in Attempt, Fault(a) PROVE TypeOK'
    BY <2>4 DEF Fault
  <2>5. ASSUME NEW a \in Attempt, Kill(a) PROVE TypeOK'
    BY <2>5 DEF Kill
  <2>6. CASE OutsiderCreates
    BY <2>6, FreshTree DEF OutsiderCreates
  <2>7. CASE UNCHANGED vars
    BY <2>7 DEF vars
  <2> QED
    BY <2>1, <2>2, <2>3, <2>4, <2>5, <2>6, <2>7 DEF Next
<1> QED
  BY <1>1, <1>2, PTL DEF Spec

-----------------------------------------------------------------------------
(* The inductive invariant.  Converting attempts work on a real task;      *)
(* whoever is past Acquire holds the lock, so the steps from Inspect to    *)
(* Leave belong to one attempt at a time; an attempt asks for the lock     *)
(* only after its own task has been committed.                             *)
Converting == {"convert", "clear", "clearing", "swap", "commit", "tidy",
               "record"}
Building == {"build", "stamp", "restore", "restoring", "publish", "replace",
             "rename"}
Holding == Building \cup {"inspect", "mark", "leave"}

Ownership ==
  /\ \A a \in Attempt : pc[a] = "idle" => task[a] = NoTask
  /\ \A a \in Attempt : pc[a] \in Converting => task[a] \in Task
  /\ \A a \in Attempt : pc[a] \in Holding => lock = a
  /\ \A a \in Attempt :
       pc[a] \in Holding \cup {"tidy", "lock"} /\ task[a] # NoTask
         => result[task[a]] = "good"
  /\ \A t \in done : result[t] = "good"

(* An attempt about to leave without having published saw a missing        *)
(* record, and that task has not succeeded: it will find the lock free.    *)
SomeoneRemains ==
  /\ done = Task => published
  /\ \A a \in Attempt : pc[a] = "leave" =>
       published \/ \E t \in Task : t \notin done /\ t # task[a]

(* What the tree being built has to be at each step of the lock holder.    *)
(* A torn part can reach it only when nothing is validated and a single    *)
(* part is copied.                                                         *)
Checked == Validate \/ ~SinglePart

TreesInStep ==
  /\ final.prov => final.data = "full"
  /\ dest = Absent \/ dest = Foreign \/ JobOutput(dest)
  /\ published => JobOutput(dest)
  /\ \A a \in Attempt :
       /\ pc[a] \in Building => /\ ~published
                                /\ dest \in {Absent, Foreign}
                                /\ ResultsMatch
       /\ pc[a] = "build" => ~final.prov
       /\ pc[a] = "stamp" => final = Fresh("full")
       /\ pc[a] \in Building \ {"build", "stamp"} => final.prov
       /\ pc[a] \in {"publish", "replace", "rename"}
            => final.stats = "source"
       /\ pc[a] = "mark" => JobOutput(dest)

(* Ownership is preserved by every step of a well-typed state. *)
LEMMA OwnershipStep ==
  ASSUME TypeOK, Ownership, [Next]_vars
  PROVE  Ownership'
<1> USE JobAssumption DEF TypeOK, Steps, Converting, Building, Holding,
         Ownership, Go, Raise, AfterRaise,
         files, parts, trees, proc, counts, bounds
<1>1. ASSUME NEW a \in Attempt, NEW t \in Task, Start(a, t) PROVE Ownership'
  BY <1>1 DEF Start
<1>2. ASSUME NEW a \in Attempt, StartFinalize(a) PROVE Ownership'
  BY <1>2 DEF StartFinalize
<1>3. ASSUME NEW a \in Attempt, Work(a) PROVE Ownership'
  <2>1. CASE Convert(a)
    BY <2>1 DEF Convert
  <2>2. CASE ClearPart(a)
    BY <2>2 DEF ClearPart
  <2>3. CASE ClearedPart(a)
    BY <2>3 DEF ClearedPart
  <2>4. CASE SwapPart(a)
    BY <2>4 DEF SwapPart
  <2>5. CASE Commit(a)
    BY <2>5 DEF Commit
  <2>6. CASE RemoveError(a)
    BY <2>6 DEF RemoveError
  <2>7. CASE WriteError(a)
    BY <2>7 DEF WriteError
  <2>8. CASE Acquire(a)
    BY <2>8 DEF Acquire
  <2>9. CASE InspectReturn(a)
    BY <2>9 DEF InspectReturn
  <2>10. CASE InspectRecover(a)
    BY <2>10 DEF InspectRecover
  <2>11. CASE InspectReject(a)
    BY <2>11 DEF InspectReject
  <2>12. CASE InspectResume(a)
    BY <2>12 DEF InspectResume
  <2>13. CASE InspectBuild(a)
    BY <2>13 DEF InspectBuild
  <2>14. ASSUME NEW t \in Task, ReadPart(a, t) PROVE Ownership'
    BY <2>14 DEF ReadPart
  <2>15. CASE BuildDone(a)
    BY <2>15 DEF BuildDone
  <2>16. CASE StampProvenance(a)
    BY <2>16 DEF StampProvenance
  <2>17. CASE RestoreStart(a)
    BY <2>17 DEF RestoreStart
  <2>18. CASE RestoreDone(a)
    BY <2>18 DEF RestoreDone
  <2>19. CASE ReplaceDestination(a)
    BY <2>19 DEF ReplaceDestination
  <2>20. CASE RenameFinal(a)
    BY <2>20 DEF RenameFinal
  <2>21. CASE MarkPublished(a)
    BY <2>21 DEF MarkPublished
  <2>22. CASE Leave(a)
    BY <2>22 DEF Leave
  <2>23. CASE CheckDestination(a)
    BY <2>23 DEF CheckDestination
  <2> QED
    BY <1>3, <2>1, <2>2, <2>3, <2>4, <2>5, <2>6, <2>7, <2>8, <2>9, <2>10, <2>11,
       <2>12, <2>13, <2>14, <2>15, <2>16, <2>17, <2>18, <2>19, <2>20, <2>21, <2>22,
       <2>23 DEF Work
<1>4. ASSUME NEW a \in Attempt, Fault(a) PROVE Ownership'
  BY <1>4 DEF Fault
<1>5. ASSUME NEW a \in Attempt, Kill(a) PROVE Ownership'
  BY <1>5 DEF Kill
<1>6. CASE OutsiderCreates
  BY <1>6 DEF OutsiderCreates
<1>7. CASE UNCHANGED vars
  BY <1>7 DEF vars
<1> QED
  BY <1>1, <1>2, <1>3, <1>4, <1>5, <1>6, <1>7 DEF Next

(* SomeoneRemains is preserved as well; only InspectReturn and Leave need  *)
(* an argument.                                                            *)
LEMMA SomeoneRemainsStep ==
  ASSUME TypeOK, Ownership, SomeoneRemains, [Next]_vars
  PROVE  SomeoneRemains'
<1> USE JobAssumption DEF TypeOK, Steps, Building, Holding, Ownership,
         SomeoneRemains, Go, Raise, AfterRaise,
         files, parts, trees, proc, counts, bounds
<1>1. ASSUME NEW a \in Attempt, NEW t \in Task, Start(a, t) PROVE SomeoneRemains'
  BY <1>1 DEF Start
<1>2. ASSUME NEW a \in Attempt, StartFinalize(a) PROVE SomeoneRemains'
  BY <1>2 DEF StartFinalize
<1>3. ASSUME NEW a \in Attempt, Work(a) PROVE SomeoneRemains'
  <2>1. CASE Convert(a)
    BY <2>1 DEF Convert
  <2>2. CASE ClearPart(a)
    BY <2>2 DEF ClearPart
  <2>3. CASE ClearedPart(a)
    BY <2>3 DEF ClearedPart
  <2>4. CASE SwapPart(a)
    BY <2>4 DEF SwapPart
  <2>5. CASE Commit(a)
    BY <2>5 DEF Commit
  <2>6. CASE RemoveError(a)
    BY <2>6 DEF RemoveError
  <2>7. CASE WriteError(a)
    BY <2>7 DEF WriteError
  <2>8. CASE Acquire(a)
    BY <2>8 DEF Acquire
  <2>9. CASE InspectReturn(a)
    BY <2>9 DEF InspectReturn, Pending, AllCommitted
  <2>10. CASE InspectRecover(a)
    BY <2>10 DEF InspectRecover
  <2>11. CASE InspectReject(a)
    BY <2>11 DEF InspectReject
  <2>12. CASE InspectResume(a)
    BY <2>12 DEF InspectResume
  <2>13. CASE InspectBuild(a)
    BY <2>13 DEF InspectBuild
  <2>14. ASSUME NEW t \in Task, ReadPart(a, t) PROVE SomeoneRemains'
    BY <2>14 DEF ReadPart
  <2>15. CASE BuildDone(a)
    BY <2>15 DEF BuildDone
  <2>16. CASE StampProvenance(a)
    BY <2>16 DEF StampProvenance
  <2>17. CASE RestoreStart(a)
    BY <2>17 DEF RestoreStart
  <2>18. CASE RestoreDone(a)
    BY <2>18 DEF RestoreDone
  <2>19. CASE ReplaceDestination(a)
    BY <2>19 DEF ReplaceDestination
  <2>20. CASE RenameFinal(a)
    BY <2>20 DEF RenameFinal
  <2>21. CASE MarkPublished(a)
    BY <2>21 DEF MarkPublished
  <2>22. CASE Leave(a)
    BY <2>22 DEF Leave
  <2>23. CASE CheckDestination(a)
    BY <2>23 DEF CheckDestination
  <2> QED
    BY <1>3, <2>1, <2>2, <2>3, <2>4, <2>5, <2>6, <2>7, <2>8, <2>9, <2>10, <2>11,
       <2>12, <2>13, <2>14, <2>15, <2>16, <2>17, <2>18, <2>19, <2>20, <2>21, <2>22,
       <2>23 DEF Work
<1>4. ASSUME NEW a \in Attempt, Fault(a) PROVE SomeoneRemains'
  BY <1>4 DEF Fault
<1>5. ASSUME NEW a \in Attempt, Kill(a) PROVE SomeoneRemains'
  BY <1>5 DEF Kill
<1>6. CASE OutsiderCreates
  BY <1>6 DEF OutsiderCreates
<1>7. CASE UNCHANGED vars
  BY <1>7 DEF vars
<1> QED
  BY <1>1, <1>2, <1>3, <1>4, <1>5, <1>6, <1>7 DEF Next

(* TreesInStep is preserved when a torn part cannot be copied unnoticed.   *)
LEMMA TreesStep ==
  ASSUME Checked, TypeOK, Ownership, TreesInStep, [Next]_vars
  PROVE  TreesInStep'
<1> USE DEF TypeOK, Steps, Tree, Building, Holding, Ownership, TreesInStep,
       Exists, JobOutput, Fresh, Absent, Foreign, HasProvenance, ResultsMatch,
       Go, Raise, AfterRaise,
         files, parts, trees, proc, counts, bounds
<1>1. ASSUME NEW a \in Attempt, NEW t \in Task, Start(a, t) PROVE TreesInStep'
  BY <1>1 DEF Start
<1>2. ASSUME NEW a \in Attempt, StartFinalize(a) PROVE TreesInStep'
  BY <1>2 DEF StartFinalize
<1>3. ASSUME NEW a \in Attempt, Work(a) PROVE TreesInStep'
  <2>1. CASE Convert(a)
    BY <2>1 DEF Convert
  <2>2. CASE ClearPart(a)
    BY <2>2 DEF ClearPart
  <2>3. CASE ClearedPart(a)
    BY <2>3 DEF ClearedPart
  <2>4. CASE SwapPart(a)
    BY <2>4 DEF SwapPart
  <2>5. CASE Commit(a)
    BY <2>5 DEF Commit
  <2>6. CASE RemoveError(a)
    BY <2>6 DEF RemoveError
  <2>7. CASE WriteError(a)
    BY <2>7 DEF WriteError
  <2>8. CASE Acquire(a)
    BY <2>8 DEF Acquire
  <2>9. CASE InspectReturn(a)
    BY <2>9 DEF InspectReturn
  <2>10. CASE InspectRecover(a)
    BY <2>10 DEF InspectRecover, Pending, Recovered
  <2>11. CASE InspectReject(a)
    BY <2>11 DEF InspectReject
  <2>12. CASE InspectResume(a)
    BY <2>12 DEF InspectResume, Resumable, Pending, Recovered, Acceptable
  <2>13. CASE InspectBuild(a)
    BY <2>13 DEF InspectBuild, Resumable, Pending, Recovered, Acceptable
  <2>14. ASSUME NEW t \in Task, ReadPart(a, t) PROVE TreesInStep'
    BY <2>14 DEF ReadPart
  <2>15. CASE BuildDone(a)
    <3>1. final' \in {Fresh("holed"), Fresh("full")}
      BY <2>15 DEF BuildDone
    <3>2. FinalIsValid(final') => final' = Fresh("full")
      BY <2>15, <3>1 DEF BuildDone, Checked, FinalIsValid
    <3> QED
      BY <2>15, <3>1, <3>2 DEF BuildDone
  <2>16. CASE StampProvenance(a)
    BY <2>16 DEF StampProvenance
  <2>17. CASE RestoreStart(a)
    BY <2>17 DEF RestoreStart
  <2>18. CASE RestoreDone(a)
    BY <2>18 DEF RestoreDone
  <2>19. CASE ReplaceDestination(a)
    BY <2>19 DEF ReplaceDestination
  <2>20. CASE RenameFinal(a)
    BY <2>20 DEF RenameFinal
  <2>21. CASE MarkPublished(a)
    BY <2>21 DEF MarkPublished
  <2>22. CASE Leave(a)
    BY <2>22 DEF Leave
  <2>23. CASE CheckDestination(a)
    BY <2>23 DEF CheckDestination
  <2> QED
    BY <1>3, <2>1, <2>2, <2>3, <2>4, <2>5, <2>6, <2>7, <2>8, <2>9, <2>10, <2>11,
       <2>12, <2>13, <2>14, <2>15, <2>16, <2>17, <2>18, <2>19, <2>20, <2>21, <2>22,
       <2>23 DEF Work
<1>4. ASSUME NEW a \in Attempt, Fault(a) PROVE TreesInStep'
  BY <1>4 DEF Fault
<1>5. ASSUME NEW a \in Attempt, Kill(a) PROVE TreesInStep'
  BY <1>5 DEF Kill
<1>6. CASE OutsiderCreates
  BY <1>6 DEF OutsiderCreates
<1>7. CASE UNCHANGED vars
  BY <1>7 DEF vars
<1> QED
  BY <1>1, <1>2, <1>3, <1>4, <1>5, <1>6, <1>7 DEF Next

-----------------------------------------------------------------------------
(* No finished job is left unpublished: when every task has had a          *)
(* successful attempt, one of those attempts published.  Without the lock  *)
(* around the count of result records this would fail.                     *)
THEOREM LastWorkerPublishesThm == Spec => []LastWorkerPublishes
<1>1. Init => Ownership /\ SomeoneRemains
  BY JobAssumption DEF Init, Ownership, SomeoneRemains, Converting, Building,
                       Holding
<1>2. TypeOK /\ Ownership /\ SomeoneRemains /\ [Next]_vars
        => Ownership' /\ SomeoneRemains'
  BY OwnershipStep, SomeoneRemainsStep
<1>3. SomeoneRemains => LastWorkerPublishes
  BY DEF SomeoneRemains, LastWorkerPublishes
<1> QED
  BY <1>1, <1>2, <1>3, TypeCorrect, PTL DEF Spec

(* The invariants every later theorem rests on. *)
LEMMA Invariance ==
  ASSUME Checked
  PROVE  Spec => [](TypeOK /\ Ownership /\ TreesInStep)
<1>1. Init => Ownership
  BY DEF Init, Ownership, Converting, Building, Holding
<1>2. Init => TreesInStep
  BY DEF Init, TreesInStep, Building, Absent, Foreign, Fresh
<1>3. TypeOK /\ Ownership /\ TreesInStep /\ [Next]_vars
        => Ownership' /\ TreesInStep'
  BY OwnershipStep, TreesStep
<1> QED
  BY <1>1, <1>2, <1>3, TypeCorrect, PTL DEF Spec

(* published.json never exists without the whole dataset at the            *)
(* destination, provided parts are validated or there are several of them. *)
THEOREM PublishedIsCompleteThm ==
  ASSUME Checked
  PROVE  Spec => []PublishedIsComplete
<1>1. TreesInStep => PublishedIsComplete
  BY DEF TreesInStep, PublishedIsComplete
<1> QED
  BY <1>1, Invariance, PTL

(* The steps that change what the submitter can see: a commit, the steps   *)
(* of the lock holder at the destination, and another program.             *)
Visible == <<result, dest, published>>

LEMMA VisibleStep ==
  ASSUME [Next]_vars
  PROVE  \/ UNCHANGED Visible
         \/ OutsiderCreates
         \/ \E a \in Attempt : \/ Commit(a) \/ ReplaceDestination(a)
                               \/ RenameFinal(a) \/ MarkPublished(a)
<1> USE DEF files, trees, parts, Visible
<1>1. ASSUME NEW a \in Attempt, NEW t \in Task, Start(a, t)
      PROVE  UNCHANGED Visible
  BY <1>1 DEF Start
<1>2. ASSUME NEW a \in Attempt, StartFinalize(a) PROVE UNCHANGED Visible
  BY <1>2 DEF StartFinalize
<1>3. ASSUME NEW a \in Attempt, Work(a), ~Commit(a), ~MarkPublished(a),
             ~ReplaceDestination(a), ~RenameFinal(a)
      PROVE  UNCHANGED Visible
  BY <1>3 DEF Work, Convert, ClearPart, ClearedPart, SwapPart, RemoveError,
       WriteError, Acquire, InspectReturn, InspectRecover, InspectReject,
       InspectResume, InspectBuild, ReadPart, BuildDone, StampProvenance,
       RestoreStart, RestoreDone, CheckDestination, Leave
<1>4. ASSUME NEW a \in Attempt, Fault(a) \/ Kill(a) PROVE UNCHANGED Visible
  BY <1>4 DEF Fault, Kill
<1>5. CASE UNCHANGED vars
  BY <1>5 DEF vars
<1> QED
  BY <1>1, <1>2, <1>3, <1>4, <1>5 DEF Next

(* Only the check of the destination leads to the gap before the removal,  *)
(* and it leaves the files alone.                                          *)
LEMMA UnguardedStep ==
  ASSUME TypeOK, [Next]_vars
  PROVE  \/ Unguarded' => Unguarded
         \/ \E a \in Attempt : CheckDestination(a)
<1> USE DEF TypeOK, Unguarded, Go, Raise, AfterRaise
<1>1. ASSUME NEW a \in Attempt, NEW t \in Task, Start(a, t)
      PROVE  Unguarded' => Unguarded
  BY <1>1 DEF Start
<1>2. ASSUME NEW a \in Attempt, StartFinalize(a)
      PROVE  Unguarded' => Unguarded
  BY <1>2 DEF StartFinalize
<1>3. ASSUME NEW a \in Attempt, Work(a), ~CheckDestination(a)
      PROVE  Unguarded' => Unguarded
  <2>1. CASE \/ Convert(a) \/ ClearPart(a) \/ ClearedPart(a)
             \/ SwapPart(a) \/ Commit(a) \/ RemoveError(a) \/ WriteError(a)
    BY <2>1 DEF Convert, ClearPart, ClearedPart, SwapPart, Commit,
                RemoveError, WriteError
  <2>2. CASE \/ Acquire(a) \/ InspectReturn(a) \/ InspectRecover(a)
             \/ InspectReject(a) \/ InspectResume(a) \/ InspectBuild(a)
    BY <2>2 DEF Acquire, InspectReturn, InspectRecover, InspectReject,
                InspectResume, InspectBuild
  <2>3. ASSUME NEW t \in Task, ReadPart(a, t)
        PROVE  Unguarded' => Unguarded
    BY <2>3 DEF ReadPart
  <2>4. CASE \/ BuildDone(a) \/ StampProvenance(a) \/ RestoreStart(a)
             \/ RestoreDone(a)
    BY <2>4 DEF BuildDone, StampProvenance, RestoreStart, RestoreDone
  <2>5. CASE \/ ReplaceDestination(a) \/ RenameFinal(a) \/ MarkPublished(a)
             \/ Leave(a)
    BY <2>5 DEF ReplaceDestination, RenameFinal, MarkPublished, Leave
  <2> QED
    BY <1>3, <2>1, <2>2, <2>3, <2>4, <2>5 DEF Work
<1>4. ASSUME NEW a \in Attempt, Fault(a) \/ Kill(a)
      PROVE  Unguarded' => Unguarded
  BY <1>4 DEF Fault, Kill
<1>5. CASE OutsiderCreates \/ UNCHANGED vars
  BY <1>5 DEF OutsiderCreates, vars
<1> QED
  BY <1>1, <1>2, <1>3, <1>4, <1>5 DEF Next

(* A destination of somebody else that is there when nobody is between the *)
(* check and the removal stays for good without overwrite.                 *)
THEOREM ForeignOutputIsSafeThm == Spec => ForeignOutputIsSafe
<1>1. TypeOK /\ [Next]_vars
        => [~Overwrite /\ dest = Foreign /\ ~Unguarded
              => dest' = dest /\ ~Unguarded']_vars
  <2> SUFFICES ASSUME TypeOK, [Next]_vars, ~Overwrite, dest = Foreign,
                      ~Unguarded
               PROVE  dest' = dest /\ ~Unguarded'
    OBVIOUS
  <2>1. Exists(dest)
    BY DEF Exists, Foreign, Fresh
  <2>2. ASSUME NEW a \in Attempt, CheckDestination(a) PROVE ~Unguarded'
    BY <2>1, <2>2 DEF CheckDestination, MayReplace, Raise, AfterRaise,
                      Unguarded, TypeOK
  <2>3. ~Unguarded'
    BY <2>2, UnguardedStep
  <2>4. ASSUME NEW a \in Attempt PROVE ~ReplaceDestination(a)
    BY DEF ReplaceDestination, Go, Unguarded
  <2> QED
    BY <2>1, <2>3, <2>4, VisibleStep
       DEF Visible, OutsiderCreates, Commit, MarkPublished, RenameFinal,
           parts, trees
<1> QED
  BY <1>1, TypeCorrect, PTL DEF Spec, ForeignOutputIsSafe

(* Once at the destination, the finished dataset stays there: recovering   *)
(* and duplicate finalizers recognise it by its provenance.                *)
THEOREM OutputIsNeverWithdrawnThm ==
  ASSUME Checked
  PROVE  Spec => OutputIsNeverWithdrawn
<1>1. TypeOK /\ Ownership /\ TreesInStep /\ [Next]_vars
        => [JobOutput(dest) => dest' = dest]_vars
  <2> SUFFICES ASSUME TypeOK, TreesInStep, [Next]_vars, JobOutput(dest)
               PROVE  dest' = dest
    OBVIOUS
  <2>1. Exists(dest) /\ dest \notin {Absent, Foreign}
    BY DEF Exists, JobOutput, Absent, Foreign, Fresh
  <2>2. ASSUME NEW a \in Attempt, ReplaceDestination(a) \/ RenameFinal(a)
        PROVE  FALSE
    BY <2>1, <2>2 DEF ReplaceDestination, RenameFinal, Go, TreesInStep,
                      Building
  <2> QED
    BY <2>1, <2>2, VisibleStep DEF Visible, OutsiderCreates, Commit,
                                    MarkPublished, parts, trees
<1> QED
  BY <1>1, Invariance, PTL DEF Spec, OutputIsNeverWithdrawn

(* A step that leaves the files alone and passes no check is a stutter of  *)
(* the abstract job, or forgets the last look at the destination.          *)
LEMMA UnchangedOrForgotten ==
  ASSUME UNCHANGED Visible, Unguarded' => Unguarded
  PROVE  Abs!Next \/ UNCHANGED Abs!absVars
BY DEF Visible, JobOutput, Unguarded, Abs!Forget, Abs!Next, Abs!absVars

(* The workers implement the job of DistJobAbs: every step is a step of    *)
(* the abstract job or leaves what the submitter sees unchanged.           *)
THEOREM Implementation ==
  ASSUME Checked
  PROVE  Spec => ImplementsJob
<1> USE DEF JobOutput, Absent, Foreign, Fresh, parts, trees, MayReplace
<1>1. Init => Abs!Init
  BY DEF Init, Abs!Init, Unguarded
<1>2. TypeOK /\ Ownership /\ TreesInStep /\ [Next]_vars
        => [Abs!Next]_(Abs!absVars)
  <2> SUFFICES ASSUME TypeOK, Ownership, TreesInStep, [Next]_vars
               PROVE  Abs!Next \/ UNCHANGED Abs!absVars
    OBVIOUS
  <2> USE DEF TreesInStep, Building
  <2>1. ASSUME NEW a \in Attempt, Commit(a) PROVE Abs!Next
    <3>1. PICK t \in Task : t = task[a]
      BY <2>1 DEF Commit, Go, Ownership, Converting
    <3>2. Unguarded' = Unguarded
      BY <2>1 DEF Commit, Go, Unguarded, TypeOK
    <3>3. Abs!Commit(t)
      BY <2>1, <3>1, <3>2 DEF Commit, TypeOK, Abs!Commit
    <3> QED
      BY <3>1, <3>3 DEF Abs!Next
  <2>2. ASSUME NEW a \in Attempt, CheckDestination(a)
        PROVE  Abs!Next \/ UNCHANGED Abs!absVars
    <3>1. \A t \in Task : result[t] = "good"
      BY <2>2 DEF CheckDestination, ResultsMatch
    <3>2. UNCHANGED Visible
      BY <2>2 DEF CheckDestination, Visible, files
    <3>3. CASE MayReplace
      <4>1. dest # Foreign \/ Overwrite
        BY <3>3 DEF Exists
      <4>2. Unguarded'
        BY <2>2, <3>3 DEF CheckDestination, Unguarded, TypeOK
      <4>3. dest = Absent \/ dest = Foreign
        BY <2>2 DEF CheckDestination
      <4> QED
        BY <3>1, <3>2, <4>1, <4>2, <4>3 DEF Visible, Abs!Look, Abs!Next
    <3>4. CASE ~MayReplace
      <4>1. Unguarded' => Unguarded
        BY <2>2, <3>4 DEF CheckDestination, Raise, AfterRaise, Unguarded,
                          TypeOK
      <4> QED
        BY <3>2, <4>1, UnchangedOrForgotten
    <3> QED
      BY <3>3, <3>4
  <2>3. ASSUME NEW a \in Attempt, ReplaceDestination(a)
        PROVE  Abs!Next \/ UNCHANGED Abs!absVars
    <3>1. Unguarded /\ ~Unguarded'
      BY <2>3 DEF ReplaceDestination, Go, Unguarded, TypeOK, Ownership,
                  Holding
    <3>2. dest = Absent \/ dest = Foreign
      BY <2>3 DEF ReplaceDestination, Go
    <3>3. CASE dest = Absent
      <4>1. UNCHANGED Visible
        BY <2>3, <3>3 DEF ReplaceDestination, Visible
      <4> QED
        BY <3>1, <4>1, UnchangedOrForgotten
    <3>4. CASE dest = Foreign
      BY <2>3, <3>1, <3>4 DEF ReplaceDestination, Abs!Evict, Abs!Next
    <3> QED
      BY <3>2, <3>3, <3>4
  <2>4. ASSUME NEW a \in Attempt, RenameFinal(a)
        PROVE  Abs!Next \/ UNCHANGED Abs!absVars
    <3>1. /\ dest \in {Absent, Foreign}
          /\ \A t \in Task : result[t] = "good"
          /\ JobOutput(final)
      BY <2>4 DEF RenameFinal, ResultsMatch, TypeOK, Tree
    <3>2. CASE Exists(dest)
      <4>1. UNCHANGED Visible
        BY <2>4, <3>2 DEF RenameFinal, Visible
      <4>2. Unguarded' => Unguarded
        BY <2>4, <3>2 DEF RenameFinal, Raise, AfterRaise, Unguarded, TypeOK
      <4> QED
        BY <4>1, <4>2, UnchangedOrForgotten
    <3>3. CASE ~Exists(dest)
      <4>1. dest = Absent /\ dest' = final
        BY <2>4, <3>1, <3>3 DEF RenameFinal, Exists
      <4>2. Unguarded' = Unguarded
        BY <2>4, <3>3 DEF RenameFinal, Unguarded, TypeOK
      <4> QED
        BY <2>4, <3>1, <3>3, <4>1, <4>2 DEF RenameFinal, Abs!Publish, Abs!Next
    <3> QED
      BY <3>2, <3>3
  <2>5. ASSUME NEW a \in Attempt, MarkPublished(a) PROVE Abs!Next
    <3>1. Unguarded' = Unguarded
      BY <2>5 DEF MarkPublished, Go, Unguarded, TypeOK
    <3> QED
      BY <2>5, <3>1 DEF MarkPublished, Go, Abs!Acknowledge, Abs!Next
  <2>6. CASE OutsiderCreates
    <3>1. dest = Absent
      BY <2>6 DEF OutsiderCreates, Exists
    <3>2. Unguarded' = Unguarded
      BY <2>6 DEF OutsiderCreates, Unguarded
    <3> QED
      BY <2>6, <3>1, <3>2 DEF OutsiderCreates, Abs!Occupy, Abs!Next
  <2>7. CASE UNCHANGED Visible /\ (Unguarded' => Unguarded)
    BY <2>7, UnchangedOrForgotten
  <2> QED
    BY <2>1, <2>2, <2>3, <2>4, <2>5, <2>6, <2>7, VisibleStep, UnguardedStep
<1> QED
  BY <1>1, <1>2, Invariance, PTL DEF Spec, ImplementsJob, Abs!Spec
-----------------------------------------------------------------------------
(* Duplicate attempts remove and replace one part under each other.  With  *)
(* nothing killed and no exception from outside, ...                       *)
Calm == kills = 0 /\ faults = 0

(* ... a part that is being removed has a remover at work, and one that is *)
(* missing although an attempt has put it there is about to be put back.   *)
At(t, step) == \E a \in Attempt : task[a] = t /\ pc[a] = step

PartsInHand ==
  \A t \in Task :
    /\ part[t] \in {"torn", "bare"} => At(t, "clearing")
    /\ part[t] = "none" /\ (result[t] = "good" \/ At(t, "commit"))
         => At(t, "swap")

(* Only an attempt that has seen the part whole, missing or in the hands   *)
(* of another remover turns away from it.                                  *)
LEMMA PartsStep ==
  ASSUME TypeOK, Ownership, Calm, PartsInHand, [Next]_vars, Calm'
  PROVE  PartsInHand'
<1> USE JobAssumption DEF TypeOK, Steps, Building, Holding, Converting, Ownership,
         PartsInHand, At, Calm, Go, Raise, AfterRaise,
         files, parts, trees, proc, counts, bounds
<1>1. ASSUME NEW a \in Attempt, NEW t \in Task, Start(a, t) PROVE PartsInHand'
  BY <1>1 DEF Start
<1>2. ASSUME NEW a \in Attempt, StartFinalize(a) PROVE PartsInHand'
  BY <1>2 DEF StartFinalize
<1>3. ASSUME NEW a \in Attempt, Work(a) PROVE PartsInHand'
  <2>1. CASE Convert(a)
    BY <2>1 DEF Convert
  <2>2. CASE ClearPart(a)
    BY <2>2 DEF ClearPart
  <2>3. CASE ClearedPart(a)
    BY <2>3 DEF ClearedPart, Live
  <2>4. CASE SwapPart(a)
    BY <2>4 DEF SwapPart
  <2>5. CASE Commit(a)
    BY <2>5 DEF Commit
  <2>6. CASE RemoveError(a)
    BY <2>6 DEF RemoveError
  <2>7. CASE WriteError(a)
    BY <2>7 DEF WriteError
  <2>8. CASE Acquire(a)
    BY <2>8 DEF Acquire
  <2>9. CASE InspectReturn(a)
    BY <2>9 DEF InspectReturn
  <2>10. CASE InspectRecover(a)
    BY <2>10 DEF InspectRecover
  <2>11. CASE InspectReject(a)
    BY <2>11 DEF InspectReject
  <2>12. CASE InspectResume(a)
    BY <2>12 DEF InspectResume
  <2>13. CASE InspectBuild(a)
    BY <2>13 DEF InspectBuild
  <2>14. ASSUME NEW t \in Task, ReadPart(a, t) PROVE PartsInHand'
    BY <2>14 DEF ReadPart
  <2>15. CASE BuildDone(a)
    BY <2>15 DEF BuildDone
  <2>16. CASE StampProvenance(a)
    BY <2>16 DEF StampProvenance
  <2>17. CASE RestoreStart(a)
    BY <2>17 DEF RestoreStart
  <2>18. CASE RestoreDone(a)
    BY <2>18 DEF RestoreDone
  <2>19. CASE ReplaceDestination(a)
    BY <2>19 DEF ReplaceDestination
  <2>20. CASE RenameFinal(a)
    BY <2>20 DEF RenameFinal
  <2>21. CASE MarkPublished(a)
    BY <2>21 DEF MarkPublished
  <2>22. CASE Leave(a)
    BY <2>22 DEF Leave
  <2>23. CASE CheckDestination(a)
    BY <2>23 DEF CheckDestination
  <2> QED
    BY <1>3, <2>1, <2>2, <2>3, <2>4, <2>5, <2>6, <2>7, <2>8, <2>9, <2>10, <2>11,
       <2>12, <2>13, <2>14, <2>15, <2>16, <2>17, <2>18, <2>19, <2>20, <2>21, <2>22,
       <2>23 DEF Work
<1>4. ASSUME NEW a \in Attempt, Fault(a) PROVE PartsInHand'
  BY <1>4 DEF Fault
<1>5. ASSUME NEW a \in Attempt, Kill(a) PROVE PartsInHand'
  BY <1>5 DEF Kill
<1>6. CASE OutsiderCreates
  BY <1>6 DEF OutsiderCreates
<1>7. CASE UNCHANGED vars
  BY <1>7 DEF vars
<1> QED
  BY <1>1, <1>2, <1>3, <1>4, <1>5, <1>6, <1>7 DEF Next


(* What has been killed or has raised stays so. *)
LEMMA CalmBefore ==
  ASSUME TypeOK, [Next]_vars, Calm'
  PROVE  Calm
<1> USE DEF TypeOK, Calm, counts, bounds
<1>1. ASSUME NEW a \in Attempt, NEW t \in Task, Start(a, t) PROVE Calm
  BY <1>1 DEF Start
<1>2. ASSUME NEW a \in Attempt, StartFinalize(a) PROVE Calm
  BY <1>2 DEF StartFinalize
<1>3. ASSUME NEW a \in Attempt, Work(a) PROVE Calm
  BY <1>3 DEF Work, Convert, ClearPart, ClearedPart, SwapPart, Commit,
       RemoveError, WriteError, Acquire, InspectReturn, InspectRecover,
       InspectReject, InspectResume, InspectBuild, ReadPart, BuildDone,
       StampProvenance, RestoreStart, RestoreDone, CheckDestination,
       ReplaceDestination, RenameFinal, MarkPublished, Leave
<1>4. ASSUME NEW a \in Attempt, Fault(a) \/ Kill(a) PROVE Calm
  BY <1>4 DEF Fault, Kill
<1>5. CASE OutsiderCreates
  BY <1>5 DEF OutsiderCreates
<1>6. CASE UNCHANGED vars
  BY <1>6 DEF vars
<1> QED
  BY <1>1, <1>2, <1>3, <1>4, <1>5, <1>6 DEF Next

(* Finished tasks survive duplicate attempts: once no attempt of a         *)
(* committed task is running, its part is whole.                           *)
THEOREM QuietPartsAreWholeThm == Spec => []QuietPartsAreWhole
<1>1. Init => Ownership /\ (Calm => PartsInHand)
  BY DEF Init, Ownership, Converting, Building, Holding, PartsInHand, At
<1>2. TypeOK /\ Ownership /\ (Calm => PartsInHand) /\ [Next]_vars
        => Ownership' /\ (Calm => PartsInHand)'
  BY OwnershipStep, PartsStep, CalmBefore
<1>3. TypeOK /\ (Calm => PartsInHand) => QuietPartsAreWhole
  BY DEF TypeOK, Calm, PartsInHand, At, Live, QuietPartsAreWhole
<1> QED
  BY <1>1, <1>2, <1>3, TypeCorrect, PTL DEF Spec
=============================================================================
