------------------------------ MODULE Partition ------------------------------
(***************************************************************************)
(* The planner of a distributed job (letools.distributed.planner): cuts    *)
(* the episodes 0..total-1 of a source into the contiguous half-open       *)
(* intervals that become the tasks of the immutable plan.                  *)
(***************************************************************************)
EXTENDS Integers, Sequences

CONSTANTS
  Totals,        \* episode counts of the sources to plan for
  Counts,        \* values of --tasks
  Sizes,         \* values of --episodes-per-task
  NotGiven,      \* an option that was left out
  DefaultTasks   \* the number of tasks when neither is given (32)

ASSUME PartitionAssumption ==
  /\ Totals \subseteq Nat
  /\ Counts \subseteq Int /\ Sizes \subseteq Int
  /\ NotGiven \notin Int
  /\ DefaultTasks \in Nat \ {0}

VARIABLES
  total,       \* len(dataset.episodes)
  taskCount,   \* task_count
  perTask,     \* episodes_per_task
  stage,       \* "request", "cut", "planned" or "rejected"
  intervals,   \* the intervals cut so far
  start        \* the loop's cursor

planVars == <<total, taskCount, perTask, stage, intervals, start>>
options == <<total, taskCount, perTask>>

PlanInit ==
  /\ total \in Totals
  /\ taskCount \in Counts \cup {NotGiven}
  /\ perTask \in Sizes \cup {NotGiven}
  /\ stage = "request"
  /\ intervals = <<>>
  /\ start = 0
-----------------------------------------------------------------------------
Smaller(m, n) == IF m < n THEN m ELSE n

(* The options and the source are checked before anything is cut.          *)
Contradictory == taskCount # NotGiven /\ perTask # NotGiven
NotPositive(option) == option # NotGiven /\ option <= 0
Unplannable ==
  Contradictory \/ NotPositive(taskCount) \/ NotPositive(perTask) \/ total = 0

(* The number of balanced tasks, and how the remainder is spread.          *)
Count == IF taskCount = NotGiven THEN Smaller(total, DefaultTasks)
                                 ELSE Smaller(total, taskCount)
Quotient == total \div Count
Remainder == total % Count

(* Mutants: the remainder is dropped; or goes to the last task alone.      *)
ShareTruncated(k) == Quotient
ShareLast(k) == Quotient + IF k = Count - 1 THEN Remainder ELSE 0

Share(k) == Quotient + IF k < Remainder THEN 1 ELSE 0

PlanReject ==
  /\ stage = "request" /\ Unplannable
  /\ stage' = "rejected"
  /\ UNCHANGED <<options, intervals, start>>

PlanAccept ==
  /\ stage = "request" /\ ~Unplannable
  /\ stage' = "cut"
  /\ UNCHANGED <<options, intervals, start>>

Interval(from, to) == [start |-> from, stop |-> to]

(* --episodes-per-task: a stride over the episodes, the last one clipped.  *)
CutSized ==
  /\ stage = "cut" /\ perTask # NotGiven /\ start < total
  /\ intervals' = Append(intervals,
                         Interval(start, Smaller(total, start + perTask)))
  /\ start' = start + perTask
  /\ UNCHANGED <<options, stage>>

(* --tasks or the default: sizes differ by one at most, larger ones first. *)
CutBalanced ==
  /\ stage = "cut" /\ perTask = NotGiven /\ Len(intervals) < Count
  /\ LET stop == start + Share(Len(intervals))
     IN  intervals' = Append(intervals, Interval(start, stop)) /\ start' = stop
  /\ UNCHANGED <<options, stage>>

CutDone ==
  IF perTask # NotGiven THEN start >= total ELSE Len(intervals) = Count

PlanWrite ==
  /\ stage = "cut" /\ CutDone
  /\ stage' = "planned"
  /\ UNCHANGED <<options, intervals, start>>

PlanNext == PlanReject \/ PlanAccept \/ CutSized \/ CutBalanced \/ PlanWrite

PlanSpec == PlanInit /\ [][PlanNext]_planVars
-----------------------------------------------------------------------------
(* Properties *)

Within(e, i) == i.start <= e /\ e < i.stop
Size(k) == intervals[k].stop - intervals[k].start

(* DISTRIBUTED.md: every task owns a nonempty interval; a written plan     *)
(* converts every episode in exactly one task, whatever the options.       *)
PlanIsExact ==
  stage = "planned" =>
    /\ \A k \in DOMAIN intervals : Size(k) > 0
    /\ \A e \in 0 .. total - 1 :
         \E k \in DOMAIN intervals :
           /\ Within(e, intervals[k])
           /\ \A l \in DOMAIN intervals \ {k} : ~Within(e, intervals[l])

(* The load is even: no task has more episodes than --episodes-per-task    *)
(* allows, balanced tasks differ by one episode at most, and there are     *)
(* never more of them than --tasks asks for.                               *)
PlanIsEven ==
  stage = "planned" =>
    IF perTask # NotGiven
    THEN \A k \in DOMAIN intervals : Size(k) <= perTask
    ELSE /\ \A k, l \in DOMAIN intervals : Size(k) - Size(l) <= 1
         /\ taskCount # NotGiven => Len(intervals) <= taskCount
=============================================================================
