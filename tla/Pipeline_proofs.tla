--------------------------- MODULE Pipeline_proofs ----------------------------
(***************************************************************************)
(* What holds of every plan, of every distributed conversion and of every  *)
(* merge, for all sources, options, inputs and limits: a plan is an exact  *)
(* and even partition, no output file is written twice, only gaps in the   *)
(* task indices of an input stop a merge, the output of every merge is the *)
(* concatenation of its parts (MergeConcatenatesThm), and what a           *)
(* distributed conversion writes reads like the source, whatever the plan  *)
(* (DistributedMatchesLocalThm).                                           *)
(***************************************************************************)
EXTENDS Pipeline, Dataset_proofs

-----------------------------------------------------------------------------
(***************************************************************************)
(* The plan.  The inductive invariant follows the cursor of the loop: the  *)
(* intervals cut so far are nonempty, ordered, and cover exactly the       *)
(* episodes before the cursor, and in the balanced case the cursor is a    *)
(* function of the number of intervals.                                    *)
(***************************************************************************)

Reached == Smaller(total, start)

PlanTypeOK ==
  /\ total \in Nat
  /\ taskCount \in Int \cup {NotGiven}
  /\ perTask \in Int \cup {NotGiven}
  /\ stage \in {"request", "cut", "planned", "rejected"}
  /\ intervals \in Seq([start : Nat, stop : Nat])
  /\ start \in Nat

Ordered ==
  /\ \A k \in DOMAIN intervals :
       intervals[k].start < intervals[k].stop /\ intervals[k].stop <= Reached
  /\ \A k, l \in DOMAIN intervals :
       k < l => intervals[k].stop <= intervals[l].start

Covered == \A e \in 0 .. Reached - 1 :
             \E k \in DOMAIN intervals : Within(e, intervals[k])

SizedCut == \A k \in DOMAIN intervals : Size(k) <= perTask

BalancedCut ==
  /\ Len(intervals) <= Count
  /\ start = Len(intervals) * Quotient + Smaller(Len(intervals), Remainder)
  /\ \A k \in DOMAIN intervals : Size(k) = Quotient \/ Size(k) = Quotient + 1

Cut ==
  /\ ~Unplannable
  /\ Ordered /\ Covered
  /\ IF perTask # NotGiven THEN SizedCut ELSE BalancedCut

PlanInv ==
  /\ PlanTypeOK
  /\ stage = "request" => intervals = <<>> /\ start = 0
  /\ stage \in {"cut", "planned"} => Cut
  /\ stage = "planned" => CutDone
-----------------------------------------------------------------------------

(* Appending one interval at the cursor keeps order and cover.             *)
LEMMA AppendedInterval ==
  ASSUME PlanTypeOK, Ordered, Covered, start < total,
         NEW stop \in Nat, NEW next \in Nat,
         start < stop, stop = Smaller(total, next), start <= next,
         intervals' = Append(intervals, Interval(start, stop)),
         start' = next, total' = total
  PROVE  /\ intervals' \in Seq([start : Nat, stop : Nat])
         /\ Ordered' /\ Covered'
         /\ Len(intervals') = Len(intervals) + 1
         /\ \A k \in DOMAIN intervals : intervals'[k] = intervals[k]
         /\ intervals'[Len(intervals) + 1] = Interval(start, stop)
<1> DEFINE S == [start : Nat, stop : Nat]
           n == Len(intervals)
<1>1. Interval(start, stop) \in S /\ n \in Nat /\ intervals \in Seq(S)
  BY DEF PlanTypeOK, Interval
<1>2. /\ intervals' \in Seq(S) /\ Len(intervals') = n + 1
      /\ DOMAIN intervals = 1 .. n /\ DOMAIN intervals' = 1 .. n + 1
      /\ \A k \in 1 .. n : intervals'[k] = intervals[k]
      /\ intervals'[n + 1] = Interval(start, stop)
  BY <1>1
<1>3. Reached = start /\ Reached' = stop /\ total \in Nat /\ start \in Nat
  BY DEF Reached, Smaller, PlanTypeOK
<1>4. \A k \in 1 .. n : intervals[k].start \in Nat /\ intervals[k].stop \in Nat
  <2>1. ASSUME NEW k \in 1 .. n
        PROVE  intervals[k] \in S
    BY <1>1, ElementOfSeq
  <2> QED BY <2>1
<1>5. Ordered'
  <2>1. ASSUME NEW k \in 1 .. n + 1
        PROVE  /\ intervals'[k].start < intervals'[k].stop
               /\ intervals'[k].stop <= stop
    <3>1. CASE k = n + 1
      BY <3>1, <1>2, <1>3 DEF Interval
    <3>2. CASE k \in 1 .. n
      BY <3>2, <1>2, <1>3, <1>4 DEF Ordered
    <3> QED BY <3>1, <3>2, <1>1
  <2>2. ASSUME NEW k \in 1 .. n + 1, NEW l \in 1 .. n + 1, k < l
        PROVE  intervals'[k].stop <= intervals'[l].start
    <3>1. k \in 1 .. n /\ intervals'[k] = intervals[k]
      BY <2>2, <1>1, <1>2
    <3>2. CASE l = n + 1
      <4>1. intervals'[l].start = start
        BY <3>2, <1>2 DEF Interval
      <4>2. intervals[k].stop <= start
        BY <3>1, <1>2, <1>3 DEF Ordered
      <4> QED BY <3>1, <4>1, <4>2
    <3>3. CASE l \in 1 .. n
      BY <2>2, <3>1, <3>3, <1>2, <1>4 DEF Ordered
    <3> QED BY <3>2, <3>3, <1>1
  <2> QED BY <2>1, <2>2, <1>2, <1>3 DEF Ordered
<1>6. Covered'
  <2> SUFFICES ASSUME NEW e \in 0 .. stop - 1
               PROVE  \E k \in 1 .. n + 1 : Within(e, intervals'[k])
    BY <1>2, <1>3 DEF Covered
  <2>1. CASE e < start
    <3>1. PICK k \in 1 .. n : Within(e, intervals[k])
      BY <2>1, <1>2, <1>3 DEF Covered
    <3>2. k \in 1 .. n + 1 /\ intervals'[k] = intervals[k]
      BY <1>1, <1>2
    <3> QED BY <3>1, <3>2 DEF Within
  <2>2. CASE start <= e
    BY <2>2, <1>1, <1>2 DEF Within, Interval
  <2> QED BY <2>1, <2>2, <1>3
<1> QED BY <1>2, <1>5, <1>6

(* Count, Quotient and Remainder are a division with remainder.            *)
LEMMA Division ==
  ASSUME PlanTypeOK, ~Unplannable, perTask = NotGiven
  PROVE  /\ Count \in Nat /\ Count > 0 /\ Count <= total
         /\ taskCount # NotGiven => Count <= taskCount
         /\ Quotient \in Nat /\ Quotient > 0
         /\ Remainder \in Nat /\ Remainder < Count
         /\ total = Count * Quotient + Remainder
<1>1. /\ Count \in Nat /\ Count > 0 /\ Count <= total /\ total \in Nat
      /\ taskCount # NotGiven => Count <= taskCount
  BY PartitionAssumption
     DEF PlanTypeOK, Unplannable, NotPositive, Count, Smaller
<1>2. ASSUME NEW m \in Nat, NEW d \in Nat, d > 0, d <= m
      PROVE  /\ m \div d \in Nat /\ m \div d > 0
             /\ m % d \in Nat /\ m % d < d
             /\ m = d * (m \div d) + (m % d)
  <2>1. m \div d \in Nat /\ m % d \in Nat /\ m % d < d
    BY <1>2
  <2>2. m = (m \div d) * d + (m % d)
    BY <1>2, SMTT(30)
  <2>3. ASSUME NEW q \in Nat, NEW r \in Nat, m = q * d + r, r < d
        PROVE  q > 0 /\ m = d * q + r
    <3>1. m = d * q + r
      BY <1>2, <2>3
    <3>2. q > 0
      BY <1>2, <2>3, <3>1
    <3> QED BY <3>1, <3>2
  <2> QED BY <2>1, <2>2, <2>3
<1> QED BY <1>1, <1>2 DEF Quotient, Remainder

LEMMA PlanStep == PlanInv /\ [PlanNext]_planVars => PlanInv'
<1> SUFFICES ASSUME PlanInv, [PlanNext]_planVars PROVE PlanInv'
  OBVIOUS
<1> USE PartitionAssumption
<1>1. CASE PlanReject
  BY <1>1 DEF PlanReject, options, PlanInv, PlanTypeOK
<1>2. CASE PlanAccept
  <2>1. PlanTypeOK' /\ stage' = "cut" /\ intervals' = <<>> /\ start' = 0
        /\ UNCHANGED options
    BY <1>2 DEF PlanAccept, options, PlanInv, PlanTypeOK
  <2>2. DOMAIN intervals' = {} /\ Len(intervals') = 0 /\ Reached' = 0
    BY <2>1 DEF Reached, Smaller, PlanTypeOK
  <2>3. (~Unplannable)'
    BY <1>2 DEF PlanAccept, options, Unplannable, Contradictory, NotPositive
  <2>4. Ordered' /\ Covered' /\ SizedCut'
    BY <2>2 DEF Ordered, Covered, SizedCut
  <2>5. perTask' = NotGiven => BalancedCut'
    <3> HAVE perTask' = NotGiven
    <3>1. PlanTypeOK /\ ~Unplannable /\ perTask = NotGiven
      BY <1>2, <2>1 DEF PlanAccept, options, PlanInv
    <3>2. Count' = Count /\ Quotient' = Quotient /\ Remainder' = Remainder
      BY <2>1 DEF options, Count, Quotient, Remainder
    <3>3. Count \in Nat /\ Quotient \in Nat /\ Remainder \in Nat
      BY <3>1, Division
    <3> QED BY <2>1, <2>2, <3>2, <3>3 DEF BalancedCut, Smaller
  <2> QED BY <2>1, <2>3, <2>4, <2>5 DEF PlanInv, Cut
<1>3. CASE CutSized
  <2> DEFINE stop == Smaller(total, start + perTask)
  <2>1. /\ PlanTypeOK /\ ~Unplannable /\ Ordered /\ Covered /\ SizedCut
        /\ perTask \in Nat /\ perTask > 0 /\ perTask # NotGiven
        /\ stage = "cut" /\ stage' = "cut" /\ start < total
        /\ intervals' = Append(intervals, Interval(start, stop))
        /\ start' = start + perTask
        /\ UNCHANGED options
    BY <1>3 DEF CutSized, PlanInv, Cut, PlanTypeOK, Unplannable, NotPositive
  <2>2. /\ total \in Nat /\ start \in Nat
        /\ stop \in Nat /\ start < stop /\ stop - start <= perTask
    BY <2>1 DEF PlanTypeOK, Smaller
  <2>3. /\ total' = total /\ taskCount' = taskCount /\ perTask' = perTask
    BY <2>1 DEF options
  <2> HIDE DEF stop
  <2>4. /\ intervals' \in Seq([start : Nat, stop : Nat])
        /\ Ordered' /\ Covered'
        /\ Len(intervals') = Len(intervals) + 1
        /\ \A k \in DOMAIN intervals : intervals'[k] = intervals[k]
        /\ intervals'[Len(intervals) + 1] = Interval(start, stop)
    <3>1. stop = Smaller(total, start + perTask) /\ start + perTask \in Nat
          /\ start <= start + perTask
      BY <2>1, <2>2 DEF stop
    <3> QED BY <2>1, <2>2, <2>3, <3>1, AppendedInterval
  <2>5. PlanTypeOK'
    BY <2>1, <2>2, <2>3, <2>4 DEF PlanTypeOK
  <2>6. SizedCut'
    <3>1. DOMAIN intervals = 1 .. Len(intervals) /\ Len(intervals) \in Nat
          /\ DOMAIN intervals' = 1 .. Len(intervals')
      BY <2>1, <2>4 DEF PlanTypeOK
    <3>2. ASSUME NEW k \in 1 .. Len(intervals) + 1
          PROVE  intervals'[k].stop - intervals'[k].start <= perTask
      <4>1. CASE k = Len(intervals) + 1
        BY <4>1, <2>4, <2>2 DEF Interval
      <4>2. CASE k \in DOMAIN intervals
        BY <4>2, <2>1, <2>4 DEF SizedCut, Size
      <4> QED BY <4>1, <4>2, <3>1
    <3> QED BY <3>1, <3>2, <2>3, <2>4 DEF SizedCut, Size
  <2>7. (~Unplannable)'
    BY <2>1, <2>3 DEF Unplannable, Contradictory, NotPositive
  <2> QED BY <2>1, <2>3, <2>4, <2>5, <2>6, <2>7 DEF PlanInv, Cut
<1>4. CASE CutBalanced
  <2> DEFINE n == Len(intervals)
             stop == start + Share(n)
  <2>1. /\ PlanTypeOK /\ ~Unplannable /\ Ordered /\ Covered /\ BalancedCut
        /\ perTask = NotGiven /\ stage = "cut" /\ stage' = "cut"
        /\ n < Count
        /\ intervals' = Append(intervals, Interval(start, stop))
        /\ start' = stop
        /\ UNCHANGED options
    BY <1>4 DEF CutBalanced, PlanInv, Cut
  <2>2. /\ Count \in Nat /\ Quotient \in Nat /\ Quotient > 0
        /\ Remainder \in Nat /\ Remainder < Count
        /\ total = Count * Quotient + Remainder
    BY <2>1, Division
  <2>3. /\ total' = total /\ taskCount' = taskCount /\ perTask' = perTask
        /\ Count' = Count /\ Quotient' = Quotient /\ Remainder' = Remainder
    BY <2>1 DEF options, Count, Quotient, Remainder
  <2>4. /\ n \in Nat /\ start \in Nat /\ total \in Nat
        /\ start = n * Quotient + Smaller(n, Remainder)
    BY <2>1 DEF PlanTypeOK, BalancedCut
  <2>5. /\ stop \in Nat /\ start < stop
        /\ stop - start = Quotient \/ stop - start = Quotient + 1
    BY <2>2, <2>4 DEF Share
  <2>6. stop = (n + 1) * Quotient + Smaller(n + 1, Remainder)
    <3>1. (n + 1) * Quotient = n * Quotient + Quotient
      BY <2>2, <2>4
    <3>2. n * Quotient \in Nat
      BY <2>2, <2>4
    <3>3. Smaller(n + 1, Remainder)
            = Smaller(n, Remainder) + IF n < Remainder THEN 1 ELSE 0
      BY <2>2, <2>4 DEF Smaller
    <3>4. Smaller(n, Remainder) \in Nat
      BY <2>2, <2>4 DEF Smaller
    <3> QED BY <3>1, <3>2, <3>3, <3>4, <2>2, <2>4 DEF Share
  <2>7. stop <= total
    <3>1. (n + 1) * Quotient <= Count * Quotient
      <4> DEFINE d == Count - (n + 1)
      <4>1. d \in Nat /\ Count = (n + 1) + d
        BY <2>1, <2>2, <2>4
      <4> HIDE DEF d
      <4>2. Count * Quotient = (n + 1) * Quotient + d * Quotient
        BY <4>1, <2>2, <2>4
      <4>3. d * Quotient \in Nat /\ (n + 1) * Quotient \in Nat
        BY <4>1, <2>2, <2>4
      <4> QED BY <4>2, <4>3
    <3>2. Smaller(n + 1, Remainder) <= Remainder
          /\ Smaller(n + 1, Remainder) \in Nat
      BY <2>2, <2>4 DEF Smaller
    <3>3. (n + 1) * Quotient \in Nat /\ Count * Quotient \in Nat
      BY <2>2, <2>4
    <3> QED BY <3>1, <3>2, <3>3, <2>2, <2>4, <2>6
  <2> HIDE DEF stop
  <2>8. /\ intervals' \in Seq([start : Nat, stop : Nat])
        /\ Ordered' /\ Covered'
        /\ Len(intervals') = n + 1
        /\ \A k \in DOMAIN intervals : intervals'[k] = intervals[k]
        /\ intervals'[n + 1] = Interval(start, stop)
    <3>1. stop = Smaller(total, stop) /\ start <= stop /\ start < total
      BY <2>4, <2>5, <2>7 DEF Smaller
    <3> QED BY <2>1, <2>3, <2>5, <3>1, AppendedInterval
  <2>9. PlanTypeOK'
    BY <2>1, <2>3, <2>5, <2>8 DEF PlanTypeOK
  <2>10. BalancedCut'
    <3>1. DOMAIN intervals = 1 .. n /\ DOMAIN intervals' = 1 .. n + 1
      BY <2>1, <2>4, <2>8 DEF PlanTypeOK
    <3>2. ASSUME NEW k \in 1 .. n + 1
          PROVE  \/ intervals'[k].stop - intervals'[k].start = Quotient
                 \/ intervals'[k].stop - intervals'[k].start = Quotient + 1
      <4>1. CASE k = n + 1
        BY <4>1, <2>8, <2>5 DEF Interval
      <4>2. CASE k \in DOMAIN intervals
        BY <4>2, <2>1, <2>8 DEF BalancedCut, Size
      <4> QED BY <4>1, <4>2, <3>1, <2>4
    <3>3. start' = Len(intervals') * Quotient'
                     + Smaller(Len(intervals'), Remainder')
      BY <2>1, <2>3, <2>6, <2>8
    <3>4. Len(intervals') <= Count'
      BY <2>1, <2>2, <2>3, <2>4, <2>8
    <3> QED BY <3>1, <3>2, <3>3, <3>4, <2>3 DEF BalancedCut, Size
  <2>11. (~Unplannable)'
    BY <2>1, <2>3 DEF Unplannable, Contradictory, NotPositive
  <2> QED BY <2>1, <2>3, <2>8, <2>9, <2>10, <2>11 DEF PlanInv, Cut
<1>5. CASE PlanWrite \/ UNCHANGED planVars
  <2>1. /\ UNCHANGED <<total, taskCount, perTask, intervals, start>>
        /\ stage' = stage \/ (stage = "cut" /\ stage' = "planned" /\ CutDone)
    BY <1>5 DEF PlanWrite, options, planVars
  <2>2. /\ Cut' = Cut /\ CutDone' = CutDone
    BY <2>1 DEF Cut, CutDone, Unplannable, Contradictory, NotPositive, Ordered,
                Covered, SizedCut, BalancedCut, Reached, Within, Size, Count,
                Quotient, Remainder
  <2> QED BY <2>1, <2>2 DEF PlanInv, PlanTypeOK
<1> QED BY <1>1, <1>2, <1>3, <1>4, <1>5 DEF PlanNext

LEMMA PlanStart == PlanInit => PlanInv
<1> SUFFICES ASSUME PlanInit PROVE PlanInv
  OBVIOUS
<1>1. total \in Nat /\ taskCount \in Int \cup {NotGiven}
      /\ perTask \in Int \cup {NotGiven}
  BY PartitionAssumption DEF PlanInit
<1> QED BY <1>1 DEF PlanInit, PlanInv, PlanTypeOK

(* The loop invariant of the planner.                                      *)
THEOREM PlanInvariance == PlanSpec => []PlanInv
<1> QED BY PlanStart, PlanStep, PTL DEF PlanSpec
-----------------------------------------------------------------------------

LEMMA DoneIsAll ==
  ASSUME PlanInv, stage = "planned"
  PROVE  Reached = total
<1>1. PlanTypeOK /\ Cut /\ CutDone /\ total \in Nat /\ start \in Nat
  BY DEF PlanInv, PlanTypeOK
<1>2. CASE perTask # NotGiven
  BY <1>1, <1>2 DEF CutDone, Reached, Smaller
<1>3. CASE perTask = NotGiven
  <2>1. /\ Count \in Nat /\ Quotient \in Nat /\ Remainder \in Nat
        /\ Remainder < Count /\ total = Count * Quotient + Remainder
    BY <1>1, <1>3, Division DEF Cut
  <2>2. start = Count * Quotient + Smaller(Count, Remainder)
    BY <1>1, <1>3 DEF Cut, BalancedCut, CutDone
  <2> QED BY <1>1, <2>1, <2>2 DEF Reached, Smaller
<1> QED BY <1>2, <1>3

(* A written plan converts every episode of the source exactly once.       *)
THEOREM PlanIsExactThm == PlanSpec => []PlanIsExact
<1>1. PlanInv => PlanIsExact
  <2> SUFFICES ASSUME PlanInv, stage = "planned"
               PROVE /\ \A k \in DOMAIN intervals : Size(k) > 0
                     /\ \A e \in 0 .. total - 1 :
                          \E k \in DOMAIN intervals :
                            /\ Within(e, intervals[k])
                            /\ \A l \in DOMAIN intervals \ {k} :
                                 ~Within(e, intervals[l])
    BY DEF PlanIsExact
  <2>1. /\ Ordered /\ Covered /\ Reached = total
        /\ intervals \in Seq([start : Nat, stop : Nat])
    BY DoneIsAll DEF PlanInv, Cut, PlanTypeOK
  <2>2. \A k \in DOMAIN intervals :
          k \in Nat /\ intervals[k].start \in Nat /\ intervals[k].stop \in Nat
    <3> DEFINE S == [start : Nat, stop : Nat]
    <3>1. ASSUME NEW k \in DOMAIN intervals
          PROVE  k \in Nat /\ intervals[k] \in S
      <4>1. k \in 1 .. Len(intervals) /\ k \in Nat
        BY <2>1
      <4> QED BY <2>1, <4>1, ElementOfSeq
    <3> QED BY <3>1
  <2>3. \A k \in DOMAIN intervals : Size(k) > 0
    BY <2>1, <2>2 DEF Ordered, Size
  <2>4. ASSUME NEW e \in 0 .. total - 1
        PROVE  \E k \in DOMAIN intervals :
                 /\ Within(e, intervals[k])
                 /\ \A l \in DOMAIN intervals \ {k} : ~Within(e, intervals[l])
    <3>1. PICK k \in DOMAIN intervals : Within(e, intervals[k])
      BY <2>1 DEF Covered
    <3>2. ASSUME NEW l \in DOMAIN intervals, l # k
          PROVE  ~Within(e, intervals[l])
      <4>1. CASE k < l
        BY <4>1, <3>1, <2>1, <2>2 DEF Ordered, Within
      <4>2. CASE l < k
        BY <4>2, <3>1, <2>1, <2>2 DEF Ordered, Within
      <4> QED BY <4>1, <4>2, <3>2, <2>2
    <3> QED BY <3>1, <3>2
  <2> QED BY <2>3, <2>4
<1> QED BY <1>1, PlanInvariance, PTL

(* A written plan is as even as its options allow.                         *)
THEOREM PlanIsEvenThm == PlanSpec => []PlanIsEven
<1>1. PlanInv => PlanIsEven
  <2> SUFFICES ASSUME PlanInv, stage = "planned"
               PROVE  IF perTask # NotGiven
                      THEN \A k \in DOMAIN intervals : Size(k) <= perTask
                      ELSE /\ \A k, l \in DOMAIN intervals :
                                Size(k) - Size(l) <= 1
                           /\ taskCount # NotGiven =>
                                Len(intervals) <= taskCount
    BY DEF PlanIsEven
  <2>1. PlanTypeOK /\ Cut
    BY DEF PlanInv
  <2>2. CASE perTask # NotGiven
    BY <2>1, <2>2 DEF Cut, SizedCut
  <2>3. CASE perTask = NotGiven
    <3>1. /\ Count \in Nat /\ Quotient \in Nat
          /\ taskCount # NotGiven => Count <= taskCount
      BY <2>1, <2>3, Division DEF Cut
    <3>2. /\ Len(intervals) <= Count /\ Len(intervals) \in Nat
          /\ \A k \in DOMAIN intervals :
               Size(k) = Quotient \/ Size(k) = Quotient + 1
      BY <2>1, <2>3 DEF Cut, BalancedCut, PlanTypeOK
    <3>3. taskCount # NotGiven => taskCount \in Int
      BY <2>1 DEF PlanTypeOK
    <3>4. \A k, l \in DOMAIN intervals : Size(k) - Size(l) <= 1
      BY <3>1, <3>2
    <3>5. taskCount # NotGiven => Len(intervals) <= taskCount
      BY <3>1, <3>2, <3>3
    <3> QED BY <2>3, <3>4, <3>5
  <2> QED BY <2>2, <2>3
<1> QED BY <1>1, PlanInvariance, PTL

-----------------------------------------------------------------------------
(***************************************************************************)
(* The files of a merge.                                                   *)
(***************************************************************************)

(* The sum that a merge starts from is a number of episodes.               *)
LEMMA TotalType == Init => total \in Nat
<1> SUFFICES ASSUME Init PROVE total \in Nat
  OBVIOUS
<1>1. CASE ConvertInit
  BY <1>1, PartitionAssumption DEF ConvertInit, PlanInit
<1>2. CASE MergeInit
  <2>1. PICK inputs \in Merges :
          total = SumFunction([p \in DOMAIN inputs |-> Len(inputs[p].lens)])
    BY <1>2, Zenon DEF MergeInit
  <2>2. inputs \in Seq(Range(inputs))
        /\ \A p \in DOMAIN inputs : inputs[p].lens \in Seq(Lengths)
    BY <2>1, PipelineAssumption DEF PipelineAssumption
  <2>3. Len(inputs) \in Nat /\ DOMAIN inputs = 1 .. Len(inputs)
    BY <2>2, LenProperties
  <2>4. \A p \in DOMAIN inputs : Len(inputs[p].lens) \in Nat
    BY <2>2, LenProperties
  <2>5. [p \in DOMAIN inputs |-> Len(inputs[p].lens)] \in [1 .. Len(inputs) -> Nat]
    BY <2>3, <2>4
  <2> QED BY <2>1, <2>3, <2>5, SumType
<1> QED BY <1>1, <1>2 DEF Init

(* Files of different numbers have different names in either layout.       *)
LEMMA NamesDiffer ==
  ASSUME NEW r \in Nat \ {0}, NEW q \in Nat \ {0}, MergedFile(r) = MergedFile(q)
  PROVE  r = q
<1>1. CASE target = "v2.1"
  <2>1. EpisodeFile(r - 1) = EpisodeFile(q - 1)
    BY <1>1 DEF MergedFile
  <2>2. r - 1 = q - 1
    BY <2>1 DEF EpisodeFile
  <2> QED BY <2>2
<1>2. CASE target # "v2.1"
  <2> DEFINE c == ChunksSize
  <2>1. c \in Nat /\ c > 0
    BY DatasetAssumption DEF DatasetAssumption
  <2>2. Place(r - 1) = Place(q - 1)
    BY <1>2 DEF MergedFile
  <2>3. (r - 1) \div c = (q - 1) \div c /\ (r - 1) % c = (q - 1) % c
    BY <2>2 DEF Place
  <2> HIDE DEF c
  <2>4. ASSUME NEW m \in Nat
        PROVE  m = (m \div c) * c + (m % c)
    BY <2>1, SMTT(30)
  <2>5. r - 1 \in Nat /\ q - 1 \in Nat
    OBVIOUS
  <2>6. r - 1 = ((r - 1) \div c) * c + ((r - 1) % c)
    BY <2>4, <2>5
  <2>7. q - 1 = ((q - 1) \div c) * c + ((q - 1) % c)
    BY <2>4, <2>5
  <2>8. r - 1 = q - 1
    BY <2>3, <2>6, <2>7, Zenon
  <2> QED BY <2>8
<1> QED BY <1>1, <1>2

-----------------------------------------------------------------------------

(* Every file that exists was written under the number of a resource that  *)
(* is marked as done.                                                      *)
Numbered(tag, files) ==
  \A file \in DOMAIN files :
    \E r \in Nat \ {0} : <<tag, r>> \in written /\ file = MergedFile(r)

FilesInv == total \in Nat /\ Numbered("data", data) /\ Numbered("video", video)

(* A resource written for the first time does not meet an existing file.   *)
LEMMA NewFile ==
  ASSUME NEW tag, NEW files, Numbered(tag, files),
         NEW r \in Nat \ {0}, <<tag, r>> \notin written
  PROVE  MergedFile(r) \notin DOMAIN files
<1> SUFFICES ASSUME MergedFile(r) \in DOMAIN files PROVE FALSE
  OBVIOUS
<1>1. PICK q \in Nat \ {0} : <<tag, q>> \in written /\ MergedFile(r) = MergedFile(q)
  BY DEF Numbered
<1>2. r = q
  BY <1>1, NamesDiffer
<1> QED BY <1>1, <1>2

LEMMA NumberedStays ==
  ASSUME NEW tag, NEW files, Numbered(tag, files), target' = target,
         written \subseteq written'
  PROVE  \A file \in DOMAIN files :
           \E r \in Nat \ {0} : <<tag, r>> \in written' /\ file = MergedFile(r)'
<1> TAKE file \in DOMAIN files
<1>1. PICK r \in Nat \ {0} : <<tag, r>> \in written /\ file = MergedFile(r)
  BY DEF Numbered
<1>2. MergedFile(r)' = MergedFile(r)
  BY DEF MergedFile
<1> QED BY <1>1, <1>2

LEMMA FilesStep ==
  ASSUME FilesInv, [Next]_pipelineVars
  PROVE  /\ FilesInv'
         /\ \A file \in DOMAIN data : data'[file] = data[file]
         /\ \A file \in DOMAIN video : video'[file] = video[file]
<1>0. total \in Nat /\ Numbered("data", data) /\ Numbered("video", video)
  BY DEF FilesInv
<1>1. ASSUME UNCHANGED <<total, target, data, video, written>>
      PROVE  FilesInv'
  BY <1>0, <1>1 DEF FilesInv, Numbered, MergedFile
<1>2. ASSUME NEW r \in 1 .. total, RewriteData(r)
      PROVE  /\ FilesInv'
             /\ \A file \in DOMAIN data : data'[file] = data[file]
             /\ video' = video
  <2>1. r \in Nat \ {0}
    BY <1>0
  <2> DEFINE p == manifest.data[r][1]
             rows == parts[p].data[manifest.data[r][2]]
             new == [f \in DOMAIN rows |-> RewriteRow(p, rows[f])]
  <2>2. /\ data' = Assign(data, MergedFile(r), new) /\ <<"data", r>> \notin written
        /\ written' = written \cup {<<"data", r>>}
        /\ total' = total /\ target' = target /\ video' = video
    BY <1>2 DEF RewriteData, planVars
  <2> HIDE DEF new
  <2>3. MergedFile(r) \notin DOMAIN data
    BY <1>0, <2>1, <2>2, NewFile
  <2>4. DOMAIN data' = DOMAIN data \cup {MergedFile(r)}
        /\ \A file \in DOMAIN data : data'[file] = data[file]
    BY <2>2, <2>3 DEF Assign
  <2>5. MergedFile(r)' = MergedFile(r)
    BY <2>2 DEF MergedFile
  <2>6. written \subseteq written' /\ <<"data", r>> \in written'
    BY <2>2
  <2>7. Numbered("data", data)'
    <3>1. \A file \in DOMAIN data :
            \E q \in Nat \ {0} : <<"data", q>> \in written' /\ file = MergedFile(q)'
      BY <1>0, <2>2, <2>6, NumberedStays
    <3> QED BY <2>1, <2>4, <2>5, <2>6, <3>1 DEF Numbered
  <2>8. Numbered("video", video)'
    <3>1. \A file \in DOMAIN video :
            \E q \in Nat \ {0} : <<"video", q>> \in written' /\ file = MergedFile(q)'
      BY <1>0, <2>2, <2>6, NumberedStays
    <3> QED BY <2>2, <3>1 DEF Numbered
  <2> QED BY <1>0, <2>2, <2>4, <2>7, <2>8 DEF FilesInv
<1>3. ASSUME NEW r \in 1 .. total, CopyMedia(r)
      PROVE  /\ FilesInv'
             /\ \A file \in DOMAIN video : video'[file] = video[file]
             /\ data' = data
  <2>1. r \in Nat \ {0}
    BY <1>0
  <2> DEFINE new == parts[manifest.video[r][1]].video[manifest.video[r][2]]
  <2>2. /\ video' = Assign(video, MergedFile(r), new) /\ <<"video", r>> \notin written
        /\ written' = written \cup {<<"video", r>>}
        /\ total' = total /\ target' = target /\ data' = data
    BY <1>3 DEF CopyMedia, planVars
  <2> HIDE DEF new
  <2>3. MergedFile(r) \notin DOMAIN video
    BY <1>0, <2>1, <2>2, NewFile
  <2>4. DOMAIN video' = DOMAIN video \cup {MergedFile(r)}
        /\ \A file \in DOMAIN video : video'[file] = video[file]
    BY <2>2, <2>3 DEF Assign
  <2>5. MergedFile(r)' = MergedFile(r)
    BY <2>2 DEF MergedFile
  <2>6. written \subseteq written' /\ <<"video", r>> \in written'
    BY <2>2
  <2>7. Numbered("video", video)'
    <3>1. \A file \in DOMAIN video :
            \E q \in Nat \ {0} : <<"video", q>> \in written' /\ file = MergedFile(q)'
      BY <1>0, <2>2, <2>6, NumberedStays
    <3> QED BY <2>1, <2>4, <2>5, <2>6, <3>1 DEF Numbered
  <2>8. Numbered("data", data)'
    <3>1. \A file \in DOMAIN data :
            \E q \in Nat \ {0} : <<"data", q>> \in written' /\ file = MergedFile(q)'
      BY <1>0, <2>2, <2>6, NumberedStays
    <3> QED BY <2>2, <3>1 DEF Numbered
  <2> QED BY <1>0, <2>2, <2>4, <2>7, <2>8 DEF FilesInv
<1>4. CASE \/ Plan \/ (\E k \in DOMAIN intervals : ConvertPart(k)) \/ CopyPart
           \/ MergeOpen \/ MergeRefused \/ MachineRefuses \/ MergeDatasets
           \/ MergeFails \/ WriteMetadata \/ RestoreStats \/ Ended
           \/ UNCHANGED pipelineVars
  <2>1. UNCHANGED <<total, target, data, video, written>>
    <3>1. CASE Plan
      BY <3>1 DEF Plan, pipeVars, mergeVars, PlanNext, PlanReject, PlanAccept,
                  CutSized, CutBalanced, PlanWrite, options
    <3>2. CASE \E k \in DOMAIN intervals : ConvertPart(k)
      BY <3>2 DEF ConvertPart, planVars, mergeVars
    <3>3. CASE CopyPart \/ MergeOpen \/ MergeDatasets \/ WriteMetadata \/ RestoreStats
      BY <3>3 DEF CopyPart, MergeOpen, MergeDatasets, WriteMetadata, RestoreStats,
                  options, mergeVars
    <3>4. CASE MergeRefused \/ MachineRefuses \/ MergeFails
      BY <3>4 DEF MergeRefused, MachineRefuses, MergeFails, options, pipeVars, mergeVars
    <3>5. CASE Ended \/ UNCHANGED pipelineVars
      BY <3>5 DEF Ended, pipelineVars, planVars, pipeVars, mergeVars
    <3> QED BY <1>4, <3>1, <3>2, <3>3, <3>4, <3>5
  <2> QED BY <1>1, <2>1
<1> QED BY <1>2, <1>3, <1>4 DEF Next

(* Whatever the order of the threads, a merge never writes over a file it  *)
(* has written before.                                                     *)
THEOREM NoFileIsOverwrittenThm == Spec => NoFileIsOverwritten
<1>1. Init => FilesInv
  <2> SUFFICES ASSUME Init PROVE FilesInv
    OBVIOUS
  <2>1. data = <<>> /\ video = <<>>
    BY DEF Init, Nothing
  <2>2. DOMAIN <<>> = {}
    OBVIOUS
  <2> QED BY <2>1, <2>2, TotalType DEF FilesInv, Numbered
<1>2. FilesInv /\ [Next]_pipelineVars => FilesInv'
  BY FilesStep
<1>3. FilesInv /\ [Next]_pipelineVars =>
        [/\ \A file \in DOMAIN data : data'[file] = data[file]
         /\ \A file \in DOMAIN video : video'[file] = video[file]]_pipelineVars
  BY FilesStep
<1> QED BY <1>1, <1>2, <1>3, PTL DEF Spec, NoFileIsOverwritten

-----------------------------------------------------------------------------
(***************************************************************************)
(* Parts of a source and inputs of a merge are what a backend writes.      *)
(***************************************************************************)

(* A part of a source, renumbered.                                         *)
LEMMA SubsetIsPresented ==
  ASSUME NEW n \in Nat, NEW view, Presented(view, n), NEW interval,
         interval.start \in Nat, interval.stop \in Nat,
         interval.start <= interval.stop, interval.stop <= n
  PROVE  Presented(Subset(view, interval), interval.stop - interval.start)
<1> DEFINE from == interval.start
           to == interval.stop
           m == to - from
           S == Range(view.episodes)
           chosen == SubSeq(view.episodes, from + 1, to)
           lens == [k \in DOMAIN chosen |-> Len(chosen[k].rows)]
           part == Subset(view, interval)
<1>1. /\ view.episodes = [i \in 1 .. n |-> view.episodes[i]]
      /\ \A i \in 1 .. n : \E l \in Nat \ {0} : Framed(view.episodes[i], i, l)
  BY DEF Presented
<1>2. /\ part = [tasks |-> part.tasks, splits |-> part.splits,
                 episodes |-> part.episodes]
      /\ part.episodes = [k \in DOMAIN chosen |-> SubsetEpisode(chosen[k], lens, k)]
  BY DEF Subset
<1> HIDE DEF S, chosen, lens, part
<1>3. m \in Nat /\ DOMAIN chosen = 1 .. m
      /\ \A k \in 1 .. m : from + k \in 1 .. n /\ chosen[k] = view.episodes[from + k]
  <2>1. \A i \in from + 1 .. to : view.episodes[i] \in S
    <3> TAKE i \in from + 1 .. to
    <3>1. i \in 1 .. n
      OBVIOUS
    <3>2. i \in DOMAIN view.episodes
      BY <1>1, <3>1
    <3> QED BY <3>2 DEF S, Range
  <2>2. /\ chosen \in Seq(S)
        /\ Len(chosen) = IF from + 1 <= to THEN to - (from + 1) + 1 ELSE 0
        /\ \A j \in 1 .. to - (from + 1) + 1 :
             chosen[j] = view.episodes[from + 1 + j - 1]
    <3>1. from + 1 \in Int /\ to \in Int
      OBVIOUS
    <3> QED BY <2>1, <3>1, SubSeqProperties DEF chosen
  <2>3. Len(chosen) = m /\ m \in Nat /\ to - (from + 1) + 1 = m
    BY <2>2
  <2>4. DOMAIN chosen = 1 .. m
    BY <2>2, <2>3, LenProperties
  <2>5. \A k \in 1 .. m : from + k \in 1 .. n /\ from + 1 + k - 1 = from + k
    OBVIOUS
  <2> QED BY <2>2, <2>3, <2>4, <2>5
<1> HIDE DEF from, to, m
<1>4. part.episodes = [k \in 1 .. m |-> part.episodes[k]]
  BY <1>2, <1>3
<1>5. ASSUME NEW k \in 1 .. m
      PROVE  \E l \in Nat \ {0} : Framed(part.episodes[k], k, l)
  <2> DEFINE e == chosen[k]
             new == part.episodes[k]
  <2>1. PICK l \in Nat \ {0} : Framed(view.episodes[from + k], from + k, l)
    BY <1>1, <1>3
  <2>2. /\ e = [rows |-> e.rows, packets |-> e.packets, stats |-> e.stats]
        /\ e.rows = [f \in 1 .. l |-> e.rows[f]]
        /\ e.packets = [f \in 1 .. l |-> e.packets[f]]
        /\ \A f \in 1 .. l : IsRow(e.rows[f])
    BY <1>3, <2>1 DEF Framed
  <2>3. new = SubsetEpisode(e, lens, k)
    BY <1>2, <1>3
  <2> HIDE DEF e, new
  <2>4. /\ new = [rows |-> new.rows, packets |-> new.packets, stats |-> new.stats]
        /\ new.packets = e.packets
        /\ new.rows = [f \in DOMAIN e.rows |->
              [e.rows[f] EXCEPT !.episode = k - 1, !.index = Offset(lens, k) + f - 1]]
    BY <2>2, <2>3 DEF SubsetEpisode
  <2>5. ASSUME NEW f \in 1 .. l PROVE IsRow(new.rows[f]) /\ new.rows[f].episode = k - 1
    <3> DEFINE row == e.rows[f]
    <3>1. row = [episode |-> row.episode, index |-> row.index, frame |-> row.frame,
                 task |-> row.task, payload |-> row.payload]
      BY <2>2 DEF IsRow
    <3>2. new.rows[f] = [row EXCEPT !.episode = k - 1,
                                    !.index = Offset(lens, k) + f - 1]
      BY <2>2, <2>4
    <3> HIDE DEF row
    <3> QED BY <3>1, <3>2 DEF IsRow
  <2>6. new.rows = [f \in 1 .. l |-> new.rows[f]]
        /\ new.packets = [f \in 1 .. l |-> new.packets[f]]
    BY <2>2, <2>4
  <2>7. Framed(new, k, l)
    BY <2>4, <2>5, <2>6, Zenon DEF Framed
  <2> QED BY <2>7 DEF new
<1> QED
  BY <1>2, <1>4, <1>5, Zenon DEF Presented, part, m, from, to

(* The inputs of a merge.                                                  *)
LEMMA InputIsConverted ==
  ASSUME NEW p, NEW i, i.lens \in Seq(Lengths), i.version \in Versions
  PROVE  Converted(Input(p, i))
<1> DEFINE n == Len(i.lens)
           view == Recorded(i.lens, i.table, i.splits)
           Frame(row) == [row EXCEPT !.payload = <<p, @>>]
           Episode(e) == [e EXCEPT !.rows = [f \in DOMAIN @ |-> Frame(@[f])],
                                   !.packets = [f \in DOMAIN @ |-> <<p, @[f]>>]]
           new == [view EXCEPT !.episodes = [k \in DOMAIN @ |-> Episode(@[k])]]
<1>1. n \in Nat /\ i.lens \in [1 .. n -> Nat \ {0}]
  <2>1. i.lens \in [1 .. n -> Lengths] /\ n \in Nat
    BY LenProperties
  <2> QED BY <2>1, PipelineAssumption DEF PipelineAssumption
<1> HIDE DEF n
<1>2. Presented(view, n)
  BY <1>1, RecordedIsPresented
<1> HIDE DEF view
<1>3. /\ view = [tasks |-> view.tasks, splits |-> view.splits,
                 episodes |-> view.episodes]
      /\ view.episodes = [k \in 1 .. n |-> view.episodes[k]]
      /\ \A k \in 1 .. n : \E l \in Nat \ {0} : Framed(view.episodes[k], k, l)
  BY <1>2 DEF Presented
<1>4. /\ new = [tasks |-> new.tasks, splits |-> new.splits, episodes |-> new.episodes]
      /\ new.episodes = [k \in DOMAIN view.episodes |-> Episode(view.episodes[k])]
  <2> HIDE DEF Episode
  <2> DEFINE episodes == [k \in DOMAIN view.episodes |-> Episode(view.episodes[k])]
  <2>1. new = [view EXCEPT !.episodes = episodes]
    BY Zenon
  <2> HIDE DEF new, episodes
  <2>2. new = [tasks |-> view.tasks, splits |-> view.splits, episodes |-> episodes]
    BY <1>3, <2>1
  <2> QED BY <2>2 DEF episodes
<1>5. DOMAIN view.episodes = 1 .. n
  BY <1>3
<1>6. Input(p, i) = Write(i.version, new)
  BY Zenon DEF Input, view
<1> HIDE DEF new
<1>7. ASSUME NEW k \in 1 .. n
      PROVE  \E l \in Nat \ {0} : Framed(new.episodes[k], k, l)
  <2> DEFINE e == view.episodes[k]
             w == new.episodes[k]
  <2>1. PICK l \in Nat \ {0} : Framed(e, k, l)
    BY <1>3
  <2>2. /\ e = [rows |-> e.rows, packets |-> e.packets, stats |-> e.stats]
        /\ e.rows = [f \in 1 .. l |-> e.rows[f]]
        /\ e.packets = [f \in 1 .. l |-> e.packets[f]]
        /\ \A f \in 1 .. l : IsRow(e.rows[f]) /\ e.rows[f].episode = k - 1
    BY <2>1 DEF Framed
  <2>3. w = Episode(e)
    BY <1>4, <1>5
  <2> HIDE DEF e, w
  <2>4. /\ w = [rows |-> w.rows, packets |-> w.packets, stats |-> w.stats]
        /\ w.packets = [f \in DOMAIN e.packets |-> <<p, e.packets[f]>>]
        /\ w.rows = [f \in DOMAIN e.rows |->
                       [e.rows[f] EXCEPT !.payload = <<p, e.rows[f].payload>>]]
    <3> DEFINE rows == [f \in DOMAIN e.rows |->
                          [e.rows[f] EXCEPT !.payload = <<p, e.rows[f].payload>>]]
               packets == [f \in DOMAIN e.packets |-> <<p, e.packets[f]>>]
    <3>1. w = [e EXCEPT !.rows = rows, !.packets = packets]
      BY <2>3, Zenon
    <3> HIDE DEF rows, packets
    <3>2. w = [rows |-> rows, packets |-> packets, stats |-> e.stats]
      BY <2>2, <3>1
    <3> QED BY <3>2 DEF rows, packets
  <2>5. ASSUME NEW f \in 1 .. l PROVE IsRow(w.rows[f]) /\ w.rows[f].episode = k - 1
    <3> DEFINE row == e.rows[f]
    <3>1. row = [episode |-> row.episode, index |-> row.index, frame |-> row.frame,
                 task |-> row.task, payload |-> row.payload]
          /\ row.episode = k - 1
      BY <2>2 DEF IsRow
    <3>2. w.rows[f] = [row EXCEPT !.payload = <<p, row.payload>>]
      BY <2>2, <2>4
    <3> HIDE DEF row
    <3> QED BY <3>1, <3>2 DEF IsRow
  <2>6. w.rows = [f \in 1 .. l |-> w.rows[f]]
        /\ w.packets = [f \in 1 .. l |-> w.packets[f]]
    BY <2>2, <2>4
  <2>7. Framed(w, k, l)
    BY <2>4, <2>5, <2>6, Zenon DEF Framed
  <2> QED BY <2>7 DEF w
<1>8. new.episodes = [k \in 1 .. n |-> new.episodes[k]]
  BY <1>4, <1>5
<1>9. Presented(new, n)
  BY <1>4, <1>7, <1>8, Zenon DEF Presented
<1> QED
  BY <1>1, <1>6, <1>9, WrittenIsConverted

-----------------------------------------------------------------------------
(***************************************************************************)
(* What a merge finds in its parts.                                        *)
(***************************************************************************)

LEMMA MappedParts ==
  ASSUME NEW n \in Nat, DOMAIN parts = 1 .. n,
         \A p \in DOMAIN parts : Converted(parts[p])
  PROVE  \A r \in DOMAIN BuildManifest.data :
           BuildManifest.data[r][1] \in DOMAIN parts
<1> DEFINE pairs(p) == [i \in DOMAIN parts[p].meta |-> <<p, i>>]
           seqs == [p \in DOMAIN parts |-> pairs(p)]
           S == (1 .. n) \X Nat
           T == Seq(S)
           mapped == MappedEpisodes
<1>1. ASSUME NEW p \in 1 .. n PROVE pairs(p) \in T
  <2>1. PICK l \in Nat : DOMAIN parts[p].meta = 1 .. l
    <3> DEFINE view == Read(parts[p])
               l == Len(view.episodes)
    <3>1. Presented(view, l) /\ l \in Nat /\ parts[p] = Write(parts[p].version, view)
      BY DEF Converted
    <3> HIDE DEF view, l
    <3>2. DOMAIN view.episodes = 1 .. l
      BY <3>1 DEF Presented
    <3>3. DOMAIN Lens(view) = 1 .. l
      BY <3>2 DEF Lens
    <3>4. DOMAIN WriteV21(view).meta = 1 .. l /\ DOMAIN WriteV30(view).meta = 1 .. l
      BY <3>3 DEF WriteV21, WriteV30
    <3>5. DOMAIN parts[p].meta = 1 .. l
      BY <3>1, <3>4, Zenon DEF Write
    <3> QED BY <3>1, <3>5
  <2>2. pairs(p) \in [1 .. l -> S]
    BY <2>1
  <2> HIDE DEF S, pairs
  <2> QED BY <2>2, SeqOfFunction
<1> HIDE DEF pairs, S, T
<1>2. seqs \in [1 .. n -> T]
  BY <1>1
<1>3. seqs \in Seq(T)
  <2> HIDE DEF seqs
  <2> QED BY <1>2, SeqOfFunction
<1>4. mapped = FlattenSeq(seqs)
  BY DEF MappedEpisodes, pairs
<1> HIDE DEF seqs, mapped
<1>5. mapped \in Seq(S)
  BY <1>3, <1>4, FlattenType DEF T
<1>6. Len(mapped) \in Nat /\ DOMAIN mapped = 1 .. Len(mapped)
      /\ \A m \in 1 .. Len(mapped) : mapped[m] \in S
  BY <1>5, LenProperties, ElementOfSeq
<1> DEFINE files == [m \in DOMAIN mapped |->
                       DataFile(parts[mapped[m][1]], mapped[m][2])]
           seq == [m \in DOMAIN mapped |-> <<mapped[m][1], files[m]>>]
<1>7. BuildManifest.data = Deduplicated(seq)
  BY DEF BuildManifest, Resources, mapped
<1> HIDE DEF files
<1>8. DOMAIN seq = 1 .. Len(mapped) /\ \A m \in 1 .. Len(mapped) : seq[m][1] \in 1 .. n
  BY <1>6 DEF S
<1> HIDE DEF seq
<1>9. \A k \in DOMAIN Deduplicated(seq) :
        \E i \in 1 .. Len(mapped) : Deduplicated(seq)[k] = seq[i]
  BY <1>6, <1>8, DeduplicatedType
<1> QED
  BY <1>7, <1>8, <1>9

-----------------------------------------------------------------------------

(* What a conversion and a merge keep: the plan and the source as its      *)
(* reader presents it while there is one, parts that a backend has         *)
(* written, and in a merge more than one of them.                          *)
Converting == stage \in {"request", "cut", "planned"}

InConversion == PlanInv /\ Presented(source, total) /\ target \in Versions

InMerge ==
  /\ Len(parts) > 1
  /\ \A r \in DOMAIN manifest.data : manifest.data[r][1] \in DOMAIN parts

PartsInv ==
  /\ parts = [k \in DOMAIN parts |-> parts[k]]
  /\ \A k \in DOMAIN parts : Converted(parts[k])
  /\ stage = "inputs" => \E n \in Nat : DOMAIN parts = 1 .. n

PipeInv ==
  /\ PartsInv
  /\ Converting => InConversion
  /\ stage = "merging" => InMerge

LEMMA PipeStart == Init => PipeInv
<1> SUFFICES ASSUME Init PROVE PipeInv
  OBVIOUS
<1>1. CASE ConvertInit
  <2>1. PlanInit /\ parts = <<>> /\ target \in Targets /\ stage = "request"
    BY <1>1 DEF ConvertInit, PlanInit, Nothing
  <2>2. PICK lens \in [1 .. total -> Lengths], table \in TaskTables,
             splits \in Splits : source = Recorded(lens, table, splits)
    BY <1>1 DEF ConvertInit
  <2>3. total \in Nat /\ PlanInv
    BY <2>1, PlanStart, PartitionAssumption DEF PlanInit, PartitionAssumption
  <2>4. lens \in [1 .. total -> Nat \ {0}] /\ target \in Versions
    BY <2>1, <2>2, PipelineAssumption DEF PipelineAssumption, Versions
  <2>5. InConversion
    BY <2>2, <2>3, <2>4, RecordedIsPresented DEF InConversion
  <2>6. DOMAIN parts = {} /\ parts = [k \in DOMAIN parts |-> parts[k]]
    BY <2>1
  <2> QED BY <2>1, <2>5, <2>6 DEF PipeInv, PartsInv
<1>2. CASE MergeInit
  <2>1. PICK inputs \in Merges : parts = [p \in DOMAIN inputs |-> Input(p, inputs[p])]
    BY <1>2, Zenon DEF MergeInit
  <2>2. stage = "inputs"
    BY <1>2 DEF MergeInit
  <2>3. inputs \in Seq(Range(inputs))
        /\ \A p \in DOMAIN inputs : inputs[p].lens \in Seq(Lengths)
                                    /\ inputs[p].version \in Versions
    BY <2>1, PipelineAssumption DEF PipelineAssumption, Versions
  <2>4. Len(inputs) \in Nat /\ DOMAIN inputs = 1 .. Len(inputs)
    BY <2>3, LenProperties
  <2>5. \A p \in DOMAIN inputs : Converted(Input(p, inputs[p]))
    BY <2>3, InputIsConverted
  <2>6. DOMAIN parts = DOMAIN inputs /\ parts = [k \in DOMAIN parts |-> parts[k]]
        /\ \A p \in DOMAIN parts : Converted(parts[p])
    BY <2>1, <2>5
  <2> QED BY <2>2, <2>4, <2>6 DEF PipeInv, PartsInv, Converting
<1> QED BY <1>1, <1>2 DEF Init

LEMMA PipeStep == PipeInv /\ [Next]_pipelineVars => PipeInv'
<1> SUFFICES ASSUME PipeInv, [Next]_pipelineVars PROVE PipeInv'
  OBVIOUS
<1>0. PartsInv /\ (Converting => InConversion) /\ (stage = "merging" => InMerge)
  BY DEF PipeInv
<1>1. ASSUME UNCHANGED parts, stage' # "inputs" \/ UNCHANGED stage PROVE PartsInv'
  BY <1>0, <1>1 DEF PartsInv
<1>2. CASE Plan
  <2>1. Converting /\ stage' \in {"cut", "planned", "rejected"} /\ total' = total
        /\ PlanInv'
    <3>1. PlanInv
      BY <1>0, <1>2 DEF Plan, PlanNext, PlanReject, PlanAccept, CutSized, CutBalanced,
                        PlanWrite, Converting, InConversion
    <3>2. PlanInv'
      BY <1>2, <3>1, PlanStep DEF Plan
    <3> QED BY <1>2, <3>2 DEF Plan, PlanNext, PlanReject, PlanAccept, CutSized,
                              CutBalanced, PlanWrite, Converting, options
  <2>2. UNCHANGED <<source, target, parts>>
    BY <1>2 DEF Plan, pipeVars
  <2>3. InConversion'
    BY <1>0, <2>1, <2>2 DEF InConversion
  <2> QED BY <1>1, <2>1, <2>2, <2>3 DEF PipeInv
<1>3. ASSUME NEW k \in DOMAIN intervals, ConvertPart(k) PROVE PipeInv'
  <2> DEFINE i == intervals[k]
             part == Write(target, Subset(source, i))
  <2>1. /\ stage = "planned" /\ UNCHANGED <<planVars, source, target, manifest>>
        /\ parts' = Assign(parts, k, part)
    BY <1>3 DEF ConvertPart, mergeVars
  <2>2. InConversion /\ InConversion'
    <3>1. InConversion
      BY <1>0, <2>1 DEF Converting
    <3>2. PlanInv'
      <4>1. [PlanNext]_planVars
        BY <2>1
      <4> QED BY <3>1, <4>1, PlanStep DEF InConversion
    <3> QED BY <2>1, <3>1, <3>2 DEF InConversion, planVars
  <2>3. i.start \in Nat /\ i.stop \in Nat /\ i.start <= i.stop /\ i.stop <= total
        /\ total \in Nat
    <3>1. PlanTypeOK /\ Ordered
      BY <2>1, <2>2 DEF InConversion, PlanInv, Cut
    <3>2. i \in [start : Nat, stop : Nat] /\ total \in Nat /\ start \in Nat
      <4>1. intervals \in Seq([start : Nat, stop : Nat])
        BY <3>1 DEF PlanTypeOK
      <4>2. k \in 1 .. Len(intervals)
        BY <4>1, LenProperties
      <4>3. i \in [start : Nat, stop : Nat]
        BY <4>1, <4>2, ElementOfSeq
      <4> QED BY <3>1, <4>3 DEF PlanTypeOK
    <3>3. i.start < i.stop /\ i.stop <= Reached
      BY <3>1 DEF Ordered
    <3> HIDE DEF i
    <3>4. Reached <= total /\ Reached \in Nat
      BY <3>2 DEF Reached, Smaller
    <3>5. i.start \in Nat /\ i.stop \in Nat
      BY <3>2
    <3> QED BY <3>2, <3>3, <3>4, <3>5
  <2>4. Converted(part)
    <3> HIDE DEF i
    <3>1. Presented(Subset(source, i), i.stop - i.start)
      BY <2>2, <2>3, SubsetIsPresented DEF InConversion
    <3>2. i.stop - i.start \in Nat /\ target \in Versions
      BY <2>2, <2>3 DEF InConversion
    <3> QED BY <3>1, <3>2, WrittenIsConverted
  <2> HIDE DEF part
  <2>5. PartsInv'
    <3>1. DOMAIN parts' = DOMAIN parts \cup {k}
          /\ parts' = [l \in DOMAIN parts' |-> parts'[l]]
          /\ \A l \in DOMAIN parts' : parts'[l] = IF l = k THEN part ELSE parts[l]
      BY <2>1 DEF Assign
    <3>2. \A l \in DOMAIN parts' : Converted(parts'[l])
      BY <1>0, <2>4, <3>1, Zenon DEF PartsInv
    <3>3. stage' = "planned"
      BY <2>1 DEF planVars
    <3> QED BY <3>1, <3>2, <3>3 DEF PartsInv
  <2>6. stage' = "planned"
    BY <2>1 DEF planVars
  <2> QED BY <2>2, <2>5, <2>6 DEF PipeInv
<1>4. CASE CopyPart
  <2>1. stage' = "built" /\ parts' = parts
    BY <1>4 DEF CopyPart
  <2> QED BY <1>1, <2>1 DEF PipeInv, Converting
<1>5. CASE MergeOpen
  <2>1. stage = "planned" /\ stage' = "merging" /\ UNCHANGED parts
        /\ manifest' = BuildManifest /\ PartsDone /\ Len(intervals) > 1
    BY <1>5 DEF MergeOpen, AllConverted
  <2> DEFINE n == Len(intervals)
  <2>2. n \in Nat /\ DOMAIN parts = 1 .. n
    <3>1. intervals \in Seq([start : Nat, stop : Nat])
      BY <1>0, <2>1 DEF Converting, InConversion, PlanInv, PlanTypeOK
    <3> QED BY <2>1, <3>1, LenProperties DEF PartsDone
  <2>3. parts = [k \in 1 .. n |-> parts[k]]
    BY <1>0, <2>2 DEF PartsInv
  <2> HIDE DEF n
  <2>4. Len(parts) = n
    BY <2>2, <2>3, LenOfFunction
  <2>5. \A p \in DOMAIN parts : Converted(parts[p])
    BY <1>0 DEF PartsInv
  <2>6. \A r \in DOMAIN BuildManifest.data : BuildManifest.data[r][1] \in DOMAIN parts
    BY <2>2, <2>5, MappedParts
  <2>7. InMerge'
    BY <2>1, <2>4, <2>6 DEF InMerge, n
  <2> QED BY <1>1, <2>1, <2>7 DEF PipeInv, Converting
<1>6. CASE MergeRefused \/ MachineRefuses
  <2>1. stage' = "rejected" /\ parts' = parts
    BY <1>6 DEF MergeRefused, MachineRefuses, pipeVars
  <2> QED BY <1>1, <2>1 DEF PipeInv, Converting
<1>7. CASE MergeDatasets
  <2>1. stage = "inputs" /\ stage' = "merging" /\ UNCHANGED parts
        /\ manifest' = BuildManifest /\ Len(parts) >= 2
    BY <1>7 DEF MergeDatasets, Mergeable
  <2>2. PICK n \in Nat : DOMAIN parts = 1 .. n
    BY <1>0, <2>1 DEF PartsInv
  <2>3. parts = [k \in 1 .. n |-> parts[k]]
        /\ \A p \in DOMAIN parts : Converted(parts[p])
    BY <1>0, <2>2 DEF PartsInv
  <2>4. Len(parts) = n
    BY <2>3, LenOfFunction
  <2>5. \A r \in DOMAIN BuildManifest.data : BuildManifest.data[r][1] \in DOMAIN parts
    BY <2>2, <2>3, MappedParts
  <2>6. InMerge'
    BY <2>1, <2>4, <2>5 DEF InMerge
  <2> QED BY <1>1, <2>1, <2>6 DEF PipeInv, Converting
<1>8. ASSUME NEW r \in 1 .. total, RewriteData(r) \/ CopyMedia(r) PROVE PipeInv'
  <2>1. stage = "merging" /\ stage' = stage /\ UNCHANGED <<parts, manifest>>
    BY <1>8 DEF RewriteData, CopyMedia, planVars
  <2>2. InMerge'
    BY <1>0, <2>1 DEF InMerge
  <2> QED BY <1>1, <2>1, <2>2 DEF PipeInv, Converting
<1>9. CASE MergeFails
  <2>1. stage' = "failed" /\ parts' = parts
    BY <1>9 DEF MergeFails, pipeVars
  <2> QED BY <1>1, <2>1 DEF PipeInv, Converting
<1>10. CASE WriteMetadata
  <2>1. stage' \in {"merged", "built"} /\ parts' = parts
    BY <1>10 DEF WriteMetadata
  <2> QED BY <1>1, <2>1 DEF PipeInv, Converting
<1>11. CASE RestoreStats
  <2>1. stage' = "restored" /\ parts' = parts
    BY <1>11 DEF RestoreStats
  <2> QED BY <1>1, <2>1 DEF PipeInv, Converting
<1>12. CASE UNCHANGED pipelineVars
  <2>1. UNCHANGED <<planVars, stage, total, source, target, parts, manifest>>
    BY <1>12 DEF pipelineVars, pipeVars, planVars, mergeVars
  <2>2. Converting' => InConversion'
    <3> SUFFICES ASSUME Converting' PROVE InConversion'
      OBVIOUS
    <3>1. InConversion
      BY <1>0, <2>1 DEF Converting
    <3>2. PlanInv'
      <4>1. [PlanNext]_planVars
        BY <2>1
      <4> QED BY <3>1, <4>1, PlanStep DEF InConversion
    <3> QED BY <2>1, <3>1, <3>2 DEF InConversion
  <2> QED BY <1>0, <1>1, <2>1, <2>2 DEF PipeInv, InMerge
<1> QED
  BY <1>2, <1>3, <1>4, <1>5, <1>6, <1>7, <1>8, <1>9, <1>10, <1>11, <1>12, Zenon
  DEF Next, Ended

(* Local conversion loses, moves and renumbers nothing: what a backend     *)
(* wrote from any source is read back as that source, in either layout,    *)
(* for every episode length, every file size limit and chunk size.         *)
THEOREM ConversionIsFaithfulThm == Spec => []ConversionIsFaithful
<1>1. PipeInv => ConversionIsFaithful
  <2> SUFFICES ASSUME PipeInv, stage = "request"
               PROVE  Read(Write(target, source)) = source
    BY DEF ConversionIsFaithful
  <2>1. Presented(source, total) /\ target \in {"v2.1", "v3.0"} /\ total \in Nat
    BY DEF PipeInv, Converting, InConversion, PlanInv, PlanTypeOK, Versions
  <2> QED BY <2>1, WrittenIsRead
<1> QED BY <1>1, PipeStart, PipeStep, PTL DEF Spec

(* The data files of every part, and of every input of a merge, stay below *)
(* the configured size unless they hold a single episode.                  *)
THEOREM ShardsStayBelowLimitThm == Spec => []ShardsStayBelowLimit
<1>1. PipeInv => ShardsStayBelowLimit
  <2> SUFFICES ASSUME PipeInv, NEW k \in DOMAIN parts, parts[k].version = "v3.0",
                      NEW file \in DOMAIN parts[k].data
               PROVE  LET rows == parts[k].data[file]
                      IN  Len(rows) < DataLimit \/ \A f \in DOMAIN rows :
                                                     rows[f].episode = rows[1].episode
    BY DEF ShardsStayBelowLimit
  <2> DEFINE view == Read(parts[k])
             n == Len(view.episodes)
  <2>1. Presented(view, n) /\ n \in Nat /\ parts[k] = Write("v3.0", view)
    BY DEF PipeInv, PartsInv, Converted
  <2> HIDE DEF view, n
  <2>2. parts[k] = WriteV30(view)
    BY <2>1 DEF Write
  <2>3. file \in DOMAIN WriteV30(view).data
    BY <2>2
  <2> QED BY <2>1, <2>2, <2>3, ShardIsBelow
<1> QED BY <1>1, PipeStart, PipeStep, PTL DEF Spec

-----------------------------------------------------------------------------
(***************************************************************************)
(* What a merge writes, as a function of its parts.                        *)
(***************************************************************************)

(* The manifest as a function of the parts.                                *)
EpisodesOf(ps) == FlattenSeq([p \in DOMAIN ps |-> [i \in DOMAIN ps[p].meta |-> <<p, i>>]])

TextsOf(ps) == FlattenSeq(
  [p \in DOMAIN ps |->
    [k \in DOMAIN Labels(ps[p].tasks) |-> ps[p].tasks[Labels(ps[p].tasks)[k]]]])

DataUsed(ps, mapped) ==
  [m \in DOMAIN mapped |-> <<mapped[m][1], DataFile(ps[mapped[m][1]], mapped[m][2])>>]

VideoUsed(ps, mapped) ==
  [m \in DOMAIN mapped |-> <<mapped[m][1], VideoFile(ps[mapped[m][1]], mapped[m][2])>>]

ManifestOf(ps) ==
  [episodes |-> EpisodesOf(ps),
   lens |-> [m \in DOMAIN EpisodesOf(ps) |->
               ps[EpisodesOf(ps)[m][1]].meta[EpisodesOf(ps)[m][2]].length],
   texts |-> Deduplicated(TextsOf(ps)),
   data |-> Deduplicated(DataUsed(ps, EpisodesOf(ps))),
   video |-> Deduplicated(VideoUsed(ps, EpisodesOf(ps)))]

(* The merge builds its manifest from its parts alone.                     *)
LEMMA ManifestIs == BuildManifest = ManifestOf(parts)
<1> DEFINE mapped == EpisodesOf(parts)
           Part(m) == parts[mapped[m][1]]
           Data == [m \in DOMAIN mapped |-> DataFile(Part(m), mapped[m][2])]
           Video == [m \in DOMAIN mapped |-> VideoFile(Part(m), mapped[m][2])]
<1>1. MappedEpisodes = mapped /\ Texts = Deduplicated(TextsOf(parts))
  BY Zenon DEF MappedEpisodes, Texts, EpisodesOf, TextsOf
<1>2. BuildManifest =
        [episodes |-> mapped,
         lens |-> [m \in DOMAIN mapped |-> Part(m).meta[mapped[m][2]].length],
         texts |-> Texts,
         data |-> Resources(mapped, Data),
         video |-> Resources(mapped, Video)]
  BY <1>1, Zenon DEF BuildManifest
<1>3. [m \in DOMAIN mapped |-> <<mapped[m][1], Data[m]>>] = DataUsed(parts, mapped)
      /\ [m \in DOMAIN mapped |-> <<mapped[m][1], Video[m]>>] = VideoUsed(parts, mapped)
  <2> HIDE DEF mapped
  <2> QED BY DEF DataUsed, VideoUsed
<1> HIDE DEF Data, Video
<1>4. Resources(mapped, Data) = Deduplicated(DataUsed(parts, mapped))
      /\ Resources(mapped, Video) = Deduplicated(VideoUsed(parts, mapped))
  BY <1>3, Zenon DEF Resources
<1> QED
  BY <1>1, <1>2, <1>4, Zenon DEF ManifestOf

(* Datasets of one version.                                                *)
Alike(ps, version, n) ==
  /\ n \in Nat /\ ps = [p \in 1 .. n |-> ps[p]] /\ version \in Versions
  /\ \A p \in 1 .. n : Sound(ps[p], Len(ps[p].meta)) /\ ps[p].version = version

(* off says how many episodes come before each part.                       *)
Numbers(man, ps, off, n) ==
  /\ off \in [1 .. n + 1 -> Nat] /\ off[1] = 0
  /\ \A p \in 1 .. n : off[p + 1] = off[p] + Len(ps[p].meta)
  /\ DOMAIN man.episodes = 1 .. off[n + 1]
  /\ man.lens = [m \in 1 .. off[n + 1] |-> man.lens[m]]
  /\ \A p \in 1 .. n : \A i \in 1 .. Len(ps[p].meta) :
       /\ off[p] + i \in 1 .. off[n + 1]
       /\ man.episodes[off[p] + i] = <<p, i>>
       /\ man.lens[off[p] + i] = ps[p].meta[i].length
  /\ \A m \in 1 .. off[n + 1] :
       \E p \in 1 .. n : \E i \in 1 .. Len(ps[p].meta) : m = off[p] + i

(* The manifest numbers the episodes of all parts in one sequence, part    *)
(* after part.                                                             *)
LEMMA ManifestNumbers ==
  ASSUME NEW ps, NEW version, NEW n, Alike(ps, version, n)
  PROVE  \E off : Numbers(ManifestOf(ps), ps, off, n)
<1> DEFINE pairs(p) == [i \in DOMAIN ps[p].meta |-> <<p, i>>]
           seqs == [p \in DOMAIN ps |-> pairs(p)]
           S == (1 .. n) \X Nat
           T == Seq(S)
           mapped == EpisodesOf(ps)
           man == ManifestOf(ps)
<1>1. n \in Nat /\ DOMAIN ps = 1 .. n
  BY DEF Alike
<1>2. ASSUME NEW p \in 1 .. n
      PROVE  /\ Len(ps[p].meta) \in Nat
             /\ DOMAIN ps[p].meta = 1 .. Len(ps[p].meta)
  <2> DEFINE meta == ps[p].meta
             l == Len(meta)
  <2>1. l \in Nat /\ meta = [i \in 1 .. l |-> meta[i]]
    BY DEF Alike, Sound
  <2> HIDE DEF l
  <2>2. DOMAIN meta = 1 .. l
    BY <2>1
  <2> QED BY <2>1, <2>2 DEF l
<1>3. ASSUME NEW p \in 1 .. n
      PROVE  pairs(p) \in T /\ Len(pairs(p)) = Len(ps[p].meta)
  <2> DEFINE l == Len(ps[p].meta)
  <2>1. l \in Nat /\ DOMAIN ps[p].meta = 1 .. l
    BY <1>2
  <2> HIDE DEF l
  <2>2. pairs(p) \in [1 .. l -> S]
    BY <2>1
  <2> HIDE DEF S, pairs
  <2>3. pairs(p) \in Seq(S) /\ Len(pairs(p)) = l
    BY <2>1, <2>2, SeqOfFunction
  <2> QED BY <2>3 DEF l
<1>4. \A p \in 1 .. n : \A i \in 1 .. Len(ps[p].meta) : pairs(p)[i] = <<p, i>>
  BY <1>2
<1> HIDE DEF pairs, S, T
<1>5. seqs \in Seq(T) /\ Len(seqs) = n /\ \A p \in 1 .. n : seqs[p] = pairs(p)
  <2>1. seqs \in [1 .. n -> T] /\ \A p \in 1 .. n : seqs[p] = pairs(p)
    BY <1>1, <1>3
  <2> HIDE DEF seqs
  <2> QED BY <1>1, <2>1, SeqOfFunction
<1>6. mapped = FlattenSeq(seqs)
  BY DEF EpisodesOf, pairs
<1> HIDE DEF seqs, mapped
<1>7. PICK off : Positions(off, seqs, S)
  <2>1. seqs \in Seq(Seq(S))
    BY <1>5 DEF T
  <2> QED BY <2>1, PositionsExist
<1>8. /\ off \in [1 .. n + 1 -> Nat] /\ off[1] = 0
      /\ \A p \in 1 .. n : off[p + 1] = off[p] + Len(ps[p].meta)
  BY <1>3, <1>5, <1>7 DEF Positions
<1>9. /\ mapped \in Seq(S) /\ Len(mapped) = off[n + 1]
      /\ \A p \in 1 .. n : \A i \in 1 .. Len(ps[p].meta) :
           off[p] + i \in 1 .. off[n + 1] /\ mapped[off[p] + i] = <<p, i>>
  <2>1. /\ FlattenSeq(seqs) \in Seq(S)
        /\ Len(FlattenSeq(seqs)) = off[Len(seqs) + 1]
        /\ \A k \in 1 .. Len(seqs) : \A j \in 1 .. Len(seqs[k]) :
             /\ off[k] + j \in 1 .. off[Len(seqs) + 1]
             /\ FlattenSeq(seqs)[off[k] + j] = seqs[k][j]
    BY <1>7, FlattenAt
  <2> QED BY <1>3, <1>4, <1>5, <1>6, <2>1
<1>10. DOMAIN mapped = 1 .. off[n + 1]
  BY <1>9, LenProperties
<1>11. ASSUME NEW m \in 1 .. off[n + 1]
       PROVE  \E p \in 1 .. n : \E i \in 1 .. Len(ps[p].meta) : m = off[p] + i
  <2>1. m \in 1 .. off[Len(seqs) + 1]
    BY <1>5
  <2>2. \E p \in 1 .. Len(seqs) : \E i \in 1 .. Len(seqs[p]) : m = off[p] + i
    BY <1>7, <2>1, FlattenCover
  <2> QED BY <1>3, <1>5, <2>2
<1>12. /\ man.episodes = mapped
       /\ man.lens = [m \in DOMAIN mapped |-> ps[mapped[m][1]].meta[mapped[m][2]].length]
  BY DEF ManifestOf, mapped
<1> HIDE DEF man
<1>13. man.lens = [m \in 1 .. off[n + 1] |-> man.lens[m]]
  BY <1>10, <1>12
<1>14. ASSUME NEW p \in 1 .. n, NEW i \in 1 .. Len(ps[p].meta)
       PROVE  /\ off[p] + i \in 1 .. off[n + 1]
              /\ man.episodes[off[p] + i] = <<p, i>>
              /\ man.lens[off[p] + i] = ps[p].meta[i].length
  BY <1>9, <1>10, <1>12
<1>15. DOMAIN man.episodes = 1 .. off[n + 1]
  BY <1>10, <1>12
<1>16. Numbers(man, ps, off, n)
  BY <1>8, <1>11, <1>13, <1>14, <1>15, Zenon DEF Numbers
<1> QED BY <1>16 DEF man

(* Each episode has one place.                                             *)
LEMMA OnePlace ==
  ASSUME NEW man, NEW ps, NEW off, NEW n, Numbers(man, ps, off, n),
         NEW p \in 1 .. n, NEW i \in 1 .. Len(ps[p].meta)
  PROVE  /\ off[p] + i \in DOMAIN man.episodes
         /\ man.episodes[off[p] + i] = <<p, i>>
         /\ \A m \in DOMAIN man.episodes : man.episodes[m] = <<p, i>> => m = off[p] + i
<1>1. off[p] + i \in DOMAIN man.episodes /\ man.episodes[off[p] + i] = <<p, i>>
  BY DEF Numbers
<1>2. ASSUME NEW m \in DOMAIN man.episodes, man.episodes[m] = <<p, i>>
      PROVE  m = off[p] + i
  <2>1. PICK q \in 1 .. n : \E j \in 1 .. Len(ps[q].meta) : m = off[q] + j
    BY DEF Numbers
  <2>2. PICK j \in 1 .. Len(ps[q].meta) : m = off[q] + j
    BY <2>1
  <2>3. man.episodes[m] = <<q, j>>
    BY <2>2 DEF Numbers
  <2>4. q = p /\ j = i
    BY <1>2, <2>3
  <2> QED BY <2>2, <2>4
<1> QED BY <1>1, <1>2

(* The merge as a function of its parts and of what it has found in them.  *)
TasksOf(man) == [k \in 0 .. Len(man.texts) - 1 |-> man.texts[k + 1]]

NewRow(ps, man, p, row) ==
  LET output == CHOOSE m \in DOMAIN man.episodes : man.episodes[m] = <<p, row.episode + 1>>
  IN  [row EXCEPT !.episode = output - 1,
                  !.index = Offset(man.lens, output) + row.frame,
                  !.task = CHOOSE k \in DOMAIN TasksOf(man) :
                             TasksOf(man)[k] = ps[p].tasks[row.task]]

NumberOf(res, p, file) == CHOOSE r \in DOMAIN res : res[r] = <<p, file>>

NewMeta(version, ps, man, m) ==
  LET p == man.episodes[m][1]
      row == ps[p].meta[man.episodes[m][2]]
  IN  IF version = "v2.1" THEN [row EXCEPT !.stats = Recomputed]
      ELSE [row EXCEPT !.stats = Recomputed,
                       !.from = Offset(man.lens, m),
                       !.data = Place(NumberOf(man.data, p, row.data) - 1),
                       !.video = Place(NumberOf(man.video, p, row.video) - 1)]

NewFileOf(ps, man, used) ==
  LET rows == ps[used[1]].data[used[2]]
  IN  [f \in DOMAIN rows |-> NewRow(ps, man, used[1], rows[f])]

Merged(version, ps, man, dat, vid) ==
  [version |-> version, tasks |-> TasksOf(man), splits |-> ps[1].splits,
   meta |-> [m \in DOMAIN man.episodes |-> NewMeta(version, ps, man, m)],
   data |-> dat, video |-> vid]

Moved(version, ps, man, dat, vid) ==
  /\ \A r \in DOMAIN man.data : dat[FileName(version, r)] = NewFileOf(ps, man, man.data[r])
  /\ \A r \in DOMAIN man.video :
       vid[FileName(version, r)] = ps[man.video[r][1]].video[man.video[r][2]]

Numbering(ps, version, n, man, off) ==
  /\ Alike(ps, version, n) /\ man = ManifestOf(ps) /\ Numbers(man, ps, off, n)

Uses(ps, man, off, n) ==
  /\ off[n + 1] \in Nat
  /\ Lists(man.data, DataUsed(ps, man.episodes), off[n + 1])
  /\ Lists(man.video, VideoUsed(ps, man.episodes), off[n + 1])
  /\ \A p \in 1 .. n : \A i \in 1 .. Len(ps[p].meta) :
       /\ DataUsed(ps, man.episodes)[off[p] + i] = <<p, DataFile(ps[p], i)>>
       /\ VideoUsed(ps, man.episodes)[off[p] + i] = <<p, VideoFile(ps[p], i)>>

(* The files of the manifest are those that its episodes use.              *)
LEMMA UsedFiles ==
  ASSUME NEW ps, NEW version, NEW n, NEW man, NEW off,
         Numbering(ps, version, n, man, off)
  PROVE  Uses(ps, man, off, n)
<1> DEFINE used == DataUsed(ps, man.episodes)
           shown == VideoUsed(ps, man.episodes)
           c == off[n + 1]
<1>1. Numbers(man, ps, off, n) /\ n \in Nat /\ man = ManifestOf(ps)
  BY DEF Numbering, Alike
<1>2. c \in Nat /\ DOMAIN man.episodes = 1 .. c
  <2>1. n + 1 \in 1 .. n + 1
    BY <1>1
  <2> QED BY <1>1, <2>1 DEF Numbers
<1>3. man.episodes = EpisodesOf(ps) /\ man.data = Deduplicated(used)
      /\ man.video = Deduplicated(shown)
  <2>1. man.episodes = EpisodesOf(ps)
    BY <1>1 DEF ManifestOf
  <2>2. man.data = Deduplicated(DataUsed(ps, EpisodesOf(ps)))
        /\ man.video = Deduplicated(VideoUsed(ps, EpisodesOf(ps)))
    BY <1>1 DEF ManifestOf
  <2> QED BY <2>1, <2>2
<1>4. DOMAIN used = 1 .. c /\ DOMAIN shown = 1 .. c
  BY <1>2 DEF DataUsed, VideoUsed
<1>5. ASSUME NEW p \in 1 .. n, NEW i \in 1 .. Len(ps[p].meta)
      PROVE  /\ used[off[p] + i] = <<p, DataFile(ps[p], i)>>
             /\ shown[off[p] + i] = <<p, VideoFile(ps[p], i)>>
  <2>1. off[p] + i \in DOMAIN man.episodes /\ man.episodes[off[p] + i] = <<p, i>>
    BY <1>1, OnePlace
  <2> QED BY <2>1 DEF DataUsed, VideoUsed
<1> HIDE DEF used, shown, c
<1>6. Lists(man.data, used, c) /\ Lists(man.video, shown, c)
  BY <1>2, <1>3, <1>4, DeduplicatedIs
<1>7. /\ c \in Nat /\ Lists(man.data, used, c) /\ Lists(man.video, shown, c)
      /\ \A p \in 1 .. n : \A i \in 1 .. Len(ps[p].meta) :
           /\ used[off[p] + i] = <<p, DataFile(ps[p], i)>>
           /\ shown[off[p] + i] = <<p, VideoFile(ps[p], i)>>
  BY <1>2, <1>5, <1>6
<1> QED BY <1>7, Zenon DEF Uses, used, shown, c

(* Listed resources have one number each.                                  *)
Occurs(used, n, u) == n \in Nat /\ \E m \in 1 .. n : used[m] = u

IsNumberOf(res, r, u) == r \in DOMAIN res /\ r \in Nat \ {0} /\ res[r] = u

(* A file that some episode uses has a number, and is the one so numbered. *)
LEMMA NumberIs ==
  ASSUME NEW res, NEW used, NEW n, Lists(res, used, n), NEW p, NEW file,
         Occurs(used, n, <<p, file>>)
  PROVE  IsNumberOf(res, NumberOf(res, p, file), <<p, file>>)
<1>1. \E r \in DOMAIN res : res[r] = <<p, file>>
  <2>1. PICK m \in 1 .. n : used[m] = <<p, file>>
    BY DEF Occurs
  <2>2. PICK r \in DOMAIN res : res[r] = used[m]
    BY DEF Lists
  <2> QED BY <2>1, <2>2
<1>2. PICK c \in Nat : DOMAIN res = 1 .. c
  BY DEF Lists
<1>3. NumberOf(res, p, file) \in DOMAIN res /\ res[NumberOf(res, p, file)] = <<p, file>>
  BY <1>1 DEF NumberOf
<1> QED BY <1>2, <1>3 DEF IsNumberOf

(* The line of metadata of an episode.                                     *)
LEMMA MetaMoved ==
  ASSUME NEW ps, NEW version, NEW n, NEW man, NEW off,
         Numbering(ps, version, n, man, off), NEW dat, NEW vid,
         NEW p \in 1 .. n, NEW i \in 1 .. Len(ps[p].meta)
  PROVE  LET out == Merged(version, ps, man, dat, vid)
             old == ps[p].meta[i]
             new == out.meta[off[p] + i]
         IN  /\ DOMAIN out.meta = 1 .. off[n + 1] /\ off[p] + i \in 1 .. off[n + 1]
             /\ MetaRow(new, version) /\ new.length = old.length
             /\ version = "v3.0" =>
                  /\ new.from = Offset(man.lens, off[p] + i)
                  /\ new.data = Place(NumberOf(man.data, p, old.data) - 1)
                  /\ new.video = Place(NumberOf(man.video, p, old.video) - 1)
                  /\ new.start = old.start /\ new.end = old.end
<1> DEFINE out == Merged(version, ps, man, dat, vid)
           old == ps[p].meta[i]
           new == out.meta[off[p] + i]
           d == Place(NumberOf(man.data, p, old.data) - 1)
           v == Place(NumberOf(man.video, p, old.video) - 1)
           o == Offset(man.lens, off[p] + i)
<1>1. /\ off[p] + i \in DOMAIN man.episodes /\ man.episodes[off[p] + i] = <<p, i>>
      /\ DOMAIN man.episodes = 1 .. off[n + 1]
  BY OnePlace DEF Numbering, Numbers
<1>2. MetaRow(old, version) /\ version \in Versions
  <2>1. Sound(ps[p], Len(ps[p].meta)) /\ ps[p].version = version /\ version \in Versions
    BY DEF Numbering, Alike
  <2>2. SoundEpisode(ps[p], i)
    BY <2>1 DEF Sound
  <2> QED BY <2>1, <2>2 DEF SoundEpisode
<1>3. out.meta = [m \in DOMAIN man.episodes |-> NewMeta(version, ps, man, m)]
  BY DEF Merged
<1>4. new = NewMeta(version, ps, man, off[p] + i)
  BY <1>1, <1>3
<1>5. DOMAIN out.meta = 1 .. off[n + 1]
  BY <1>1, <1>3
<1>6. new = IF version = "v2.1" THEN [old EXCEPT !.stats = Recomputed]
            ELSE [old EXCEPT !.stats = Recomputed, !.from = o, !.data = d, !.video = v]
  <2>1. man.episodes[off[p] + i][1] = p /\ man.episodes[off[p] + i][2] = i
    BY <1>1
  <2> QED BY <1>4, <2>1 DEF NewMeta
<1> HIDE DEF out, old, new, d, v, o
<1>7. /\ MetaRow(new, version) /\ new.length = old.length
      /\ version = "v3.0" =>
           /\ new.from = o /\ new.data = d /\ new.video = v
           /\ new.start = old.start /\ new.end = old.end
  <2>1. CASE version = "v2.1"
    <3>1. old = [length |-> old.length, stats |-> old.stats]
      BY <1>2, <2>1 DEF MetaRow
    <3>2. new = [old EXCEPT !.stats = Recomputed]
      BY <1>6, <2>1
    <3>3. new = [length |-> old.length, stats |-> Recomputed]
      BY <3>1, <3>2
    <3> QED BY <2>1, <3>3 DEF MetaRow
  <2>2. CASE version = "v3.0"
    <3>1. old = [data |-> old.data, from |-> old.from, length |-> old.length,
                 video |-> old.video, start |-> old.start, end |-> old.end,
                 stats |-> old.stats]
      BY <1>2, <2>2 DEF MetaRow
    <3>2. new = [old EXCEPT !.stats = Recomputed, !.from = o, !.data = d, !.video = v]
      BY <1>6, <2>2
    <3>3. new = [data |-> d, from |-> o, length |-> old.length,
                 video |-> v, start |-> old.start, end |-> old.end,
                 stats |-> Recomputed]
      BY <3>1, <3>2
    <3> QED BY <2>2, <3>3 DEF MetaRow
  <2> QED BY <1>2, <2>1, <2>2 DEF Versions
<1>8. /\ DOMAIN out.meta = 1 .. off[n + 1] /\ off[p] + i \in 1 .. off[n + 1]
      /\ MetaRow(new, version) /\ new.length = old.length
      /\ version = "v3.0" =>
           /\ new.from = o /\ new.data = d /\ new.video = v
           /\ new.start = old.start /\ new.end = old.end
  BY <1>1, <1>5, <1>7
<1> QED BY <1>8, Zenon DEF out, old, new, d, v, o

(* In v2.1 every episode has files of its own.                             *)
LEMMA OwnFiles ==
  ASSUME NEW ps, NEW n, NEW man, NEW off, Numbering(ps, "v2.1", n, man, off),
         NEW p \in 1 .. n, NEW i \in 1 .. Len(ps[p].meta)
  PROVE  LET m == off[p] + i
         IN  /\ m \in DOMAIN man.data /\ man.data[m] = <<p, EpisodeFile(i - 1)>>
             /\ m \in DOMAIN man.video /\ man.video[m] = <<p, EpisodeFile(i - 1)>>
<1> DEFINE used == DataUsed(ps, man.episodes)
           shown == VideoUsed(ps, man.episodes)
           c == off[n + 1]
<1>1. /\ c \in Nat /\ Lists(man.data, used, c) /\ Lists(man.video, shown, c)
      /\ \A q \in 1 .. n : \A j \in 1 .. Len(ps[q].meta) :
           /\ used[off[q] + j] = <<q, DataFile(ps[q], j)>>
           /\ shown[off[q] + j] = <<q, VideoFile(ps[q], j)>>
  <2>1. n \in Nat
    BY DEF Numbering, Alike
  <2>2. Uses(ps, man, off, n)
    BY UsedFiles
  <2> QED BY <2>1, <2>2, Zenon DEF Uses
<1> HIDE DEF used, shown, c
<1>2. /\ \A q \in 1 .. n : Sound(ps[q], Len(ps[q].meta)) /\ ps[q].version = "v2.1"
      /\ Numbers(man, ps, off, n)
  BY DEF Numbering, Alike
<1>3. /\ \A m \in 1 .. c :
           \E q \in 1 .. n : \E j \in 1 .. Len(ps[q].meta) : m = off[q] + j
      /\ off[p] + i \in 1 .. c
  BY <1>2 DEF Numbers, c
<1>4. \A q \in 1 .. n : \A j \in 1 .. Len(ps[q].meta) :
        /\ used[off[q] + j] = <<q, EpisodeFile(j - 1)>>
        /\ shown[off[q] + j] = <<q, EpisodeFile(j - 1)>>
  BY <1>1, <1>2 DEF DataFile, VideoFile
<1>5. \A q \in 1 .. n : Len(ps[q].meta) \in Nat
  BY <1>2 DEF Sound
<1>6. ASSUME NEW j \in Nat, NEW k \in Nat, EpisodeFile(j - 1) = EpisodeFile(k - 1)
      PROVE  j = k
  <2>1. j - 1 = k - 1
    BY <1>6 DEF EpisodeFile
  <2> QED BY <1>6, <2>1
<1>7. ASSUME NEW k \in 1 .. c, NEW l \in 1 .. c,
             used[k] = used[l] \/ shown[k] = shown[l]
      PROVE  k = l
  <2>1. PICK q \in 1 .. n : \E j \in 1 .. Len(ps[q].meta) : k = off[q] + j
    BY <1>3
  <2>2. PICK j \in 1 .. Len(ps[q].meta) : k = off[q] + j
    BY <2>1
  <2>3. PICK s \in 1 .. n : \E t \in 1 .. Len(ps[s].meta) : l = off[s] + t
    BY <1>3
  <2>4. PICK t \in 1 .. Len(ps[s].meta) : l = off[s] + t
    BY <2>3
  <2>5. <<q, EpisodeFile(j - 1)>> = <<s, EpisodeFile(t - 1)>>
    BY <1>4, <1>7, <2>2, <2>4
  <2>6. q = s /\ EpisodeFile(j - 1) = EpisodeFile(t - 1)
    BY <2>5
  <2>7. j = t
    <3>1. j \in Nat /\ t \in Nat
      BY <1>5
    <3> QED BY <1>6, <2>6, <3>1
  <2> QED BY <2>2, <2>4, <2>6, <2>7
<1>8. man.data = [m \in 1 .. c |-> used[m]] /\ man.video = [m \in 1 .. c |-> shown[m]]
  BY <1>1, <1>7 DEF Lists
<1> QED BY <1>3, <1>4, <1>8

(* In v3.0 the episodes of a file keep their places in it.                 *)
LEMMA StartsAgree ==
  ASSUME NEW ps, NEW n, NEW man, NEW off, Numbering(ps, "v3.0", n, man, off),
         NEW dat, NEW vid, NEW p \in 1 .. n, NEW i \in 1 .. Len(ps[p].meta)
  PROVE  LET out == Merged("v3.0", ps, man, dat, vid)
         IN  /\ DataStart(out, off[p] + i) = DataStart(ps[p], i)
             /\ DataStart(ps[p], i) \in Nat
<1> DEFINE out == Merged("v3.0", ps, man, dat, vid)
           used == DataUsed(ps, man.episodes)
           c == off[n + 1]
           part == ps[p]
           l == Len(ps[p].meta)
           own == MetaLens(ps[p])
           m == off[p] + i
           New(q, j) == out.meta[off[q] + j]
<1>1. /\ c \in Nat /\ Lists(man.data, used, c)
      /\ \A q \in 1 .. n : \A j \in 1 .. Len(ps[q].meta) :
           used[off[q] + j] = <<q, DataFile(ps[q], j)>>
  <2>1. n \in Nat
    BY DEF Numbering, Alike
  <2>2. Uses(ps, man, off, n)
    BY UsedFiles
  <2> QED BY <2>1, <2>2, Zenon DEF Uses
<1> HIDE DEF used, c
<1>2. /\ \A q \in 1 .. n : Sound(ps[q], Len(ps[q].meta)) /\ ps[q].version = "v3.0"
      /\ Numbers(man, ps, off, n) /\ n \in Nat
  BY DEF Numbering, Alike
<1>3. /\ off \in [1 .. n + 1 -> Nat] /\ off[p + 1] = off[p] + l
      /\ man.lens = [k \in 1 .. c |-> man.lens[k]]
      /\ \A q \in 1 .. n : \A j \in 1 .. Len(ps[q].meta) :
           off[q] + j \in 1 .. c /\ man.lens[off[q] + j] = ps[q].meta[j].length
      /\ \A k \in 1 .. c :
           \E q \in 1 .. n : \E j \in 1 .. Len(ps[q].meta) : k = off[q] + j
  BY <1>2 DEF Numbers, c
<1>4. ASSUME NEW q \in 1 .. n, NEW j \in 1 .. Len(ps[q].meta)
      PROVE  /\ ps[q].meta[j].length \in Nat
             /\ ps[q].meta[j].from = Offset(MetaLens(ps[q]), j)
             /\ used[off[q] + j] = <<q, ps[q].meta[j].data>>
  <2>1. SoundEpisode(ps[q], j) /\ ps[q].version = "v3.0"
    BY <1>2 DEF Sound
  <2>2. ps[q].meta[j].length \in Nat /\ InRange(ps[q], j)
    BY <2>1 DEF SoundEpisode
  <2>3. used[off[q] + j] = <<q, DataFile(ps[q], j)>>
    BY <1>1
  <2>4. DataFile(ps[q], j) = ps[q].meta[j].data
    BY <2>1 DEF DataFile
  <2> QED BY <2>2, <2>3, <2>4 DEF InRange
<1>5. l \in Nat /\ DOMAIN part.meta = 1 .. l
  <2>1. Sound(ps[p], l)
    BY <1>2
  <2> HIDE DEF l
  <2> QED BY <2>1 DEF Sound
<1>6. own \in [1 .. l -> Nat] /\ \A j \in 1 .. l : own[j] = part.meta[j].length
  BY <1>4, <1>5 DEF MetaLens
<1>7. man.lens \in [1 .. c -> Nat]
  <2>1. ASSUME NEW k \in 1 .. c PROVE man.lens[k] \in Nat
    <3>1. PICK q \in 1 .. n : \E j \in 1 .. Len(ps[q].meta) : k = off[q] + j
      BY <1>3
    <3>2. PICK j \in 1 .. Len(ps[q].meta) : k = off[q] + j
      BY <3>1
    <3> QED BY <1>3, <1>4, <3>2
  <2> QED BY <1>3, <2>1
<1>8. /\ DOMAIN out.meta = 1 .. c
      /\ \A q \in 1 .. n : \A j \in 1 .. Len(ps[q].meta) :
           /\ New(q, j).from = Offset(man.lens, off[q] + j)
           /\ New(q, j).data = Place(NumberOf(man.data, q, ps[q].meta[j].data) - 1)
  BY MetaMoved DEF c
<1>9. ASSUME NEW q \in 1 .. n, NEW j \in 1 .. Len(ps[q].meta)
      PROVE  /\ NumberOf(man.data, q, ps[q].meta[j].data) \in Nat \ {0}
             /\ man.data[NumberOf(man.data, q, ps[q].meta[j].data)]
                  = <<q, ps[q].meta[j].data>>
  <2>1. off[q] + j \in 1 .. c /\ used[off[q] + j] = <<q, ps[q].meta[j].data>>
    BY <1>3, <1>4
  <2>2. Lists(man.data, used, c)
    BY <1>1
  <2> DEFINE file == ps[q].meta[j].data
  <2>3. Occurs(used, c, <<q, file>>)
    BY <1>1, <2>1 DEF Occurs
  <2> HIDE DEF file
  <2>4. IsNumberOf(man.data, NumberOf(man.data, q, file), <<q, file>>)
    BY <2>2, <2>3, NumberIs
  <2> QED BY <2>4 DEF file, IsNumberOf
<1>10. ASSUME NEW q \in 1 .. n, NEW j \in 1 .. Len(ps[q].meta),
              NEW k \in 1 .. l
       PROVE  New(q, j).data = New(p, k).data <=>
                q = p /\ ps[q].meta[j].data = part.meta[k].data
  <2> DEFINE r == NumberOf(man.data, q, ps[q].meta[j].data)
             s == NumberOf(man.data, p, part.meta[k].data)
  <2>1. /\ r \in Nat \ {0} /\ man.data[r] = <<q, ps[q].meta[j].data>>
        /\ s \in Nat \ {0} /\ man.data[s] = <<p, part.meta[k].data>>
    BY <1>9
  <2>2. New(q, j).data = Place(r - 1) /\ New(p, k).data = Place(s - 1)
    BY <1>8
  <2>3. q = p /\ ps[q].meta[j].data = part.meta[k].data => r = s
    OBVIOUS
  <2> HIDE DEF r, s, New
  <2>4. Place(r - 1) = Place(s - 1) => r = s
    <3> SUFFICES ASSUME Place(r - 1) = Place(s - 1) PROVE r = s
      OBVIOUS
    <3>1. r - 1 \in Nat /\ s - 1 \in Nat
      BY <2>1
    <3>2. r - 1 = s - 1
      BY <3>1, PlacesDiffer
    <3> QED BY <2>1, <3>2
  <2> QED BY <2>1, <2>2, <2>3, <2>4
<1> HIDE DEF New
<1>11. PICK a \in 1 .. i : LeadsFile(part.meta, i, a)
  <2>1. i \in 1 .. l
    OBVIOUS
  <2> HIDE DEF l, part
  <2> QED BY <1>5, <2>1, BaseIs
<1>12. a \in 1 .. l /\ i \in 1 .. l /\ a <= i
  BY <1>5
<1>13. Base(part.meta, i) = part.meta[a].from
  <2> HIDE DEF l, part
  <2> QED BY <1>5, <1>11, <1>12, BaseIs
<1>14. LeadsFile(out.meta, m, off[p] + a)
  <2>1. out.meta[off[p] + a] = New(p, a) /\ out.meta[m] = New(p, i)
    BY DEF New
  <2>2. New(p, a).data = New(p, i).data
    BY <1>10, <1>11, <1>12 DEF LeadsFile
  <2>3. ASSUME NEW k \in 1 .. off[p] + a - 1, out.meta[k].data = out.meta[m].data
        PROVE  FALSE
    <3>1. k \in 1 .. c
      <4>1. off[p] + a \in 1 .. c /\ off[p] \in Nat
        BY <1>2, <1>3, <1>12
      <4> QED BY <1>1, <4>1
    <3>2. PICK q \in 1 .. n : \E j \in 1 .. Len(ps[q].meta) : k = off[q] + j
      BY <1>3, <3>1
    <3>3. PICK j \in 1 .. Len(ps[q].meta) : k = off[q] + j
      BY <3>2
    <3>4. out.meta[k] = New(q, j)
      BY <3>3 DEF New
    <3>5. q = p /\ ps[q].meta[j].data = part.meta[i].data
      BY <1>10, <1>12, <2>1, <2>3, <3>4
    <3>6. j \in 1 .. a - 1
      <4>1. off[p] \in Nat /\ j \in 1 .. l /\ off[p] + j <= off[p] + a - 1
        BY <1>2, <1>3, <3>3, <3>5
      <4> HIDE DEF l
      <4> QED BY <1>5, <1>12, <4>1
    <3> QED BY <1>11, <3>5, <3>6 DEF LeadsFile
  <2> HIDE DEF out, m
  <2>4. \A k \in 1 .. (off[p] + a) - 1 : out.meta[k].data # out.meta[m].data
    BY <1>2, <1>3, <2>3
  <2>5. out.meta[off[p] + a].data = out.meta[m].data
    BY <2>1, <2>2
  <2> QED BY <2>4, <2>5, Zenon DEF LeadsFile
<1>15. Base(out.meta, m) = out.meta[off[p] + a].from
  <2>1. m \in 1 .. c /\ off[p] + a \in 1 .. c
    BY <1>3, <1>12
  <2> HIDE DEF m, out
  <2> QED BY <1>1, <1>8, <1>14, <2>1, BaseIs
<1>16. DataStart(part, i) = Offset(own, i) - Offset(own, a)
  <2>1. part.version = "v3.0" /\ part.meta[i].from = Offset(own, i)
        /\ part.meta[a].from = Offset(own, a)
    BY <1>2, <1>4, <1>12
  <2> HIDE DEF part
  <2> QED BY <1>13, <2>1 DEF DataStart
<1>17. DataStart(out, m) = Offset(man.lens, off[p] + i) - Offset(man.lens, off[p] + a)
  <2>1. out.version = "v3.0"
    BY DEF Merged
  <2>2. out.meta[m].from = Offset(man.lens, off[p] + i)
        /\ out.meta[off[p] + a].from = Offset(man.lens, off[p] + a)
    BY <1>8, <1>12 DEF New
  <2> HIDE DEF out
  <2> QED BY <1>15, <2>1, <2>2 DEF DataStart
<1>18. \A j \in 1 .. l + 1 :
         Offset(man.lens, off[p] + j) = Offset(man.lens, off[p] + 1) + Offset(own, j)
  <2>1. off[p] \in Nat
    BY <1>2, <1>3
  <2>2. off[p] + l <= c
    <3>1. CASE l = 0
      <4>1. off[p] + i \in 1 .. c /\ i \in 1 .. l
        BY <1>3
      <4> QED BY <3>1, <4>1
    <3>2. CASE l # 0
      <4>1. l \in 1 .. l
        BY <1>5, <3>2
      <4>2. off[p] + l \in 1 .. c
        BY <1>3, <4>1
      <4> QED BY <4>2
    <3> QED BY <3>1, <3>2
  <2>3. \A j \in 1 .. l : man.lens[off[p] + j] = own[j]
    BY <1>3, <1>6
  <2> HIDE DEF l, own
  <2> QED BY <1>1, <1>5, <1>6, <1>7, <2>1, <2>2, <2>3, OffsetShift
<1>19. Offset(own, i) \in Nat /\ Offset(own, a) \in Nat /\ Offset(own, a) <= Offset(own, i)
  <2>1. a \in 1 .. l + 1 /\ i \in 1 .. l + 1 /\ a <= i
    BY <1>5, <1>12
  <2> HIDE DEF l, own
  <2> QED BY <1>5, <1>6, <2>1, OffsetProperties
<1>20. Offset(man.lens, off[p] + 1) \in Nat
  <2>1. off[p] + 1 \in 1 .. c + 1
    <3>1. off[p] \in Nat /\ off[p] + a \in 1 .. c
      BY <1>2, <1>3, <1>12
    <3> QED BY <1>1, <3>1
  <2> QED BY <1>1, <1>7, <2>1, OffsetProperties
<1>21. /\ Offset(man.lens, off[p] + i) = Offset(man.lens, off[p] + 1) + Offset(own, i)
       /\ Offset(man.lens, off[p] + a) = Offset(man.lens, off[p] + 1) + Offset(own, a)
  <2>1. a \in 1 .. l + 1 /\ i \in 1 .. l + 1
    BY <1>5, <1>12
  <2> QED BY <1>18, <2>1
<1> HIDE DEF out, m, own
<1>22. DataStart(out, m) = DataStart(part, i) /\ DataStart(part, i) \in Nat
  BY <1>16, <1>17, <1>19, <1>20, <1>21
<1> QED BY <1>22 DEF out, m

(* The rows of an episode are rewritten, whatever file they end up in.     *)
LEMMA RowsMoved ==
  ASSUME NEW ps, NEW version, NEW n, NEW man, NEW off,
         Numbering(ps, version, n, man, off), NEW dat, NEW vid,
         Moved(version, ps, man, dat, vid),
         NEW p \in 1 .. n, NEW i \in 1 .. Len(ps[p].meta)
  PROVE  RowsOf(Merged(version, ps, man, dat, vid), off[p] + i)
           = [f \in 1 .. ps[p].meta[i].length |-> NewRow(ps, man, p, RowsOf(ps[p], i)[f])]
<1> DEFINE out == Merged(version, ps, man, dat, vid)
           part == ps[p]
           m == off[p] + i
           old == part.meta[i]
           rows == RowsOf(part, i)
           l == old.length
<1>1. /\ n \in Nat /\ version \in Versions /\ part.version = version
      /\ SoundEpisode(part, i)
  <2>1. n \in Nat /\ version \in Versions
        /\ Sound(part, Len(part.meta)) /\ part.version = version
    BY DEF Numbering, Alike
  <2>2. i \in 1 .. Len(part.meta)
    OBVIOUS
  <2> HIDE DEF part
  <2> QED BY <2>1, <2>2 DEF Sound
<1>2. l \in Nat \ {0} /\ rows = [f \in 1 .. l |-> rows[f]]
      /\ (version = "v3.0" => InRange(part, i))
  <2> HIDE DEF part
  <2> QED BY <1>1 DEF SoundEpisode
<1>3. out.version = version /\ out.data = dat
  BY DEF Merged
<1>4. ASSUME NEW file, NEW a
      PROVE  NewFileOf(ps, man, <<p, file>>)
               = [f \in DOMAIN part.data[file] |-> NewRow(ps, man, p, part.data[file][f])]
  BY DEF NewFileOf
<1>5. CASE version = "v2.1"
  <2>1. Numbering(ps, "v2.1", n, man, off)
    BY <1>5
  <2>2. m \in DOMAIN man.data /\ man.data[m] = <<p, EpisodeFile(i - 1)>>
    BY <2>1, OwnFiles
  <2>3. dat[FileName(version, m)] = NewFileOf(ps, man, <<p, EpisodeFile(i - 1)>>)
    BY <2>2 DEF Moved
  <2>4. FileName(version, m) = EpisodeFile(m - 1)
    BY <1>5 DEF FileName
  <2>5. rows = part.data[EpisodeFile(i - 1)]
    BY <1>1, <1>5 DEF RowsOf, DataFile
  <2>6. dat[EpisodeFile(m - 1)] = [f \in DOMAIN rows |-> NewRow(ps, man, p, rows[f])]
    BY <1>4, <2>3, <2>4, <2>5
  <2>7. RowsOf(out, m) = dat[EpisodeFile(m - 1)]
    <3> HIDE DEF out, m
    <3> QED BY <1>3, <1>5 DEF RowsOf, DataFile
  <2> HIDE DEF rows, out, m, l
  <2>8. DOMAIN rows = 1 .. l
    BY <1>2
  <2>9. RowsOf(out, m) = [f \in 1 .. l |-> NewRow(ps, man, p, rows[f])]
    BY <2>6, <2>7, <2>8
  <2> QED BY <2>9 DEF rows, out, m, l
<1>6. CASE version = "v3.0"
  <2> DEFINE file == old.data
             r == NumberOf(man.data, p, file)
             have == part.data[file]
             new == dat[Place(r - 1)]
             start0 == DataStart(part, i)
  <2>1. Numbering(ps, "v3.0", n, man, off)
    BY <1>6
  <2>2. r \in DOMAIN man.data /\ man.data[r] = <<p, file>>
    <3>1. Uses(ps, man, off, n)
      BY <2>1, UsedFiles
    <3>2. Numbers(man, ps, off, n)
      BY <2>1 DEF Numbering
    <3>3. m \in 1 .. off[n + 1]
      BY <1>1, <3>2 DEF Numbers
    <3> DEFINE used == DataUsed(ps, man.episodes)
               c == off[n + 1]
    <3>4. c \in Nat /\ Lists(man.data, used, c) /\ used[m] = <<p, DataFile(part, i)>>
      BY <1>1, <3>1 DEF Uses
    <3>5. DataFile(part, i) = file
      BY <1>1, <1>6 DEF DataFile
    <3>6. used[m] = <<p, file>> /\ m \in 1 .. c
      BY <3>3, <3>4, <3>5
    <3> HIDE DEF used, c, file, m
    <3>7. Lists(man.data, used, c)
      BY <3>4
    <3>8. Occurs(used, c, <<p, file>>)
      BY <3>4, <3>6 DEF Occurs
    <3>9. IsNumberOf(man.data, r, <<p, file>>)
      BY <3>7, <3>8, NumberIs
    <3> HIDE DEF r
    <3> QED BY <3>9 DEF IsNumberOf
  <2>3. new = [f \in DOMAIN have |-> NewRow(ps, man, p, have[f])]
    <3>1. dat[FileName(version, r)] = NewFileOf(ps, man, <<p, file>>)
      <4> HIDE DEF r, file
      <4> QED BY <2>2 DEF Moved
    <3>2. FileName(version, r) = Place(r - 1)
      BY <1>6 DEF FileName
    <3> HIDE DEF r, file
    <3> QED BY <1>4, <3>1, <3>2
  <2>4. PICK k \in Nat : have = [f \in 1 .. k |-> have[f]]
    <3> HIDE DEF part
    <3> QED BY <1>2, <1>6 DEF InRange
  <2>5. /\ DataStart(out, m) = start0 /\ start0 \in Nat
    <3>1. /\ DataStart(Merged("v3.0", ps, man, dat, vid), off[p] + i) = DataStart(ps[p], i)
          /\ DataStart(ps[p], i) \in Nat
      BY <2>1, StartsAgree
    <3> QED BY <1>6, <3>1
  <2>6. out.meta[m].length = l /\ out.meta[m].data = Place(r - 1)
    <3>1. LET o == Merged("v3.0", ps, man, dat, vid)
          IN  /\ o.meta[off[p] + i].length = ps[p].meta[i].length
              /\ o.meta[off[p] + i].data = Place(NumberOf(man.data, p, ps[p].meta[i].data) - 1)
      BY <2>1, MetaMoved
    <3> QED BY <1>6, <3>1
  <2>7. RowsOf(out, m) = Slice(new, start0, l)
    <3> HIDE DEF out, m, new, start0, l, r
    <3> QED BY <1>3, <1>6, <2>5, <2>6 DEF RowsOf, DataFile, new
  <2>8. rows = Slice(have, start0, l)
    <3> HIDE DEF start0, part
    <3> QED BY <1>1, <1>6 DEF RowsOf, DataFile, start0
  <2> HIDE DEF new, have, start0, l, rows, out, m
  <2>9. new = [f \in 1 .. k |-> new[f]]
        /\ \A f \in 1 .. k : new[f] = NewRow(ps, man, p, have[f])
    BY <2>3, <2>4
  <2> DEFINE s == Slice(have, start0, l)
             t == Slice(new, start0, l)
  <2>10. SamePlaces(s, t, have, new, k)
    <3>1. l \in Nat
      BY <1>2
    <3>2. Spans(have, k) /\ Spans(new, k)
      BY <2>4, <2>9 DEF Spans
    <3>3. start0 \in Nat
      BY <2>5
    <3> QED BY <3>1, <3>2, <3>3, SlicesAgree
  <2> HIDE DEF s, t
  <2>11. s = rows /\ t = RowsOf(out, m)
    BY <2>7, <2>8 DEF s, t
  <2>12. DOMAIN s = 1 .. l
    BY <1>2, <2>11
  <2>13. ASSUME NEW f \in 1 .. l PROVE t[f] = NewRow(ps, man, p, rows[f])
    <3>1. PICK j \in 1 .. k : s[f] = have[j] /\ t[f] = new[j]
      BY <2>10, <2>12 DEF SamePlaces
    <3> QED BY <2>9, <2>11, <3>1
  <2>14. RowsOf(out, m) = [f \in 1 .. l |-> NewRow(ps, man, p, rows[f])]
    BY <2>10, <2>11, <2>12, <2>13 DEF SamePlaces
  <2> QED BY <2>14 DEF rows, out, m, l
<1> QED BY <1>1, <1>5, <1>6 DEF Versions

(* Its packets are copied.                                                 *)
LEMMA PacketsMoved ==
  ASSUME NEW ps, NEW version, NEW n, NEW man, NEW off,
         Numbering(ps, version, n, man, off), NEW dat, NEW vid,
         Moved(version, ps, man, dat, vid),
         NEW p \in 1 .. n, NEW i \in 1 .. Len(ps[p].meta)
  PROVE  PacketsOf(Merged(version, ps, man, dat, vid), off[p] + i) = PacketsOf(ps[p], i)
<1> DEFINE out == Merged(version, ps, man, dat, vid)
           part == ps[p]
           m == off[p] + i
           old == part.meta[i]
<1>1. n \in Nat /\ version \in Versions /\ part.version = version
  BY DEF Numbering, Alike
<1>2. out.version = version /\ out.video = vid
  BY DEF Merged
<1>3. CASE version = "v2.1"
  <2>1. Numbering(ps, "v2.1", n, man, off)
    BY <1>3
  <2>2. m \in DOMAIN man.video /\ man.video[m] = <<p, EpisodeFile(i - 1)>>
    BY <2>1, OwnFiles
  <2>3. vid[FileName(version, m)] = part.video[EpisodeFile(i - 1)]
    BY <2>2 DEF Moved
  <2>4. FileName(version, m) = EpisodeFile(m - 1)
    BY <1>3 DEF FileName
  <2>5. PacketsOf(part, i) = part.video[EpisodeFile(i - 1)]
    BY <1>1, <1>3 DEF PacketsOf, VideoFile
  <2>6. PacketsOf(out, m) = vid[EpisodeFile(m - 1)]
    <3> HIDE DEF out, m
    <3> QED BY <1>2, <1>3 DEF PacketsOf, VideoFile
  <2> QED BY <2>3, <2>4, <2>5, <2>6
<1>4. CASE version = "v3.0"
  <2> DEFINE file == old.video
             r == NumberOf(man.video, p, file)
  <2>1. Numbering(ps, "v3.0", n, man, off)
    BY <1>4
  <2>2. r \in DOMAIN man.video /\ man.video[r] = <<p, file>>
    <3>1. Uses(ps, man, off, n)
      BY <2>1, UsedFiles
    <3>2. Numbers(man, ps, off, n)
      BY <2>1 DEF Numbering
    <3>3. m \in 1 .. off[n + 1]
      BY <1>1, <3>2 DEF Numbers
    <3> DEFINE used == VideoUsed(ps, man.episodes)
               c == off[n + 1]
    <3>4. c \in Nat /\ Lists(man.video, used, c) /\ used[m] = <<p, VideoFile(part, i)>>
      BY <1>1, <3>1 DEF Uses
    <3>5. VideoFile(part, i) = file
      BY <1>1, <1>4 DEF VideoFile
    <3>6. used[m] = <<p, file>> /\ m \in 1 .. c
      BY <3>3, <3>4, <3>5
    <3> HIDE DEF used, c, file, m
    <3>7. Lists(man.video, used, c)
      BY <3>4
    <3>8. Occurs(used, c, <<p, file>>)
      BY <3>4, <3>6 DEF Occurs
    <3>9. IsNumberOf(man.video, r, <<p, file>>)
      BY <3>7, <3>8, NumberIs
    <3> HIDE DEF r
    <3> QED BY <3>9 DEF IsNumberOf
  <2>3. vid[Place(r - 1)] = part.video[file]
    <3>1. vid[FileName(version, r)] = part.video[file]
      <4> HIDE DEF r, file
      <4> QED BY <2>2 DEF Moved
    <3>2. FileName(version, r) = Place(r - 1)
      BY <1>4 DEF FileName
    <3> QED BY <3>1, <3>2
  <2>4. /\ out.meta[m].video = Place(r - 1)
        /\ out.meta[m].start = old.start /\ out.meta[m].end = old.end
    <3>1. LET o == Merged("v3.0", ps, man, dat, vid)
          IN  /\ o.meta[off[p] + i].video = Place(NumberOf(man.video, p, ps[p].meta[i].video) - 1)
              /\ o.meta[off[p] + i].start = ps[p].meta[i].start
              /\ o.meta[off[p] + i].end = ps[p].meta[i].end
      BY <2>1, MetaMoved
    <3> QED BY <1>4, <3>1
  <2>5. PacketsOf(out, m) = Slice(vid[Place(r - 1)], old.start, old.end - old.start)
    <3> HIDE DEF out, m, r, old
    <3> QED BY <1>2, <1>4, <2>4 DEF PacketsOf, VideoFile
  <2>6. PacketsOf(part, i) = Slice(part.video[file], old.start, old.end - old.start)
    <3> HIDE DEF part
    <3> QED BY <1>1, <1>4 DEF PacketsOf, VideoFile
  <2> QED BY <2>3, <2>5, <2>6
<1> QED BY <1>1, <1>3, <1>4 DEF Versions

(* The merged table names every task of every part, each once.             *)
WordsOf(table) == [k \in DOMAIN Labels(table) |-> table[Labels(table)[k]]]

Covers(tasks, ps, n) ==
  /\ n \in Nat /\ IsInjective(tasks)
  /\ \A p \in 1 .. n : \A label \in DOMAIN ps[p].tasks :
       \E k \in DOMAIN tasks : tasks[k] = ps[p].tasks[label]

(* The words of a table, in the order of its labels.                       *)
LEMMA WordsAre ==
  ASSUME NEW table, IsTable(table)
  PROVE  /\ WordsOf(table) \in Seq(Range(table))
         /\ DOMAIN WordsOf(table) = 1 .. Cardinality(DOMAIN table)
         /\ Cardinality(DOMAIN table) \in Nat
         /\ Len(WordsOf(table)) = Cardinality(DOMAIN table)
         /\ \A label \in DOMAIN table :
              \E k \in DOMAIN WordsOf(table) : WordsOf(table)[k] = table[label]
<1> DEFINE D == DOMAIN table
           c == Cardinality(D)
           labels == Labels(table)
           words == WordsOf(table)
<1>1. D \in SUBSET Nat /\ IsFiniteSet(D)
  BY DEF IsTable
<1>2. labels = Ascending(D)
  BY DEF Labels
<1> HIDE DEF D
<1>3. c \in Nat /\ labels \in [1 .. c -> D]
  BY <1>1, <1>2, AscendingType
<1>4. \A d \in D : \E k \in 1 .. c : labels[k] = d
  <2>1. \A d \in D : Cardinality({m \in D : m <= d}) \in 1 .. c
                     /\ labels[Cardinality({m \in D : m <= d})] = d
    BY <1>1, <1>2, AscendingRank
  <2> HIDE DEF labels, c
  <2> QED BY <2>1
<1> HIDE DEF labels, c
<1>5. words = [k \in 1 .. c |-> table[labels[k]]]
  BY <1>3 DEF WordsOf, labels
<1> HIDE DEF words
<1>6. words \in [1 .. c -> Range(table)]
  <2>1. \A k \in 1 .. c : table[labels[k]] \in Range(table)
    BY <1>3 DEF Range, D
  <2> QED BY <1>5, <2>1
<1>7. words \in Seq(Range(table)) /\ Len(words) = c
  BY <1>3, <1>6, SeqOfFunction
<1>8. \A label \in D : \E k \in 1 .. c : words[k] = table[label]
  BY <1>4, <1>5
<1>9. DOMAIN words = 1 .. c
  BY <1>6
<1> QED BY <1>3, <1>7, <1>8, <1>9 DEF words, c, D

(* Every task of a part has a place in the merged table.                   *)
LEMMA TasksCover ==
  ASSUME NEW ps, NEW version, NEW n, Alike(ps, version, n)
  PROVE  Covers(TasksOf(ManifestOf(ps)), ps, n)
<1> DEFINE seqs == [p \in 1 .. n |-> WordsOf(ps[p].tasks)]
           S == UNION {Range(ps[p].tasks) : p \in 1 .. n}
           used == TextsOf(ps)
           texts == Deduplicated(used)
           tasks == TasksOf(ManifestOf(ps))
<1>1. n \in Nat /\ DOMAIN ps = 1 .. n /\ \A p \in 1 .. n : IsTable(ps[p].tasks)
  BY DEF Alike, Sound
<1>2. ASSUME NEW p \in 1 .. n PROVE WordsOf(ps[p].tasks) \in Seq(S)
  <2>1. WordsOf(ps[p].tasks) \in Seq(Range(ps[p].tasks))
        /\ DOMAIN WordsOf(ps[p].tasks) = 1 .. Cardinality(DOMAIN ps[p].tasks)
        /\ Cardinality(DOMAIN ps[p].tasks) \in Nat
    BY <1>1, WordsAre
  <2>2. Range(ps[p].tasks) \subseteq S
    OBVIOUS
  <2> DEFINE w == WordsOf(ps[p].tasks)
             T == Range(ps[p].tasks)
  <2> HIDE DEF S, w, T
  <2>3. w \in Seq(T) /\ T \subseteq S
    BY <2>1, <2>2 DEF w, T
  <2>4. w \in Seq(S)
    BY <2>3
  <2> QED BY <2>4 DEF w
<1> HIDE DEF S
<1>3. seqs \in Seq(Seq(S)) /\ Len(seqs) = n
      /\ \A p \in 1 .. n : seqs[p] = WordsOf(ps[p].tasks)
  <2>1. seqs \in [1 .. n -> Seq(S)] /\ \A p \in 1 .. n : seqs[p] = WordsOf(ps[p].tasks)
    BY <1>2
  <2> HIDE DEF seqs
  <2> QED BY <1>1, <2>1, SeqOfFunction
<1>4. used = FlattenSeq(seqs)
  <2>1. used = FlattenSeq([p \in 1 .. n |->
          [k \in DOMAIN Labels(ps[p].tasks) |-> ps[p].tasks[Labels(ps[p].tasks)[k]]]])
    BY <1>1 DEF TextsOf
  <2> QED BY <2>1, Zenon DEF WordsOf
<1> HIDE DEF seqs, used
<1>5. PICK off : Positions(off, seqs, S)
  BY <1>3, PositionsExist
<1>6. /\ used \in Seq(S)
      /\ \A p \in 1 .. n : \A j \in 1 .. Len(seqs[p]) :
           off[p] + j \in 1 .. off[n + 1] /\ used[off[p] + j] = seqs[p][j]
      /\ Len(used) = off[n + 1]
  <2>1. /\ FlattenSeq(seqs) \in Seq(S)
        /\ Len(FlattenSeq(seqs)) = off[Len(seqs) + 1]
        /\ \A k \in 1 .. Len(seqs) : \A j \in 1 .. Len(seqs[k]) :
             /\ off[k] + j \in 1 .. off[Len(seqs) + 1]
             /\ FlattenSeq(seqs)[off[k] + j] = seqs[k][j]
    BY <1>5, FlattenAt
  <2> QED BY <1>3, <1>4, <2>1
<1>7. Len(used) \in Nat /\ DOMAIN used = 1 .. Len(used)
  BY <1>6, LenProperties
<1>8. Lists(texts, used, Len(used))
  BY <1>7, DeduplicatedIs
<1> HIDE DEF texts
<1>9. PICK c \in Nat : texts = [k \in 1 .. c |-> texts[k]]
  BY <1>8 DEF Lists
<1>10. Len(texts) = c
  BY <1>9, LenOfFunction
<1>11. tasks = [k \in 0 .. Len(texts) - 1 |-> texts[k + 1]]
  BY DEF TasksOf, ManifestOf, texts, used
<1> HIDE DEF tasks
<1>12. /\ DOMAIN tasks = 0 .. c - 1
       /\ \A k \in 1 .. c : k - 1 \in DOMAIN tasks /\ tasks[k - 1] = texts[k]
       /\ \A k \in 0 .. c - 1 : k + 1 \in 1 .. c /\ tasks[k] = texts[k + 1]
  <2>1. tasks = [k \in 0 .. c - 1 |-> texts[k + 1]]
    BY <1>10, <1>11
  <2>2. \A k \in 1 .. c : k - 1 \in 0 .. c - 1 /\ (k - 1) + 1 = k
    OBVIOUS
  <2> QED BY <2>1, <2>2
<1>13. IsInjective(tasks)
  <2> SUFFICES ASSUME NEW k \in DOMAIN tasks, NEW l \in DOMAIN tasks, tasks[k] = tasks[l]
               PROVE  k = l
    BY DEF IsInjective
  <2>1. k \in 0 .. c - 1 /\ l \in 0 .. c - 1
    BY <1>12
  <2>2. k + 1 \in DOMAIN texts /\ l + 1 \in DOMAIN texts /\ texts[k + 1] = texts[l + 1]
    BY <1>9, <1>12, <2>1
  <2>3. k + 1 = l + 1
    BY <1>8, <2>2 DEF Lists, IsInjective
  <2> QED BY <2>1, <2>3
<1>14. ASSUME NEW p \in 1 .. n, NEW label \in DOMAIN ps[p].tasks
       PROVE  \E k \in DOMAIN tasks : tasks[k] = ps[p].tasks[label]
  <2> DEFINE w == WordsOf(ps[p].tasks)
  <2>1. PICK j \in DOMAIN w : w[j] = ps[p].tasks[label]
    BY <1>1, WordsAre
  <2>2. /\ DOMAIN w = 1 .. Cardinality(DOMAIN ps[p].tasks)
        /\ Len(w) = Cardinality(DOMAIN ps[p].tasks)
    BY <1>1, WordsAre
  <2>3. j \in 1 .. Len(seqs[p]) /\ seqs[p][j] = w[j]
    BY <1>3, <2>2
  <2>4. off[p] + j \in 1 .. Len(used) /\ used[off[p] + j] = ps[p].tasks[label]
    BY <1>6, <2>1, <2>3
  <2>5. PICK k \in DOMAIN texts : texts[k] = used[off[p] + j]
    BY <1>8, <2>4 DEF Lists
  <2>6. k \in 1 .. c
    BY <1>9
  <2>7. k - 1 \in DOMAIN tasks /\ tasks[k - 1] = texts[k]
    BY <1>12, <2>6
  <2> QED BY <2>4, <2>5, <2>7
<1>15. Covers(tasks, ps, n)
  BY <1>1, <1>13, <1>14 DEF Covers
<1> QED BY <1>15 DEF tasks

(* What becomes of a row.                                                  *)
NewIs(new, row, m, lens, f, tasks, table) ==
  /\ IsRow(new)
  /\ new.episode = m - 1 /\ new.index = Offset(lens, m) + (f - 1)
  /\ new.frame = row.frame /\ new.payload = row.payload
  /\ new.task \in DOMAIN tasks /\ tasks[new.task] = table[row.task]

(* A rewritten row tells its new place and names the task it named; the    *)
(* rest of it stays.                                                       *)
LEMMA RowRewritten ==
  ASSUME NEW ps, NEW version, NEW n, NEW man, NEW off,
         Numbering(ps, version, n, man, off),
         NEW p \in 1 .. n, NEW i \in 1 .. Len(ps[p].meta),
         NEW f \in 1 .. ps[p].meta[i].length
  PROVE  LET row == RowsOf(ps[p], i)[f]
         IN  /\ IsRow(row) /\ row.frame = f - 1 /\ row.episode = i - 1
             /\ row.task \in DOMAIN ps[p].tasks
             /\ NewIs(NewRow(ps, man, p, row), row, off[p] + i, man.lens, f,
                      TasksOf(man), ps[p].tasks)
<1> DEFINE row == RowsOf(ps[p], i)[f]
           part == ps[p]
           m == off[p] + i
           tasks == TasksOf(man)
           output == CHOOSE k \in DOMAIN man.episodes : man.episodes[k] = <<p, row.episode + 1>>
           label == CHOOSE k \in DOMAIN tasks : tasks[k] = part.tasks[row.task]
           index == Offset(man.lens, output) + row.frame
           new == NewRow(ps, man, p, row)
<1>1. n \in Nat /\ SoundEpisode(part, i) /\ Len(part.meta) \in Nat
  <2>1. n \in Nat /\ Sound(part, Len(part.meta))
    BY DEF Numbering, Alike
  <2>2. i \in 1 .. Len(part.meta)
    OBVIOUS
  <2> HIDE DEF part
  <2> QED BY <2>1, <2>2 DEF Sound
<1>2. /\ IsRow(row) /\ row.frame = f - 1 /\ row.episode = i - 1
      /\ row.task \in DOMAIN part.tasks
  <2>1. NumberedRow(row, i, f) /\ row.task \in DOMAIN part.tasks
    <3> HIDE DEF part
    <3> QED BY <1>1 DEF SoundEpisode, part
  <2> QED BY <2>1 DEF NumberedRow
<1>3. row.episode + 1 = i
  BY <1>1, <1>2
<1>4. output = m
  <2>1. m \in DOMAIN man.episodes /\ man.episodes[m] = <<p, i>>
        /\ \A k \in DOMAIN man.episodes : man.episodes[k] = <<p, i>> => k = m
    BY OnePlace DEF Numbering
  <2> HIDE DEF row, m
  <2> QED BY <1>3, <2>1
<1>5. label \in DOMAIN tasks /\ tasks[label] = part.tasks[row.task]
  <2>1. Covers(tasks, ps, n)
    BY TasksCover DEF Numbering
  <2>2. \E k \in DOMAIN tasks : tasks[k] = part.tasks[row.task]
    BY <1>1, <1>2, <2>1 DEF Covers
  <2> HIDE DEF tasks, part, row
  <2> QED BY <2>2
<1>6. new = [row EXCEPT !.episode = output - 1, !.index = index, !.task = label]
  BY Zenon DEF NewRow
<1> HIDE DEF output, label, index, row, new, tasks
<1>7. row = [episode |-> row.episode, index |-> row.index, frame |-> row.frame,
             task |-> row.task, payload |-> row.payload]
  BY <1>2 DEF IsRow
<1>8. new = [episode |-> output - 1, index |-> index, frame |-> row.frame,
             task |-> label, payload |-> row.payload]
  BY <1>6, <1>7
<1>9. index = Offset(man.lens, m) + (f - 1)
  BY <1>2, <1>4 DEF index
<1>10. IsRow(new) /\ new.episode = m - 1 /\ new.index = index /\ new.frame = row.frame
       /\ new.payload = row.payload /\ new.task = label
  BY <1>4, <1>8 DEF IsRow
<1>11. NewIs(new, row, m, man.lens, f, tasks, part.tasks)
  BY <1>5, <1>9, <1>10 DEF NewIs
<1> QED BY <1>2, <1>11 DEF row, new, tasks

-----------------------------------------------------------------------------
(***************************************************************************)
(* The output of a merge is the concatenation of its parts.                *)
(***************************************************************************)

(* MergeConcatenates of any dataset and parts.                             *)
InputsOf(ps) ==
  FlattenSeq([p \in DOMAIN ps |->
    [i \in DOMAIN ps[p].meta |->
      [episode |-> Read(ps[p]).episodes[i], tasks |-> ps[p].tasks]]])

RowsWanted(inputs, lens, m) ==
  [f \in 1 .. lens[m] |->
    LET row == inputs[m].episode.rows[f]
    IN  [row EXCEPT !.episode = m - 1, !.index = Offset(lens, m) + f - 1,
                    !.task = inputs[m].tasks[@]]]

Concatenated(out, ps) ==
  LET whole == Read(out)
      inputs == InputsOf(ps)
      lens == [m \in DOMAIN inputs |-> Len(inputs[m].episode.rows)]
  IN  /\ Len(whole.episodes) = Len(inputs) /\ whole.splits = ps[1].splits
      /\ IsInjective(whole.tasks)
      /\ \A m \in DOMAIN inputs :
           LET rows == whole.episodes[m].rows
           IN  /\ [f \in DOMAIN rows |-> [rows[f] EXCEPT !.task = whole.tasks[@]]]
                    = RowsWanted(inputs, lens, m)
               /\ whole.episodes[m].packets = inputs[m].episode.packets

(* The episodes of the parts, in order.                                    *)
Entry(ps, p, i) ==
  [episode |-> [rows |-> RowsOf(ps[p], i), packets |-> PacketsOf(ps[p], i),
                stats |-> ps[p].meta[i].stats],
   tasks |-> ps[p].tasks]

InOrder(inputs, ps, off, n) ==
  /\ Len(inputs) = off[n + 1] /\ DOMAIN inputs = 1 .. off[n + 1]
  /\ \A p \in 1 .. n : \A i \in 1 .. Len(ps[p].meta) :
       inputs[off[p] + i] = Entry(ps, p, i)

(* The wanted sequence is numbered as the manifest numbers it.             *)
LEMMA InputsInOrder ==
  ASSUME NEW ps, NEW version, NEW n, NEW man, NEW off,
         Numbering(ps, version, n, man, off)
  PROVE  InOrder(InputsOf(ps), ps, off, n)
<1> DEFINE part(p) == [i \in 1 .. Len(ps[p].meta) |-> Entry(ps, p, i)]
           seqs == [p \in 1 .. n |-> part(p)]
           S == UNION {Range(part(p)) : p \in 1 .. n}
           T == Seq(S)
           inputs == InputsOf(ps)
<1>1. /\ n \in Nat /\ DOMAIN ps = 1 .. n /\ Numbers(man, ps, off, n)
      /\ \A p \in 1 .. n : Sound(ps[p], Len(ps[p].meta))
  BY DEF Numbering, Alike
<1>2. \A p \in 1 .. n : Len(ps[p].meta) \in Nat
                        /\ DOMAIN ps[p].meta = 1 .. Len(ps[p].meta)
  <2> TAKE p \in 1 .. n
  <2> DEFINE l == Len(ps[p].meta)
             meta == ps[p].meta
  <2>1. l \in Nat /\ meta = [i \in 1 .. l |-> meta[i]]
    BY <1>1 DEF Sound
  <2> HIDE DEF l
  <2>2. DOMAIN meta = 1 .. l
    BY <2>1
  <2> QED BY <2>1, <2>2 DEF l
<1>3. /\ off \in [1 .. n + 1 -> Nat] /\ off[1] = 0
      /\ \A p \in 1 .. n : off[p + 1] = off[p] + Len(ps[p].meta)
  BY <1>1 DEF Numbers
<1>4. inputs = FlattenSeq(seqs)
  <2>1. ASSUME NEW p \in DOMAIN ps
        PROVE  [i \in DOMAIN ps[p].meta |->
                 [episode |-> Read(ps[p]).episodes[i], tasks |-> ps[p].tasks]] = part(p)
    <3>1. ASSUME NEW i \in DOMAIN ps[p].meta
          PROVE  [episode |-> Read(ps[p]).episodes[i], tasks |-> ps[p].tasks]
                   = Entry(ps, p, i)
      BY DEF Read, Entry
    <3> QED BY <1>1, <1>2, <3>1
  <2> HIDE DEF part
  <2>2. inputs = FlattenSeq([p \in DOMAIN ps |-> part(p)])
    <3>1. [p \in DOMAIN ps |->
             [i \in DOMAIN ps[p].meta |->
               [episode |-> Read(ps[p]).episodes[i], tasks |-> ps[p].tasks]]]
            = [p \in DOMAIN ps |-> part(p)]
      BY <2>1
    <3> QED BY <3>1, Zenon DEF InputsOf
  <2> QED BY <1>1, <2>2
<1> HIDE DEF inputs
<1>5. ASSUME NEW p \in 1 .. n
      PROVE  part(p) \in T /\ Len(part(p)) = Len(ps[p].meta)
  <2> DEFINE l == Len(ps[p].meta)
  <2>1. l \in Nat
    BY <1>2
  <2>2. Range(part(p)) \subseteq S
    OBVIOUS
  <2>3. \A i \in 1 .. l : part(p)[i] \in Range(part(p))
    BY DEF Range
  <2>4. part(p) \in [1 .. l -> S]
    <3>1. part(p) = [i \in 1 .. l |-> part(p)[i]]
      OBVIOUS
    <3> HIDE DEF part, S, l
    <3> QED BY <2>2, <2>3, <3>1
  <2> HIDE DEF part, S, l
  <2>5. part(p) \in Seq(S) /\ Len(part(p)) = l
    BY <2>1, <2>4, SeqOfFunction
  <2> QED BY <2>5 DEF l
<1>6. \A p \in 1 .. n : \A i \in 1 .. Len(ps[p].meta) : part(p)[i] = Entry(ps, p, i)
  OBVIOUS
<1> HIDE DEF part, S, T
<1>7. seqs \in Seq(T) /\ Len(seqs) = n /\ \A p \in 1 .. n : seqs[p] = part(p)
  <2>1. seqs \in [1 .. n -> T] /\ \A p \in 1 .. n : seqs[p] = part(p)
    BY <1>5
  <2> HIDE DEF seqs
  <2> QED BY <1>1, <2>1, SeqOfFunction
<1> HIDE DEF seqs
<1>8. Positions(off, seqs, S)
  <2>1. seqs \in Seq(Seq(S))
    BY <1>7 DEF T
  <2> QED BY <1>1, <1>3, <1>5, <1>7, <2>1 DEF Positions
<1>9. /\ inputs \in Seq(S) /\ Len(inputs) = off[n + 1]
      /\ \A p \in 1 .. n : \A i \in 1 .. Len(ps[p].meta) : inputs[off[p] + i] = part(p)[i]
  <2>1. /\ FlattenSeq(seqs) \in Seq(S)
        /\ Len(FlattenSeq(seqs)) = off[Len(seqs) + 1]
        /\ \A k \in 1 .. Len(seqs) : \A j \in 1 .. Len(seqs[k]) :
             /\ off[k] + j \in 1 .. off[Len(seqs) + 1]
             /\ FlattenSeq(seqs)[off[k] + j] = seqs[k][j]
    BY <1>8, FlattenAt
  <2> QED BY <1>1, <1>4, <1>5, <1>7, <2>1
<1>10. DOMAIN inputs = 1 .. off[n + 1]
  BY <1>9, LenProperties
<1>11. InOrder(inputs, ps, off, n)
  BY <1>1, <1>6, <1>9, <1>10 DEF InOrder
<1> QED BY <1>11 DEF inputs

(* What one episode of the merged dataset holds.                           *)
LEMMA EpisodeMoved ==
  ASSUME NEW ps, NEW version, NEW n, NEW man, NEW off,
         Numbering(ps, version, n, man, off), NEW dat, NEW vid,
         Moved(version, ps, man, dat, vid),
         NEW p \in 1 .. n, NEW i \in 1 .. Len(ps[p].meta)
  PROVE  LET e == Read(Merged(version, ps, man, dat, vid)).episodes[off[p] + i]
             l == ps[p].meta[i].length
         IN  /\ e.packets = PacketsOf(ps[p], i)
             /\ e.rows = [f \in 1 .. l |-> NewRow(ps, man, p, RowsOf(ps[p], i)[f])]
             /\ Len(RowsOf(ps[p], i)) = l /\ l \in Nat \ {0}
<1> DEFINE out == Merged(version, ps, man, dat, vid)
           m == off[p] + i
           l == ps[p].meta[i].length
           part == ps[p]
           rows == RowsOf(part, i)
<1>1. SoundEpisode(part, i)
  <2>1. Sound(part, Len(part.meta))
    BY DEF Numbering, Alike
  <2>2. i \in 1 .. Len(part.meta)
    OBVIOUS
  <2> HIDE DEF part
  <2> QED BY <2>1, <2>2 DEF Sound
<1>2. l \in Nat \ {0} /\ rows = [f \in 1 .. l |-> rows[f]]
  <2> HIDE DEF part
  <2> QED BY <1>1 DEF SoundEpisode, part
<1>3. Len(rows) = l
  <2> HIDE DEF rows, l
  <2> QED BY <1>2, LenOfFunction
<1>4. m \in DOMAIN out.meta
  <2>1. Numbers(man, ps, off, n)
    BY DEF Numbering
  <2>2. m \in DOMAIN man.episodes
    BY <2>1 DEF Numbers
  <2> HIDE DEF m
  <2>3. DOMAIN out.meta = DOMAIN man.episodes
    BY Zenon DEF Merged
  <2> QED BY <2>2, <2>3
<1>5. Read(out).episodes[m] = [rows |-> RowsOf(out, m), packets |-> PacketsOf(out, m),
                               stats |-> out.meta[m].stats]
  <2> HIDE DEF out, m
  <2> QED BY <1>4 DEF Read
<1>6. RowsOf(out, m) = [f \in 1 .. l |-> NewRow(ps, man, p, rows[f])]
  BY RowsMoved
<1>7. PacketsOf(out, m) = PacketsOf(part, i)
  BY PacketsMoved
<1> HIDE DEF out, m, l, rows
<1>8. LET e == Read(out).episodes[m]
      IN  e.packets = PacketsOf(part, i)
          /\ e.rows = [f \in 1 .. l |-> NewRow(ps, man, p, rows[f])]
  BY <1>5, <1>6, <1>7
<1> QED BY <1>2, <1>3, <1>8 DEF out, m, l, rows

(* Whatever the parts, what a merge writes is their concatenation.         *)
LEMMA MergedConcatenates ==
  ASSUME NEW ps, NEW version, NEW n, NEW man, NEW off,
         Numbering(ps, version, n, man, off), NEW dat, NEW vid,
         Moved(version, ps, man, dat, vid)
  PROVE  Concatenated(Merged(version, ps, man, dat, vid), ps)
<1> DEFINE out == Merged(version, ps, man, dat, vid)
           whole == Read(out)
           inputs == InputsOf(ps)
           lens == [m \in DOMAIN inputs |-> Len(inputs[m].episode.rows)]
           c == off[n + 1]
<1>1. /\ n \in Nat /\ Numbers(man, ps, off, n) /\ Alike(ps, version, n)
      /\ man = ManifestOf(ps)
  BY DEF Numbering, Alike
<1>2. InOrder(inputs, ps, off, n)
  BY InputsInOrder
<1>3. /\ Len(inputs) = c /\ DOMAIN inputs = 1 .. c /\ c \in Nat
      /\ \A p \in 1 .. n : \A i \in 1 .. Len(ps[p].meta) :
           inputs[off[p] + i] = Entry(ps, p, i)
  <2>1. n + 1 \in 1 .. n + 1
    BY <1>1
  <2>2. c \in Nat
    BY <1>1, <2>1 DEF Numbers
  <2> HIDE DEF inputs, c
  <2> QED BY <1>1, <1>2, <2>2 DEF InOrder, c
<1>4. whole.tasks = TasksOf(man) /\ whole.splits = ps[1].splits
      /\ DOMAIN whole.episodes = 1 .. c
  <2>1. out.tasks = TasksOf(man) /\ out.splits = ps[1].splits
        /\ DOMAIN out.meta = DOMAIN man.episodes
    BY DEF Merged
  <2>2. DOMAIN man.episodes = 1 .. c
    BY <1>1 DEF Numbers
  <2> HIDE DEF out
  <2> QED BY <2>1, <2>2 DEF Read
<1>5. Len(whole.episodes) = c
  <2>1. whole.episodes = [m \in 1 .. c |-> whole.episodes[m]]
    <3>1. whole.episodes = [i \in DOMAIN out.meta |->
             [rows |-> RowsOf(out, i), packets |-> PacketsOf(out, i),
              stats |-> out.meta[i].stats]]
      BY DEF Read
    <3> HIDE DEF whole, out
    <3> QED BY <1>4, <3>1
  <2> HIDE DEF whole, c
  <2> QED BY <1>3, <2>1, LenOfFunction
<1>6. IsInjective(whole.tasks)
  <2>1. Covers(TasksOf(man), ps, n)
    BY <1>1, TasksCover
  <2> HIDE DEF whole
  <2> QED BY <1>4, <2>1 DEF Covers
<1>7. \A m \in 1 .. c : \E p \in 1 .. n : \E i \in 1 .. Len(ps[p].meta) : m = off[p] + i
  BY <1>1 DEF Numbers
<1>8. ASSUME NEW p \in 1 .. n, NEW i \in 1 .. Len(ps[p].meta)
      PROVE  LET e == whole.episodes[off[p] + i]
                 l == ps[p].meta[i].length
             IN  /\ e.packets = PacketsOf(ps[p], i)
                 /\ e.rows = [f \in 1 .. l |-> NewRow(ps, man, p, RowsOf(ps[p], i)[f])]
                 /\ Len(RowsOf(ps[p], i)) = l /\ l \in Nat \ {0}
  BY EpisodeMoved
<1> HIDE DEF inputs, whole, out, c
<1>9. lens = man.lens
  <2>1. ASSUME NEW m \in 1 .. c PROVE lens[m] = man.lens[m]
    <3>1. PICK p \in 1 .. n : \E i \in 1 .. Len(ps[p].meta) : m = off[p] + i
      BY <1>7
    <3>2. PICK i \in 1 .. Len(ps[p].meta) : m = off[p] + i
      BY <3>1
    <3>3. inputs[m].episode.rows = RowsOf(ps[p], i)
      <4>1. inputs[m] = Entry(ps, p, i)
        BY <1>3, <3>2
      <4> QED BY <4>1 DEF Entry
    <3>4. lens[m] = ps[p].meta[i].length
      BY <1>3, <1>8, <3>3
    <3>5. man.lens[m] = ps[p].meta[i].length
      BY <1>1, <3>2 DEF Numbers
    <3> QED BY <3>4, <3>5
  <2>2. man.lens = [m \in 1 .. c |-> man.lens[m]]
    BY <1>1 DEF Numbers, c
  <2> QED BY <1>3, <2>1, <2>2
<1> HIDE DEF lens
<1>10. ASSUME NEW m \in DOMAIN inputs
       PROVE  LET rows == whole.episodes[m].rows
              IN  /\ [f \in DOMAIN rows |-> [rows[f] EXCEPT !.task = whole.tasks[@]]]
                       = RowsWanted(inputs, lens, m)
                  /\ whole.episodes[m].packets = inputs[m].episode.packets
  <2>0. m \in 1 .. c
    BY <1>3
  <2>1. PICK p \in 1 .. n : \E i \in 1 .. Len(ps[p].meta) : m = off[p] + i
    BY <1>7, <2>0
  <2>2. PICK i \in 1 .. Len(ps[p].meta) : m = off[p] + i
    BY <2>1
  <2> DEFINE rows == whole.episodes[m].rows
             l == ps[p].meta[i].length
             have == RowsOf(ps[p], i)
             New(f) == [rows[f] EXCEPT !.task = whole.tasks[@]]
             Want(f) == [have[f] EXCEPT !.episode = m - 1, !.index = Offset(lens, m) + f - 1,
                                        !.task = ps[p].tasks[@]]
  <2>3. /\ inputs[m].episode.rows = have /\ inputs[m].tasks = ps[p].tasks
        /\ inputs[m].episode.packets = PacketsOf(ps[p], i)
    <3>1. inputs[m] = Entry(ps, p, i)
      BY <1>3, <2>2
    <3> HIDE DEF have
    <3>2. /\ Entry(ps, p, i).episode.rows = have /\ Entry(ps, p, i).tasks = ps[p].tasks
          /\ Entry(ps, p, i).episode.packets = PacketsOf(ps[p], i)
      BY DEF Entry, have
    <3> QED BY <3>1, <3>2
  <2>4. /\ whole.episodes[m].packets = PacketsOf(ps[p], i)
        /\ rows = [f \in 1 .. l |-> NewRow(ps, man, p, have[f])]
        /\ l \in Nat
    BY <1>8, <2>2
  <2>5. lens[m] = l
    BY <1>1, <1>9, <2>2 DEF Numbers
  <2>6. ASSUME NEW f \in 1 .. l PROVE New(f) = Want(f)
    <3> DEFINE row == have[f]
               new == rows[f]
               tasks == TasksOf(man)
               table == ps[p].tasks
    <3>1. IsRow(row) /\ row.frame = f - 1
          /\ NewIs(new, row, m, man.lens, f, tasks, table)
      <4>1. /\ IsRow(row) /\ row.frame = f - 1
            /\ NewIs(NewRow(ps, man, p, row), row, off[p] + i, man.lens, f, tasks, table)
        BY RowRewritten
      <4> QED BY <2>2, <2>4, <4>1
    <3> HIDE DEF row, new, tasks, table
    <3>2. row = [episode |-> row.episode, index |-> row.index, frame |-> row.frame,
                 task |-> row.task, payload |-> row.payload]
      BY <3>1 DEF IsRow
    <3>3. /\ new = [episode |-> new.episode, index |-> new.index, frame |-> new.frame,
                    task |-> new.task, payload |-> new.payload]
          /\ new.episode = m - 1 /\ new.index = Offset(lens, m) + (f - 1)
          /\ new.frame = row.frame /\ new.payload = row.payload
          /\ tasks[new.task] = table[row.task]
      BY <1>9, <3>1 DEF NewIs, IsRow
    <3>4. Offset(lens, m) + (f - 1) = Offset(lens, m) + f - 1
      <4>1. Offset(lens, m) \in Nat
        <5>1. lens \in [1 .. c -> Nat]
          <6>1. ASSUME NEW k \in 1 .. c PROVE lens[k] \in Nat
            <7>1. PICK q \in 1 .. n : \E j \in 1 .. Len(ps[q].meta) : k = off[q] + j
              BY <1>7
            <7>2. PICK j \in 1 .. Len(ps[q].meta) : k = off[q] + j
              BY <7>1
            <7>3. man.lens[k] = ps[q].meta[j].length
              BY <1>1, <7>2 DEF Numbers
            <7> QED BY <1>8, <1>9, <7>3
          <6>2. lens = [k \in 1 .. c |-> lens[k]]
            BY <1>1, <1>9 DEF Numbers, c
          <6> QED BY <6>1, <6>2
        <5>2. m \in 1 .. c + 1
          BY <1>3, <2>0
        <5> QED BY <1>3, <5>1, <5>2, OffsetProperties
      <4> QED BY <4>1
    <3>5. New(f) = [new EXCEPT !.task = tasks[new.task]]
      BY <1>4 DEF new, tasks
    <3>6. Want(f) = [row EXCEPT !.episode = m - 1, !.index = Offset(lens, m) + f - 1,
                                !.task = table[row.task]]
      BY DEF row, table
    <3> HIDE DEF New, Want
    <3>7. New(f) = [episode |-> m - 1, index |-> Offset(lens, m) + (f - 1),
                    frame |-> row.frame, task |-> table[row.task],
                    payload |-> row.payload]
      BY <3>3, <3>5
    <3>8. Want(f) = [episode |-> m - 1, index |-> Offset(lens, m) + f - 1,
                     frame |-> row.frame, task |-> table[row.task],
                     payload |-> row.payload]
      BY <3>2, <3>6
    <3> QED BY <3>4, <3>7, <3>8
  <2>7. RowsWanted(inputs, lens, m) = [f \in 1 .. l |-> Want(f)]
    BY <2>3, <2>5 DEF RowsWanted
  <2>8. DOMAIN rows = 1 .. l
    BY <2>4
  <2> HIDE DEF rows, Want
  <2>9. [f \in DOMAIN rows |-> New(f)] = [f \in 1 .. l |-> Want(f)]
    <3> HIDE DEF New
    <3> QED BY <2>6, <2>8
  <2> QED BY <2>3, <2>4, <2>7, <2>9 DEF rows
<1>11. Len(whole.episodes) = Len(inputs)
  BY <1>3, <1>5
<1>12. whole.splits = ps[1].splits
  BY <1>4
<1>13. Concatenated(out, ps)
  BY <1>6, <1>10, <1>11, <1>12, Zenon DEF Concatenated, whole, inputs, lens
<1> QED BY <1>13 DEF out

-----------------------------------------------------------------------------
(***************************************************************************)
(* Parts of one source have one table, and the episodes of their           *)
(* intervals.                                                              *)
(***************************************************************************)

Shared(ps, table, n) ==
  /\ n \in Nat \ {0} /\ \A p \in 1 .. n : ps[p].tasks = table
  /\ IsTable(table) /\ IsInjective(table) /\ Dense(table)

(* Parts that share a table without gaps or repetitions keep it: the       *)
(* merged table is theirs.                                                 *)
LEMMA SharedTable ==
  ASSUME NEW ps, NEW version, NEW n, Alike(ps, version, n),
         NEW table, Shared(ps, table, n)
  PROVE  TasksOf(ManifestOf(ps)) = table
<1> DEFINE c == Cardinality(DOMAIN table)
           words == WordsOf(table)
           seqs == [p \in 1 .. n |-> words]
           S == Range(table)
           used == TextsOf(ps)
           texts == Deduplicated(used)
           tasks == TasksOf(ManifestOf(ps))
<1>1. /\ n \in Nat \ {0} /\ DOMAIN ps = 1 .. n /\ IsTable(table) /\ IsInjective(table)
      /\ \A p \in 1 .. n : ps[p].tasks = table
  BY DEF Alike, Shared
<1>2. /\ table = [k \in 0 .. c - 1 |-> table[k]] /\ c \in Nat \ {0}
      /\ DOMAIN table = 0 .. c - 1
  <2>1. c \in Nat
    BY <1>1, WordsAre
  <2>2. DOMAIN table = 0 .. c - 1 /\ table = [k \in DOMAIN table |-> table[k]]
        /\ DOMAIN table # {}
    BY <1>1 DEF Shared, Dense, IsTable
  <2> HIDE DEF c
  <2> QED BY <2>1, <2>2
<1>3. words \in Seq(S) /\ Len(words) = c /\ DOMAIN words = 1 .. c
  BY <1>1, WordsAre
<1>4. Labels(table) = [k \in 1 .. c |-> 0 + k - 1]
  <2>1. Ascending(0 .. 0 + c - 1) = [k \in 1 .. c |-> 0 + k - 1]
    <3>1. 0 \in Nat /\ c \in Nat
      BY <1>2
    <3> HIDE DEF c
    <3> QED BY <3>1, AscendingInterval
  <2>2. 0 .. 0 + c - 1 = DOMAIN table
    <3>1. 0 + c - 1 = c - 1
      BY <1>2
    <3> QED BY <1>2, <3>1
  <2> QED BY <2>1, <2>2 DEF Labels
<1> HIDE DEF c
<1>5. \A k \in 1 .. c : words[k] = table[k - 1] /\ k - 1 \in DOMAIN table
  <2> TAKE k \in 1 .. c
  <2>1. k \in DOMAIN Labels(table) /\ Labels(table)[k] = k - 1
    BY <1>4
  <2>2. k - 1 \in DOMAIN table
    BY <1>2
  <2> QED BY <2>1, <2>2 DEF WordsOf
<1>6. \A k, l \in 1 .. c : words[k] = words[l] => k = l
  <2> SUFFICES ASSUME NEW k \in 1 .. c, NEW l \in 1 .. c, words[k] = words[l] PROVE k = l
    OBVIOUS
  <2>1. k - 1 = l - 1
    BY <1>1, <1>5 DEF IsInjective
  <2> QED BY <2>1
<1> HIDE DEF words, S
<1>7. seqs \in Seq(Seq(S)) /\ Len(seqs) = n /\ \A p \in 1 .. n : seqs[p] = words
  <2>1. seqs \in [1 .. n -> Seq(S)] /\ \A p \in 1 .. n : seqs[p] = words
    BY <1>3
  <2> HIDE DEF seqs
  <2> QED BY <1>1, <2>1, SeqOfFunction
<1>8. used = FlattenSeq(seqs)
  <2>1. ASSUME NEW p \in DOMAIN ps
        PROVE  [k \in DOMAIN Labels(ps[p].tasks) |-> ps[p].tasks[Labels(ps[p].tasks)[k]]]
                 = words
    <3>1. ps[p].tasks = table
      BY <1>1
    <3> QED BY <3>1 DEF words, WordsOf
  <2>2. [p \in DOMAIN ps |->
          [k \in DOMAIN Labels(ps[p].tasks) |-> ps[p].tasks[Labels(ps[p].tasks)[k]]]]
          = [p \in DOMAIN ps |-> words]
    BY <2>1
  <2>3. [p \in DOMAIN ps |-> words] = seqs
    BY <1>1
  <2> QED BY <2>2, <2>3, Zenon DEF TextsOf
<1> HIDE DEF seqs, used
<1>9. PICK off : Positions(off, seqs, S)
  BY <1>7, PositionsExist
<1>10. /\ used \in Seq(S) /\ Len(used) = off[n + 1]
       /\ \A p \in 1 .. n : \A j \in 1 .. c :
            off[p] + j \in 1 .. off[n + 1] /\ used[off[p] + j] = words[j]
  <2>1. /\ FlattenSeq(seqs) \in Seq(S)
        /\ Len(FlattenSeq(seqs)) = off[Len(seqs) + 1]
        /\ \A k \in 1 .. Len(seqs) : \A j \in 1 .. Len(seqs[k]) :
             /\ off[k] + j \in 1 .. off[Len(seqs) + 1]
             /\ FlattenSeq(seqs)[off[k] + j] = seqs[k][j]
    BY <1>9, FlattenAt
  <2> QED BY <1>3, <1>7, <1>8, <2>1
<1> DEFINE t == Len(used)
<1>11. t \in Nat /\ DOMAIN used = 1 .. t
  BY <1>10, LenProperties
<1>12. \A j \in 1 .. c : j \in 1 .. t /\ used[j] = words[j]
  <2> TAKE j \in 1 .. c
  <2>1. off[1] = 0 /\ 1 \in 1 .. n
    BY <1>1, <1>9 DEF Positions
  <2>2. off[1] + j \in 1 .. off[n + 1] /\ used[off[1] + j] = words[j]
    BY <1>10, <2>1
  <2>3. off[1] + j = j
    BY <2>1
  <2> QED BY <1>10, <2>2, <2>3
<1>13. ASSUME NEW x \in 1 .. t PROVE \E j \in 1 .. c : used[x] = words[j]
  <2>1. x \in 1 .. off[Len(seqs) + 1]
    BY <1>7, <1>10
  <2>2. \E p \in 1 .. Len(seqs) : \E j \in 1 .. Len(seqs[p]) : x = off[p] + j
    BY <1>9, <2>1, FlattenCover
  <2>3. PICK p \in 1 .. n : \E j \in 1 .. c : x = off[p] + j
    BY <1>3, <1>7, <2>2
  <2>4. PICK j \in 1 .. c : x = off[p] + j
    BY <2>3
  <2> QED BY <1>10, <2>4
<1>14. texts = [k \in 1 .. c |-> used[k]]
  <2>1. c \in 0 .. t
    <3>1. c \in 1 .. c
      BY <1>2
    <3> QED BY <1>2, <1>12, <3>1
  <2>2. \A i, j \in 1 .. c : used[i] = used[j] => i = j
    BY <1>6, <1>12
  <2>3. \A i \in c + 1 .. t : \E j \in 1 .. c : used[i] = used[j]
    <3> TAKE i \in c + 1 .. t
    <3>1. i \in 1 .. t
      BY <1>2
    <3> QED BY <1>12, <1>13, <3>1
  <2> HIDE DEF t, c
  <2>4. NoneAfter(used, c, t)
    BY <2>2, <2>3 DEF NoneAfter
  <2>5. Deduplicated(used) = [k \in 1 .. c |-> used[k]]
    BY <1>11, <2>1, <2>4, DeduplicatedPrefix
  <2> QED BY <2>5
<1> HIDE DEF texts
<1>15. Len(texts) = c
  <2>1. texts = [k \in 1 .. c |-> texts[k]]
    BY <1>14
  <2> QED BY <1>2, <2>1, LenOfFunction
<1>16. tasks = [k \in 0 .. Len(texts) - 1 |-> texts[k + 1]]
  BY DEF TasksOf, ManifestOf, texts, used
<1> HIDE DEF tasks
<1>17. \A k \in 0 .. c - 1 : texts[k + 1] = table[k]
  <2> TAKE k \in 0 .. c - 1
  <2>1. k + 1 \in 1 .. c /\ (k + 1) - 1 = k
    BY <1>2
  <2>2. texts[k + 1] = words[k + 1]
    BY <1>12, <1>14, <2>1
  <2> QED BY <1>5, <2>1, <2>2
<1>18. tasks = table
  BY <1>2, <1>15, <1>16, <1>17
<1> QED BY <1>18 DEF tasks

(* The episodes of a part of a source.                                     *)
Renumbers(new, old, k, lens) ==
  /\ new.packets = old.packets /\ new.stats = old.stats
  /\ DOMAIN new.rows = DOMAIN old.rows /\ new.rows = [f \in DOMAIN new.rows |-> new.rows[f]]
  /\ \A f \in DOMAIN old.rows :
       new.rows[f] = [old.rows[f] EXCEPT !.episode = k - 1,
                                         !.index = Offset(lens, k) + f - 1]

IntervalOf(interval, n) ==
  /\ interval.start \in Nat /\ interval.stop \in Nat
  /\ interval.start < interval.stop /\ interval.stop <= n

IsSubset(part, view, interval, m) ==
  /\ part = [tasks |-> view.tasks, splits |-> Train, episodes |-> part.episodes]
  /\ DOMAIN part.episodes = 1 .. m
  /\ \E lens : /\ lens = [k \in 1 .. m |-> Len(view.episodes[interval.start + k].rows)]
               /\ \A k \in 1 .. m :
                    Renumbers(part.episodes[k], view.episodes[interval.start + k], k, lens)

(* A subset holds the episodes of its interval, renumbered from 0.         *)
LEMMA SubsetIs ==
  ASSUME NEW n \in Nat, NEW view, Presented(view, n),
         NEW interval, IntervalOf(interval, n)
  PROVE  IsSubset(Subset(view, interval), view, interval, interval.stop - interval.start)
<1> DEFINE from == interval.start
           to == interval.stop
           m == to - from
           S == Range(view.episodes)
           chosen == SubSeq(view.episodes, from + 1, to)
           lens == [k \in DOMAIN chosen |-> Len(chosen[k].rows)]
           part == Subset(view, interval)
<1>0. from \in Nat /\ to \in Nat /\ from < to /\ to <= n
  BY DEF IntervalOf
<1>1. /\ view.episodes = [i \in 1 .. n |-> view.episodes[i]]
      /\ \A i \in 1 .. n : \E l \in Nat \ {0} : Framed(view.episodes[i], i, l)
  BY DEF Presented
<1>2. /\ part = [tasks |-> view.tasks, splits |-> Train, episodes |-> part.episodes]
      /\ part.episodes = [k \in DOMAIN chosen |-> SubsetEpisode(chosen[k], lens, k)]
  BY DEF Subset
<1> HIDE DEF S, chosen, part
<1>3. m \in Nat /\ DOMAIN chosen = 1 .. m
      /\ \A k \in 1 .. m : from + k \in 1 .. n /\ chosen[k] = view.episodes[from + k]
  <2>1. \A i \in from + 1 .. to : view.episodes[i] \in S
    <3> TAKE i \in from + 1 .. to
    <3>1. i \in 1 .. n
      BY <1>0
    <3>2. i \in DOMAIN view.episodes
      BY <1>1, <3>1
    <3> QED BY <3>2 DEF S, Range
  <2>2. /\ chosen \in Seq(S)
        /\ Len(chosen) = IF from + 1 <= to THEN to - (from + 1) + 1 ELSE 0
        /\ \A j \in 1 .. to - (from + 1) + 1 :
             chosen[j] = view.episodes[from + 1 + j - 1]
    <3>1. from + 1 \in Int /\ to \in Int
      BY <1>0
    <3> QED BY <2>1, <3>1, SubSeqProperties DEF chosen
  <2>3. Len(chosen) = m /\ m \in Nat /\ to - (from + 1) + 1 = m
    BY <1>0, <2>2
  <2>4. DOMAIN chosen = 1 .. m
    BY <2>2, <2>3, LenProperties
  <2>5. \A k \in 1 .. m : from + k \in 1 .. n /\ from + 1 + k - 1 = from + k
    BY <1>0
  <2> QED BY <2>2, <2>3, <2>4, <2>5
<1> HIDE DEF from, to, m
<1>4. DOMAIN part.episodes = 1 .. m
  BY <1>2, <1>3
<1>5. lens = [k \in 1 .. m |-> Len(view.episodes[from + k].rows)]
  BY <1>3
<1> HIDE DEF lens
<1>6. ASSUME NEW k \in 1 .. m
      PROVE  Renumbers(part.episodes[k], view.episodes[from + k], k, lens)
  <2> DEFINE e == view.episodes[from + k]
             new == part.episodes[k]
             rows == [f \in DOMAIN e.rows |->
              [e.rows[f] EXCEPT !.episode = k - 1, !.index = Offset(lens, k) + f - 1]]
  <2>1. PICK l \in Nat \ {0} : Framed(e, from + k, l)
    BY <1>1, <1>3
  <2>2. e = [rows |-> e.rows, packets |-> e.packets, stats |-> e.stats]
    BY <2>1 DEF Framed
  <2>3. new = SubsetEpisode(e, lens, k)
    BY <1>2, <1>3
  <2> HIDE DEF e, new
  <2>4. new = [e EXCEPT !.rows = rows]
    BY <2>3, Zenon DEF SubsetEpisode
  <2>5. rows = [f \in DOMAIN rows |-> rows[f]] /\ DOMAIN rows = DOMAIN e.rows
        /\ \A f \in DOMAIN e.rows : rows[f] =
             [e.rows[f] EXCEPT !.episode = k - 1, !.index = Offset(lens, k) + f - 1]
    OBVIOUS
  <2> HIDE DEF rows
  <2>6. new.rows = rows /\ new.packets = e.packets /\ new.stats = e.stats
    BY <2>2, <2>4
  <2>7. Renumbers(new, e, k, lens)
    BY <2>5, <2>6, Zenon DEF Renumbers
  <2> QED BY <2>7 DEF new, e
<1>7. IsSubset(part, view, interval, m)
  BY <1>2, <1>4, <1>5, <1>6, Zenon DEF IsSubset, from
<1> QED BY <1>7 DEF part, m, from, to

(* Choosing episodes of a labelled dataset keeps the labels.               *)
LEMMA SubsetIsLabelled ==
  ASSUME NEW n \in Nat, NEW view, Presented(view, n), Labelled(view),
         NEW interval, IntervalOf(interval, n)
  PROVE  Labelled(Subset(view, interval))
<1> DEFINE part == Subset(view, interval)
           m == interval.stop - interval.start
           from == interval.start
<1>1. IsSubset(part, view, interval, m)
  BY SubsetIs
<1> HIDE DEF part
<1>2. PICK lens : \A k \in 1 .. m :
                    Renumbers(part.episodes[k], view.episodes[from + k], k, lens)
  BY <1>1, Zenon DEF IsSubset
<1>3. part.tasks = view.tasks /\ DOMAIN part.episodes = 1 .. m
  BY <1>1 DEF IsSubset
<1>4. DOMAIN view.episodes = 1 .. n
      /\ \A i \in 1 .. n : \E l \in Nat \ {0} : Framed(view.episodes[i], i, l)
  BY DEF Presented
<1>5. \A k \in 1 .. m : from + k \in 1 .. n
  BY DEF IntervalOf
<1> HIDE DEF m, from
<1>6. ASSUME NEW k \in 1 .. m, NEW f \in DOMAIN part.episodes[k].rows
      PROVE  /\ part.episodes[k].rows[f].frame = f - 1
             /\ part.episodes[k].rows[f].task \in DOMAIN view.tasks
  <2> DEFINE e == view.episodes[from + k]
             row == e.rows[f]
             new == part.episodes[k].rows[f]
  <2>1. PICK l \in Nat \ {0} : Framed(e, from + k, l)
    BY <1>4, <1>5
  <2>2. Renumbers(part.episodes[k], e, k, lens)
    BY <1>2
  <2>3. f \in DOMAIN e.rows
        /\ new = [row EXCEPT !.episode = k - 1, !.index = Offset(lens, k) + f - 1]
    BY <2>2 DEF Renumbers
  <2>4. DOMAIN e.rows = 1 .. l
    BY <2>1 DEF Framed
  <2>5. IsRow(row)
    BY <2>1, <2>3, <2>4 DEF Framed
  <2>6. row.frame = f - 1 /\ row.task \in DOMAIN view.tasks
    BY <1>4, <1>5, <2>3 DEF Labelled
  <2> HIDE DEF row, new, e
  <2>7. new.frame = row.frame /\ new.task = row.task
    BY <2>3, <2>5 DEF IsRow
  <2>8. new.frame = f - 1 /\ new.task \in DOMAIN view.tasks
    BY <2>6, <2>7
  <2> QED BY <2>8 DEF new
<1>7. IsTable(part.tasks)
  BY <1>3 DEF Labelled
<1> QED BY <1>3, <1>6, <1>7, Zenon DEF Labelled, part

(* The datasets that a merge is given read as labelled, too.               *)
LEMMA InputIsLabelled ==
  ASSUME NEW p, NEW i, i.lens \in Seq(Lengths), i.version \in Versions, IsTable(i.table)
  PROVE  /\ Converted(Input(p, i)) /\ Labelled(Read(Input(p, i)))
         /\ Input(p, i).version = i.version
<1> DEFINE n == Len(i.lens)
           view == Recorded(i.lens, i.table, i.splits)
           Frame(row) == [row EXCEPT !.payload = <<p, @>>]
           Episode(e) == [e EXCEPT !.rows = [f \in DOMAIN @ |-> Frame(@[f])],
                                   !.packets = [f \in DOMAIN @ |-> <<p, @[f]>>]]
           new == [view EXCEPT !.episodes = [k \in DOMAIN @ |-> Episode(@[k])]]
<1>1. n \in Nat /\ i.lens \in [1 .. n -> Nat \ {0}]
  <2>1. i.lens \in [1 .. n -> Lengths] /\ n \in Nat
    BY LenProperties
  <2> QED BY <2>1, PipelineAssumption DEF PipelineAssumption
<1> HIDE DEF n
<1>2. Presented(view, n) /\ Labelled(view)
  BY <1>1, RecordedIsPresented, RecordedIsLabelled
<1> HIDE DEF view
<1>3. /\ view = [tasks |-> view.tasks, splits |-> view.splits,
                 episodes |-> view.episodes]
      /\ view.episodes = [k \in 1 .. n |-> view.episodes[k]]
      /\ \A k \in 1 .. n : \E l \in Nat \ {0} : Framed(view.episodes[k], k, l)
  BY <1>2 DEF Presented
<1>4. /\ new = [tasks |-> new.tasks, splits |-> new.splits, episodes |-> new.episodes]
      /\ new.episodes = [k \in DOMAIN view.episodes |-> Episode(view.episodes[k])]
      /\ new.tasks = view.tasks
  <2> HIDE DEF Episode
  <2> DEFINE episodes == [k \in DOMAIN view.episodes |-> Episode(view.episodes[k])]
  <2>1. new = [view EXCEPT !.episodes = episodes]
    BY Zenon
  <2> HIDE DEF new, episodes
  <2>2. new = [tasks |-> view.tasks, splits |-> view.splits, episodes |-> episodes]
    BY <1>3, <2>1
  <2> QED BY <2>2 DEF episodes
<1>5. DOMAIN view.episodes = 1 .. n
  BY <1>3
<1>6. Input(p, i) = Write(i.version, new)
  BY Zenon DEF Input, view
<1> HIDE DEF new
<1>7. ASSUME NEW k \in 1 .. n
      PROVE  /\ \E l \in Nat \ {0} : Framed(new.episodes[k], k, l)
             /\ \A f \in DOMAIN new.episodes[k].rows :
                  /\ new.episodes[k].rows[f].frame = f - 1
                  /\ new.episodes[k].rows[f].task \in DOMAIN view.tasks
  <2> DEFINE e == view.episodes[k]
             w == new.episodes[k]
  <2>1. PICK l \in Nat \ {0} : Framed(e, k, l)
    BY <1>3
  <2>2. /\ e = [rows |-> e.rows, packets |-> e.packets, stats |-> e.stats]
        /\ e.rows = [f \in 1 .. l |-> e.rows[f]]
        /\ e.packets = [f \in 1 .. l |-> e.packets[f]]
        /\ \A f \in 1 .. l : IsRow(e.rows[f]) /\ e.rows[f].episode = k - 1
    BY <2>1 DEF Framed
  <2>3. w = Episode(e)
    BY <1>4, <1>5
  <2> HIDE DEF e, w
  <2>4. /\ w = [rows |-> w.rows, packets |-> w.packets, stats |-> w.stats]
        /\ w.packets = [f \in DOMAIN e.packets |-> <<p, e.packets[f]>>]
        /\ w.rows = [f \in DOMAIN e.rows |->
                       [e.rows[f] EXCEPT !.payload = <<p, e.rows[f].payload>>]]
    <3> DEFINE rows == [f \in DOMAIN e.rows |->
                          [e.rows[f] EXCEPT !.payload = <<p, e.rows[f].payload>>]]
               packets == [f \in DOMAIN e.packets |-> <<p, e.packets[f]>>]
    <3>1. w = [e EXCEPT !.rows = rows, !.packets = packets]
      BY <2>3, Zenon
    <3> HIDE DEF rows, packets
    <3>2. w = [rows |-> rows, packets |-> packets, stats |-> e.stats]
      BY <2>2, <3>1
    <3> QED BY <3>2 DEF rows, packets
  <2>5. ASSUME NEW f \in 1 .. l PROVE IsRow(w.rows[f]) /\ w.rows[f].episode = k - 1
    <3> DEFINE row == e.rows[f]
    <3>1. row = [episode |-> row.episode, index |-> row.index, frame |-> row.frame,
                 task |-> row.task, payload |-> row.payload]
          /\ row.episode = k - 1
      BY <2>2 DEF IsRow
    <3>2. w.rows[f] = [row EXCEPT !.payload = <<p, row.payload>>]
      BY <2>2, <2>4
    <3> HIDE DEF row
    <3> QED BY <3>1, <3>2 DEF IsRow
  <2>6. w.rows = [f \in 1 .. l |-> w.rows[f]]
        /\ w.packets = [f \in 1 .. l |-> w.packets[f]]
    BY <2>2, <2>4
  <2>7. Framed(w, k, l)
    BY <2>4, <2>5, <2>6, Zenon DEF Framed
  <2>8. ASSUME NEW f \in DOMAIN w.rows
        PROVE  w.rows[f].frame = f - 1 /\ w.rows[f].task \in DOMAIN view.tasks
    <3> DEFINE row == e.rows[f]
    <3>1. row = [episode |-> row.episode, index |-> row.index, frame |-> row.frame,
                 task |-> row.task, payload |-> row.payload]
          /\ f \in DOMAIN e.rows
      BY <2>2, <2>4 DEF IsRow
    <3>2. w.rows[f] = [row EXCEPT !.payload = <<p, row.payload>>]
      BY <2>4, <3>1
    <3>3. row.frame = f - 1 /\ row.task \in DOMAIN view.tasks
      BY <1>2, <1>5, <3>1 DEF Labelled, e
    <3> HIDE DEF row
    <3> QED BY <3>1, <3>2, <3>3
  <2> QED BY <2>1, <2>7, <2>8 DEF w
<1>8. new.episodes = [k \in 1 .. n |-> new.episodes[k]]
  BY <1>4, <1>5
<1>9. Presented(new, n)
  BY <1>4, <1>7, <1>8, Zenon DEF Presented
<1>10. new.tasks = view.tasks
  BY <1>4
<1>11. DOMAIN new.episodes = 1 .. n
  BY <1>8
<1>12. IsTable(new.tasks)
  BY <1>2, <1>10 DEF Labelled
<1>13. Labelled(new)
  BY <1>7, <1>10, <1>11, <1>12, Zenon DEF Labelled
<1>14. Read(Input(p, i)) = new
  BY <1>1, <1>6, <1>9, WrittenIsRead DEF Versions
<1>15. Input(p, i).version = i.version
  BY <1>6 DEF Write, WriteV21, WriteV30, Versions
<1> QED
  BY <1>1, <1>6, <1>9, <1>13, <1>14, <1>15, WrittenIsConverted

-----------------------------------------------------------------------------
(***************************************************************************)
(* The merge, step by step.                                                *)
(***************************************************************************)

(* Files of a merge that are done hold what belongs into them.             *)
Holds(files, content, tag, done, version) ==
  \A r \in DOMAIN content : <<tag, r>> \in done =>
    /\ FileName(version, r) \in DOMAIN files
    /\ files[FileName(version, r)] = content[r]

(* Writing one more file that holds what belongs into it.                  *)
LEMMA FileAdded ==
  ASSUME NEW files, NEW content, NEW tag, NEW done, NEW version,
         Holds(files, content, tag, done, version),
         DOMAIN content \subseteq Nat \ {0}, NEW r \in DOMAIN content
  PROVE  Holds(Assign(files, FileName(version, r), content[r]), content, tag,
               done \cup {<<tag, r>>}, version)
<1> DEFINE name == FileName(version, r)
           new == Assign(files, name, content[r])
<1>1. /\ DOMAIN new = DOMAIN files \cup {name} /\ new[name] = content[r]
      /\ \A file \in DOMAIN files : file # name => new[file] = files[file]
  BY DEF Assign
<1> HIDE DEF new
<1> SUFFICES ASSUME NEW q \in DOMAIN content, <<tag, q>> \in done \cup {<<tag, r>>}
             PROVE  /\ FileName(version, q) \in DOMAIN new
                    /\ new[FileName(version, q)] = content[q]
  BY Zenon DEF Holds, new
<1>2. CASE q = r
  BY <1>1, <1>2
<1>3. CASE q # r
  <2>1. <<tag, q>> \in done
    BY <1>3
  <2>2. FileName(version, q) \in DOMAIN files /\ files[FileName(version, q)] = content[q]
    BY <2>1 DEF Holds
  <2>3. FileName(version, q) # name
    BY <1>3, FileNamesDiffer
  <2> QED BY <1>1, <2>2, <2>3
<1> QED BY <1>2, <1>3

(* A file of the other kind changes nothing.                               *)
LEMMA OtherFileAdded ==
  ASSUME NEW files, NEW content, NEW tag, NEW done, NEW version,
         Holds(files, content, tag, done, version), NEW other, other # tag, NEW r
  PROVE  Holds(files, content, tag, done \cup {<<other, r>>}, version)
BY DEF Holds

(* Datasets that a backend wrote in one version.                           *)
LEMMA ConvertedAreAlike ==
  ASSUME NEW ps, NEW n \in Nat, DOMAIN ps = 1 .. n, ps = [p \in DOMAIN ps |-> ps[p]],
         NEW version \in Versions,
         \A p \in DOMAIN ps : Converted(ps[p]) /\ Labelled(Read(ps[p])),
         \A p \in DOMAIN ps : ps[p].version = version
  PROVE  Len(ps) = n /\ Alike(ps, version, Len(ps))
<1>1. ps = [p \in 1 .. n |-> ps[p]]
  OBVIOUS
<1>2. Len(ps) = n
  BY <1>1, LenOfFunction
<1>3. ASSUME NEW p \in 1 .. n PROVE Sound(ps[p], Len(ps[p].meta))
  <2> DEFINE part == ps[p]
             m == Len(Read(part).episodes)
  <2>1. Converted(part) /\ Labelled(Read(part))
    OBVIOUS
  <2> HIDE DEF part
  <2>2. Sound(part, m)
    BY <2>1, ConvertedIsSound
  <2> HIDE DEF m
  <2>3. m \in Nat /\ part.meta = [i \in 1 .. m |-> part.meta[i]]
    BY <2>2 DEF Sound
  <2>4. Len(part.meta) = m
    BY <2>3, LenOfFunction
  <2> QED BY <2>2, <2>4 DEF part
<1> QED BY <1>1, <1>2, <1>3, Zenon DEF Alike

-----------------------------------------------------------------------------

(* The files of a merge, by the number of their resource.                  *)
DataWanted == [r \in DOMAIN manifest.data |-> NewFileOf(parts, manifest, manifest.data[r])]

VideoWanted ==
  [r \in DOMAIN manifest.video |-> parts[manifest.video[r][1]].video[manifest.video[r][2]]]

MergeOpened ==
  /\ Alike(parts, target, Len(parts)) /\ manifest = ManifestOf(parts)
  /\ Holds(data, DataWanted, "data", written, target)
  /\ Holds(video, VideoWanted, "video", written, target)

(* The files of a merge are numbered from 1.                               *)
LEMMA ResourceNumbers ==
  ASSUME MergeOpened
  PROVE  DOMAIN DataWanted \subseteq Nat \ {0} /\ DOMAIN VideoWanted \subseteq Nat \ {0}
<1> DEFINE n == Len(parts)
<1>1. Alike(parts, target, n) /\ manifest = ManifestOf(parts)
  BY DEF MergeOpened
<1> HIDE DEF n
<1>2. PICK off : Numbers(ManifestOf(parts), parts, off, n)
  BY <1>1, ManifestNumbers
<1>3. Numbering(parts, target, n, manifest, off)
  BY <1>1, <1>2, Zenon DEF Numbering
<1>4. Uses(parts, manifest, off, n)
  BY <1>3, UsedFiles
<1>5. /\ \E c \in Nat : manifest.data = [k \in 1 .. c |-> manifest.data[k]]
      /\ \E c \in Nat : manifest.video = [k \in 1 .. c |-> manifest.video[k]]
  BY <1>4, Zenon DEF Uses, Lists
<1>6. DOMAIN manifest.data \subseteq Nat \ {0} /\ DOMAIN manifest.video \subseteq Nat \ {0}
  BY <1>5
<1> QED BY <1>6 DEF DataWanted, VideoWanted

(* Each step of a merge writes what belongs into its file.                 *)
LEMMA RewriteStep ==
  ASSUME MergeOpened, NEW r, RewriteData(r)
  PROVE  MergeOpened'
<1>1. /\ r \in DOMAIN manifest.data
      /\ written' = written \cup {<<"data", r>>}
      /\ UNCHANGED <<target, parts, manifest, video>>
  BY DEF RewriteData
<1>2. FileName(target, r) = MergedFile(r)
  BY DEF FileName, MergedFile
<1>3. data' = Assign(data, FileName(target, r), DataWanted[r])
  <2> DEFINE p == manifest.data[r][1]
             rows == parts[p].data[manifest.data[r][2]]
  <2>1. data' = Assign(data, MergedFile(r), [f \in DOMAIN rows |-> RewriteRow(p, rows[f])])
    BY Zenon DEF RewriteData
  <2>2. \A f \in DOMAIN rows : RewriteRow(p, rows[f]) = NewRow(parts, manifest, p, rows[f])
    BY Zenon DEF RewriteRow, NewRow, OutputOf, TaskMap, MergedTasks, TasksOf
  <2>3. DataWanted[r] = [f \in DOMAIN rows |-> NewRow(parts, manifest, p, rows[f])]
    BY <1>1 DEF DataWanted, NewFileOf
  <2> HIDE DEF p, rows
  <2>4. [f \in DOMAIN rows |-> RewriteRow(p, rows[f])] = DataWanted[r]
    BY <2>2, <2>3, Zenon
  <2> QED BY <1>2, <2>1, <2>4
<1>4. r \in DOMAIN DataWanted /\ DOMAIN DataWanted \subseteq Nat \ {0}
  BY <1>1, ResourceNumbers DEF DataWanted
<1>5. Holds(data', DataWanted, "data", written', target)
  BY <1>1, <1>3, <1>4, FileAdded DEF MergeOpened
<1>6. Holds(video, VideoWanted, "video", written', target)
  BY <1>1, OtherFileAdded DEF MergeOpened
<1> QED BY <1>1, <1>5, <1>6 DEF MergeOpened, DataWanted, VideoWanted

(* The same of a media file, which is copied as it is.                     *)
LEMMA CopyStep ==
  ASSUME MergeOpened, NEW r, CopyMedia(r)
  PROVE  MergeOpened'
<1>1. /\ r \in DOMAIN manifest.video
      /\ written' = written \cup {<<"video", r>>}
      /\ UNCHANGED <<target, parts, manifest, data>>
  BY DEF CopyMedia
<1>2. FileName(target, r) = MergedFile(r)
  BY DEF FileName, MergedFile
<1>3. video' = Assign(video, FileName(target, r), VideoWanted[r])
  BY <1>1, <1>2 DEF CopyMedia, VideoWanted
<1>4. r \in DOMAIN VideoWanted /\ DOMAIN VideoWanted \subseteq Nat \ {0}
  BY <1>1, ResourceNumbers DEF VideoWanted
<1>5. Holds(video', VideoWanted, "video", written', target)
  BY <1>1, <1>3, <1>4, FileAdded DEF MergeOpened
<1>6. Holds(data, DataWanted, "data", written', target)
  BY <1>1, OtherFileAdded DEF MergeOpened
<1> QED BY <1>1, <1>5, <1>6 DEF MergeOpened, DataWanted, VideoWanted

(* The dataset that the last step of a merge writes.                       *)
LEMMA WriteStep ==
  ASSUME MergeOpened, WriteMetadata
  PROVE  /\ final' = Merged(target, parts, manifest, data, video)
         /\ Moved(target, parts, manifest, data, video)
<1>1. DataDone /\ VideoDone
  BY DEF WriteMetadata
<1>2. final' = Merged(target, parts, manifest, data, video)
  <2>1. \A m \in DOMAIN manifest.episodes :
          MergedRow(m) = NewMeta(target, parts, manifest, m)
    BY Zenon DEF MergedRow, NewMeta, NumberOf
  <2>2. MergedTasks = TasksOf(manifest)
    BY DEF MergedTasks, TasksOf
  <2>3. final' = [version |-> target, tasks |-> MergedTasks, splits |-> parts[1].splits,
                  meta |-> [m \in DOMAIN manifest.episodes |-> MergedRow(m)],
                  data |-> data, video |-> video]
    BY DEF WriteMetadata
  <2>4. [m \in DOMAIN manifest.episodes |-> MergedRow(m)]
          = [m \in DOMAIN manifest.episodes |-> NewMeta(target, parts, manifest, m)]
    BY <2>1, Zenon
  <2> QED BY <2>2, <2>3, <2>4, Zenon DEF Merged
<1>3. \A r \in DOMAIN manifest.data :
        data[FileName(target, r)] = NewFileOf(parts, manifest, manifest.data[r])
  BY <1>1 DEF MergeOpened, Holds, DataDone, DataWanted
<1>4. \A r \in DOMAIN manifest.video :
        video[FileName(target, r)] = parts[manifest.video[r][1]].video[manifest.video[r][2]]
  BY <1>1 DEF MergeOpened, Holds, VideoDone, VideoWanted
<1> QED BY <1>2, <1>3, <1>4, Zenon DEF Moved

(* No file of a merge is written before the merge has been opened.         *)
BeforeMerge == Converting \/ stage = "inputs"

(* The invariant of a merge: the parts are labelled and of one version, an *)
(* open merge has put into each file what belongs there, and the dataset   *)
(* it writes is the concatenation.                                         *)
MergeInv ==
  /\ \A k \in DOMAIN parts : Labelled(Read(parts[k]))
  /\ Converting => Labelled(source) /\ \A k \in DOMAIN parts : parts[k].version = target
  /\ stage = "inputs" => target \in Versions /\ parts[1].version = target
  /\ BeforeMerge => written = {}
  /\ stage = "merging" => MergeOpened
  /\ stage = "merged" => Concatenated(final, parts)

(* It holds at first: recordings and inputs are labelled.                  *)
LEMMA MergeStart == Init => MergeInv
<1> SUFFICES ASSUME Init PROVE MergeInv
  OBVIOUS
<1>0. written = {}
  BY DEF Init
<1>1. CASE ConvertInit
  <2>1. parts = <<>> /\ stage = "request" /\ total \in Nat
    BY <1>1, TotalType DEF ConvertInit, PlanInit, Nothing
  <2>2. PICK lens \in [1 .. total -> Lengths], table \in TaskTables,
             splits \in Splits : source = Recorded(lens, table, splits)
    BY <1>1 DEF ConvertInit
  <2>3. lens \in [1 .. total -> Nat \ {0}] /\ IsTable(table)
    BY <2>2, PipelineAssumption DEF PipelineAssumption
  <2>4. Labelled(source)
    BY <2>1, <2>2, <2>3, RecordedIsLabelled
  <2>5. DOMAIN parts = {}
    BY <2>1
  <2> QED BY <1>0, <2>1, <2>4, <2>5, Zenon DEF MergeInv, Converting
<1>2. CASE MergeInit
  <2>1. PICK inputs \in Merges : /\ parts = [p \in DOMAIN inputs |-> Input(p, inputs[p])]
                                 /\ target = inputs[1].version
    BY <1>2, Zenon DEF MergeInit
  <2>2. stage = "inputs"
    BY <1>2 DEF MergeInit
  <2>3. inputs \in Seq(Range(inputs)) /\ inputs # <<>>
        /\ \A p \in DOMAIN inputs :
             /\ inputs[p].lens \in Seq(Lengths)
             /\ inputs[p].version \in Versions /\ IsTable(inputs[p].table)
    BY <2>1, PipelineAssumption DEF PipelineAssumption, Versions
  <2>4. 1 \in DOMAIN inputs
    <3>1. Len(inputs) \in Nat /\ DOMAIN inputs = 1 .. Len(inputs) /\ Len(inputs) # 0
      BY <2>3, LenProperties, EmptySeq
    <3> QED BY <3>1
  <2>5. ASSUME NEW p \in DOMAIN inputs
        PROVE  /\ Labelled(Read(Input(p, inputs[p])))
               /\ Input(p, inputs[p]).version = inputs[p].version
    BY <2>3, InputIsLabelled
  <2>6. DOMAIN parts = DOMAIN inputs
        /\ \A p \in DOMAIN parts : parts[p] = Input(p, inputs[p])
    BY <2>1
  <2>7. \A p \in DOMAIN parts : Labelled(Read(parts[p]))
    BY <2>5, <2>6
  <2>8. target \in Versions /\ parts[1].version = target
    BY <2>1, <2>3, <2>4, <2>5, <2>6
  <2> QED BY <1>0, <2>2, <2>7, <2>8, Zenon DEF MergeInv, Converting
<1> QED BY <1>1, <1>2 DEF Init

(* Every step keeps it. Opening a merge establishes MergeOpened, each file *)
(* written keeps it, and writing the metadata then makes the               *)
(* concatenation.                                                          *)
LEMMA MergeStep == PipeInv /\ MergeInv /\ [Next]_pipelineVars => MergeInv'
<1> SUFFICES ASSUME PipeInv, MergeInv, [Next]_pipelineVars PROVE MergeInv'
  OBVIOUS
<1>0. /\ PartsInv /\ (Converting => InConversion)
      /\ \A k \in DOMAIN parts : Labelled(Read(parts[k]))
      /\ Converting => Labelled(source) /\ \A k \in DOMAIN parts : parts[k].version = target
      /\ stage = "inputs" => target \in Versions /\ parts[1].version = target
      /\ BeforeMerge => written = {}
      /\ stage = "merging" => MergeOpened
      /\ stage = "merged" => Concatenated(final, parts)
  BY DEF PipeInv, MergeInv
<1>1. ASSUME UNCHANGED parts PROVE \A k \in DOMAIN parts' : Labelled(Read(parts'[k]))
  BY <1>0, <1>1
<1>2. CASE Plan
  <2>1. /\ Converting /\ stage' \in {"cut", "planned", "rejected"}
        /\ UNCHANGED <<source, target, parts, written>>
    BY <1>2 DEF Plan, PlanNext, PlanReject, PlanAccept, CutSized, CutBalanced, PlanWrite,
                Converting, pipeVars, mergeVars
  <2>2. Labelled(source)' /\ \A k \in DOMAIN parts' : parts'[k].version = target'
    BY <1>0, <2>1
  <2> QED BY <1>0, <1>1, <2>1, <2>2 DEF MergeInv, BeforeMerge, Converting
<1>3. ASSUME NEW k \in DOMAIN intervals, ConvertPart(k) PROVE MergeInv'
  <2> DEFINE i == intervals[k]
             part == Write(target, Subset(source, i))
  <2>1. /\ stage = "planned" /\ stage' = "planned"
        /\ UNCHANGED <<source, target, written>>
        /\ parts' = Assign(parts, k, part)
    BY <1>3 DEF ConvertPart, planVars, mergeVars
  <2>2. InConversion /\ Labelled(source) /\ target \in Versions
    BY <1>0, <2>1 DEF Converting, InConversion
  <2>3. IntervalOf(i, total) /\ total \in Nat
    <3>1. PlanTypeOK /\ Ordered
      BY <2>1, <2>2 DEF InConversion, PlanInv, Cut
    <3>2. i \in [start : Nat, stop : Nat] /\ total \in Nat /\ start \in Nat
      <4>1. intervals \in Seq([start : Nat, stop : Nat])
        BY <3>1 DEF PlanTypeOK
      <4>2. k \in 1 .. Len(intervals)
        BY <4>1, LenProperties
      <4>3. i \in [start : Nat, stop : Nat]
        BY <4>1, <4>2, ElementOfSeq
      <4> QED BY <3>1, <4>3 DEF PlanTypeOK
    <3>3. i.start < i.stop /\ i.stop <= Reached
      BY <3>1 DEF Ordered
    <3> HIDE DEF i
    <3>4. Reached <= total /\ Reached \in Nat
      BY <3>2 DEF Reached, Smaller
    <3>5. i.start \in Nat /\ i.stop \in Nat
      BY <3>2
    <3>6. i.stop <= total
      BY <3>2, <3>3, <3>4, <3>5
    <3> QED BY <3>2, <3>3, <3>5, <3>6 DEF IntervalOf
  <2> HIDE DEF i
  <2>4. Labelled(Read(part)) /\ part.version = target
    <3> DEFINE view == Subset(source, i)
               m == i.stop - i.start
    <3>1. Labelled(view)
      BY <2>2, <2>3, SubsetIsLabelled DEF InConversion
    <3>2. Presented(view, m) /\ m \in Nat
      BY <2>2, <2>3, SubsetIsPresented DEF InConversion, IntervalOf
    <3> HIDE DEF view, m
    <3>3. Read(Write(target, view)) = view
      BY <2>2, <3>2, WrittenIsRead DEF Versions
    <3>4. Write(target, view).version = target
      BY <2>2 DEF Write, WriteV21, WriteV30, Versions
    <3> QED BY <3>1, <3>3, <3>4 DEF view
  <2> HIDE DEF part
  <2>5. DOMAIN parts' = DOMAIN parts \cup {k}
        /\ \A l \in DOMAIN parts' : parts'[l] = IF l = k THEN part ELSE parts[l]
    BY <2>1 DEF Assign
  <2>6. \A l \in DOMAIN parts' : Labelled(Read(parts'[l])) /\ parts'[l].version = target'
    BY <1>0, <2>1, <2>4, <2>5 DEF Converting
  <2>7. Labelled(source)' /\ written' = {}
    BY <1>0, <2>1, <2>2 DEF BeforeMerge, Converting
  <2> QED BY <2>1, <2>6, <2>7 DEF MergeInv, BeforeMerge, Converting
<1>4. ASSUME NEW n \in Nat, DOMAIN parts = 1 .. n,
             \A p \in DOMAIN parts : parts[p].version = target, target \in Versions,
             written = {}, manifest' = BuildManifest,
             UNCHANGED <<target, parts, data, video, written>>, stage' = "merging"
      PROVE  MergeInv'
  <2>1. parts = [p \in DOMAIN parts |-> parts[p]]
        /\ \A p \in DOMAIN parts : Converted(parts[p]) /\ Labelled(Read(parts[p]))
    BY <1>0 DEF PartsInv
  <2>2. Alike(parts, target, Len(parts))
    BY <1>4, <2>1, ConvertedAreAlike
  <2>3. manifest' = ManifestOf(parts)
    BY <1>4, ManifestIs
  <2>4. MergeOpened'
    BY <1>4, <2>2, <2>3 DEF MergeOpened, Holds
  <2> QED BY <1>1, <1>4, <2>4 DEF MergeInv, BeforeMerge, Converting
<1>5. CASE CopyPart
  <2>1. stage' = "built" /\ parts' = parts
    BY <1>5 DEF CopyPart
  <2> QED BY <1>1, <2>1 DEF MergeInv, BeforeMerge, Converting
<1>6. CASE MergeOpen
  <2>1. /\ stage = "planned" /\ stage' = "merging" /\ manifest' = BuildManifest
        /\ PartsDone /\ UNCHANGED <<target, parts, data, video, written>>
    BY <1>6 DEF MergeOpen, AllConverted
  <2> DEFINE n == Len(intervals)
  <2>2. n \in Nat /\ DOMAIN parts = 1 .. n
    <3>1. intervals \in Seq([start : Nat, stop : Nat])
      BY <1>0, <2>1 DEF Converting, InConversion, PlanInv, PlanTypeOK
    <3> QED BY <2>1, <3>1, LenProperties DEF PartsDone
  <2> HIDE DEF n
  <2>3. target \in Versions /\ written = {} /\ \A p \in DOMAIN parts : parts[p].version = target
    BY <1>0, <2>1 DEF BeforeMerge, Converting, InConversion
  <2> QED BY <1>4, <2>1, <2>2, <2>3
<1>7. CASE MergeRefused \/ MachineRefuses
  <2>1. stage' = "rejected" /\ parts' = parts
    BY <1>7 DEF MergeRefused, MachineRefuses, pipeVars
  <2> QED BY <1>1, <2>1 DEF MergeInv, BeforeMerge, Converting
<1>8. CASE MergeDatasets
  <2>1. /\ stage = "inputs" /\ stage' = "merging" /\ manifest' = BuildManifest
        /\ UNCHANGED <<target, parts, data, video, written>>
        /\ \A p \in DOMAIN parts : parts[p].version = parts[1].version
    BY <1>8 DEF MergeDatasets, Mergeable
  <2>2. PICK n \in Nat : DOMAIN parts = 1 .. n
    BY <1>0, <2>1 DEF PartsInv
  <2>3. target \in Versions /\ written = {} /\ \A p \in DOMAIN parts : parts[p].version = target
    BY <1>0, <2>1 DEF BeforeMerge
  <2> QED BY <1>4, <2>1, <2>2, <2>3
<1>9. ASSUME NEW r \in 1 .. total, RewriteData(r) \/ CopyMedia(r) PROVE MergeInv'
  <2>1. stage = "merging" /\ stage' = stage /\ UNCHANGED parts
    BY <1>9 DEF RewriteData, CopyMedia, planVars
  <2>2. MergeOpened'
    BY <1>0, <1>9, <2>1, RewriteStep, CopyStep
  <2> QED BY <1>1, <2>1, <2>2 DEF MergeInv, BeforeMerge, Converting
<1>10. CASE MergeFails
  <2>1. stage' = "failed" /\ UNCHANGED parts
    BY <1>10 DEF MergeFails, pipeVars
  <2> QED BY <1>1, <2>1 DEF MergeInv, BeforeMerge, Converting
<1>11. CASE WriteMetadata
  <2>1. stage = "merging" /\ stage' \in {"merged", "built"} /\ UNCHANGED parts
    BY <1>11 DEF WriteMetadata
  <2> DEFINE n == Len(parts)
  <2>2. MergeOpened /\ Alike(parts, target, n) /\ manifest = ManifestOf(parts)
    BY <1>0, <2>1 DEF MergeOpened
  <2>3. final' = Merged(target, parts, manifest, data, video)
        /\ Moved(target, parts, manifest, data, video)
    BY <1>11, <2>2, WriteStep
  <2> HIDE DEF n
  <2>4. PICK off : Numbers(ManifestOf(parts), parts, off, n)
    BY <2>2, ManifestNumbers
  <2>5. Numbering(parts, target, n, manifest, off)
    BY <2>2, <2>4, Zenon DEF Numbering
  <2>6. Concatenated(final', parts')
    BY <2>1, <2>3, <2>5, MergedConcatenates
  <2> QED BY <1>1, <2>1, <2>6 DEF MergeInv, BeforeMerge, Converting
<1>12. CASE RestoreStats
  <2>1. stage' = "restored" /\ parts' = parts
    BY <1>12 DEF RestoreStats
  <2> QED BY <1>1, <2>1 DEF MergeInv, BeforeMerge, Converting
<1>13. CASE UNCHANGED pipelineVars
  <2>1. UNCHANGED <<stage, source, target, parts, manifest, data, video, written, final>>
    BY <1>13 DEF pipelineVars, pipeVars, planVars, mergeVars
  <2>2. MergeOpened => MergeOpened'
    BY <2>1 DEF MergeOpened, DataWanted, VideoWanted
  <2> QED BY <1>0, <1>1, <2>1, <2>2 DEF MergeInv, BeforeMerge, Converting
<1> QED
  BY <1>2, <1>3, <1>5, <1>6, <1>7, <1>8, <1>9, <1>10, <1>11, <1>12, <1>13, Zenon
  DEF Next, Ended

(* Whatever the inputs of a merge, whatever their numbering of tasks and   *)
(* whichever thread writes which file first, the output is their           *)
(* concatenation.                                                          *)
THEOREM MergeConcatenatesThm == Spec => []MergeConcatenates
<1>1. MergeInv => MergeConcatenates
  BY Zenon DEF MergeInv, MergeConcatenates, Concatenated, InputsOf, RowsWanted
<1> QED BY <1>1, PipeStart, PipeStep, MergeStart, MergeStep, PTL DEF Spec

-----------------------------------------------------------------------------
(***************************************************************************)
(* Gaps in task indices.                                                   *)
(***************************************************************************)

Outcome == {"merged", "built", "restored"}

(* Every file rewritten shows that the table it came from has no gaps; and *)
(* all of them are rewritten before a dataset comes out.                   *)
GapInv ==
  /\ stage = "merging" =>
       \A r \in DOMAIN manifest.data :
         <<"data", r>> \in written => Dense(parts[manifest.data[r][1]].tasks)
  /\ stage \in Outcome => GapsNeverMerge

(* A part that has an episode has a file among those to be rewritten.      *)
LEMMA EveryPartIsRewritten ==
  ASSUME MergeOpened, NEW p \in DOMAIN parts, Len(parts[p].meta) > 0
  PROVE  \E r \in DOMAIN manifest.data : manifest.data[r][1] = p
<1> DEFINE n == Len(parts)
<1>1. Alike(parts, target, n) /\ manifest = ManifestOf(parts)
  BY DEF MergeOpened
<1> HIDE DEF n
<1>2. PICK off : Numbers(ManifestOf(parts), parts, off, n)
  BY <1>1, ManifestNumbers
<1>3. Numbering(parts, target, n, manifest, off) /\ Numbers(manifest, parts, off, n)
  BY <1>1, <1>2, Zenon DEF Numbering
<1>4. DOMAIN parts = 1 .. n /\ Len(parts[p].meta) \in Nat
  BY <1>1 DEF Alike, Sound
<1>5. 1 \in 1 .. Len(parts[p].meta)
  BY <1>4
<1>6. off[p] + 1 \in 1 .. off[n + 1]
  BY <1>3, <1>4, <1>5 DEF Numbers
<1>7. /\ Lists(manifest.data, DataUsed(parts, manifest.episodes), off[n + 1])
      /\ DataUsed(parts, manifest.episodes)[off[p] + 1] = <<p, DataFile(parts[p], 1)>>
  <2>1. Uses(parts, manifest, off, n)
    BY <1>3, UsedFiles
  <2>2. \A q \in 1 .. n : \A i \in 1 .. Len(parts[q].meta) :
          DataUsed(parts, manifest.episodes)[off[q] + i] = <<q, DataFile(parts[q], i)>>
    BY <2>1, Zenon DEF Uses
  <2>3. p \in 1 .. n
    BY <1>4
  <2>4. DataUsed(parts, manifest.episodes)[off[p] + 1] = <<p, DataFile(parts[p], 1)>>
    BY <1>5, <2>2, <2>3
  <2>5. Lists(manifest.data, DataUsed(parts, manifest.episodes), off[n + 1])
    BY <2>1 DEF Uses
  <2> QED BY <2>4, <2>5
<1>8. PICK r \in DOMAIN manifest.data :
        manifest.data[r] = <<p, DataFile(parts[p], 1)>>
  BY <1>6, <1>7 DEF Lists
<1> QED BY <1>8

LEMMA GapStep == PipeInv /\ MergeInv /\ GapInv /\ [Next]_pipelineVars => GapInv'
<1> SUFFICES ASSUME PipeInv, MergeInv, GapInv, [Next]_pipelineVars PROVE GapInv'
  OBVIOUS
<1>1. /\ stage = "merging" =>
           \A r \in DOMAIN manifest.data :
             <<"data", r>> \in written => Dense(parts[manifest.data[r][1]].tasks)
      /\ stage \in Outcome => GapsNeverMerge
  BY DEF GapInv
<1>2. ASSUME stage' # "merging", stage' \notin Outcome PROVE GapInv'
  BY <1>2 DEF GapInv
<1>3. CASE Plan \/ (\E k \in DOMAIN intervals : ConvertPart(k)) \/ MergeRefused
           \/ MachineRefuses \/ MergeFails
  <2>1. stage' \in {"cut", "planned", "rejected", "failed"}
    BY <1>3 DEF Plan, PlanNext, PlanReject, PlanAccept, CutSized, CutBalanced, PlanWrite,
                ConvertPart, MergeRefused, MachineRefuses, MergeFails, planVars
  <2> QED BY <1>2, <2>1 DEF Outcome
<1>4. CASE CopyPart
  <2>1. /\ stage = "planned" /\ stage' = "built" /\ PartsDone /\ Len(intervals) = 1
        /\ parts' = parts
    BY <1>4 DEF CopyPart
  <2>2. DOMAIN parts = 1 .. 1
    <3>1. intervals \in Seq([start : Nat, stop : Nat])
      BY <2>1 DEF PipeInv, Converting, InConversion, PlanInv, PlanTypeOK
    <3> QED BY <2>1, <3>1, LenProperties DEF PartsDone
  <2>3. parts = [p \in 1 .. 1 |-> parts[p]]
    BY <2>2 DEF PipeInv, PartsInv
  <2>4. Len(parts) = 1
    BY <2>3, LenOfFunction
  <2> QED BY <2>1, <2>4 DEF GapInv, GapsNeverMerge
<1>5. CASE MergeOpen \/ MergeDatasets
  <2>1. stage' = "merging" /\ written' = {}
    BY <1>5 DEF MergeOpen, AllConverted, MergeDatasets, MergeInv, BeforeMerge, Converting
  <2> QED BY <2>1 DEF GapInv, Outcome
<1>6. ASSUME NEW r \in 1 .. total, RewriteData(r) PROVE GapInv'
  <2>1. /\ stage = "merging" /\ stage' = "merging" /\ UNCHANGED <<parts, manifest>>
        /\ written' = written \cup {<<"data", r>>}
        /\ ContiguousTasks(manifest.data[r][1])
    BY <1>6 DEF RewriteData, planVars
  <2>2. Dense(parts[manifest.data[r][1]].tasks)
    BY <2>1 DEF ContiguousTasks, Dense
  <2>3. ASSUME NEW q \in DOMAIN manifest.data, <<"data", q>> \in written'
        PROVE  Dense(parts[manifest.data[q][1]].tasks)
    <3>1. q = r \/ <<"data", q>> \in written
      BY <2>1, <2>3
    <3> QED BY <1>1, <2>1, <2>2, <3>1
  <2> QED BY <2>1, <2>3 DEF GapInv, Outcome
<1>7. ASSUME NEW r \in 1 .. total, CopyMedia(r) PROVE GapInv'
  <2>1. /\ stage = "merging" /\ stage' = "merging" /\ UNCHANGED <<parts, manifest>>
        /\ written' = written \cup {<<"video", r>>}
    BY <1>7 DEF CopyMedia, planVars
  <2>2. ASSUME NEW q \in DOMAIN manifest.data, <<"data", q>> \in written'
        PROVE  Dense(parts[manifest.data[q][1]].tasks)
    <3>1. <<"data", q>> \in written
      BY <2>1, <2>2
    <3> QED BY <1>1, <2>1, <3>1
  <2> QED BY <2>1, <2>2 DEF GapInv, Outcome
<1>8. CASE WriteMetadata
  <2>1. /\ stage = "merging" /\ stage' \in {"merged", "built"} /\ parts' = parts
        /\ DataDone
    BY <1>8 DEF WriteMetadata
  <2>2. MergeOpened
    BY <2>1 DEF MergeInv
  <2>3. ASSUME NEW p \in DOMAIN parts, Len(parts[p].meta) > 0
        PROVE  ~Sparse(parts[p].tasks)
    <3>1. PICK r \in DOMAIN manifest.data : manifest.data[r][1] = p
      BY <2>2, <2>3, EveryPartIsRewritten
    <3>2. Dense(parts[p].tasks)
      BY <1>1, <2>1, <3>1 DEF DataDone
    <3> QED BY <3>2 DEF Dense, Sparse
  <2>4. GapsNeverMerge'
    BY <2>1, <2>3 DEF GapsNeverMerge
  <2> QED BY <2>1, <2>4 DEF GapInv
<1>9. CASE RestoreStats
  <2>1. stage = "built" /\ stage' = "restored" /\ parts' = parts
    BY <1>9 DEF RestoreStats
  <2>2. GapsNeverMerge'
    BY <1>1, <2>1 DEF GapsNeverMerge, Outcome
  <2> QED BY <2>1, <2>2 DEF GapInv
<1>10. CASE UNCHANGED pipelineVars
  <2>1. UNCHANGED <<stage, parts, manifest, written>>
    BY <1>10 DEF pipelineVars, pipeVars, planVars, mergeVars
  <2> QED BY <1>1, <2>1 DEF GapInv, GapsNeverMerge
<1> QED
  BY <1>3, <1>4, <1>5, <1>6, <1>7, <1>8, <1>9, <1>10, Zenon DEF Next, Ended

(* Only sources without gaps in their task indices get through a merge,    *)
(* whatever the plan, the inputs and the order of the threads.             *)
THEOREM GapsNeverMergeThm == Spec => []GapsNeverMerge
<1>1. Init => GapInv
  <2>1. Init => stage \in {"request", "inputs"}
    BY DEF Init, ConvertInit, MergeInit, PlanInit
  <2> QED BY <2>1 DEF GapInv, Outcome
<1>2. GapInv => GapsNeverMerge
  BY DEF GapInv, GapsNeverMerge, Outcome
<1> QED
  BY <1>1, <1>2, PipeStart, PipeStep, MergeStart, MergeStep, GapStep, PTL DEF Spec

-----------------------------------------------------------------------------
(***************************************************************************)
(* The parts of one conversion: cut from one source and merged again, they *)
(* read like it.                                                           *)
(***************************************************************************)

(* A dataset that reads like a source once its statistics are restored.    *)
Restorable(ds, src, n) ==
  /\ ds = [version |-> ds.version, tasks |-> src.tasks, splits |-> Train,
           meta |-> ds.meta, data |-> ds.data, video |-> ds.video]
  /\ ds.version \in Versions
  /\ ds.meta = [i \in 1 .. n |-> ds.meta[i]]
  /\ \A i \in 1 .. n : /\ MetaRow(ds.meta[i], ds.version)
                       /\ RowsOf(ds, i) = src.episodes[i].rows
                       /\ PacketsOf(ds, i) = src.episodes[i].packets

WithStats(ds, src) ==
  [ds EXCEPT !.meta = [m \in DOMAIN @ |-> [@[m] EXCEPT !.stats = src.episodes[m].stats]]]

SameButStats(new, old, stats, version) ==
  /\ new.stats = stats /\ new.length = old.length
  /\ version = "v3.0" => /\ new.data = old.data /\ new.from = old.from
                         /\ new.video = old.video
                         /\ new.start = old.start /\ new.end = old.end

(* Replacing statistics leaves the other metadata of an episode alone.     *)
LEMMA StatsReplaced ==
  ASSUME NEW old, NEW version, version \in Versions, MetaRow(old, version), NEW stats
  PROVE  SameButStats([old EXCEPT !.stats = stats], old, stats, version)
BY DEF MetaRow, Versions, SameButStats

(* Restoring the statistics of such a dataset makes it read like the       *)
(* source, but for the splits.                                             *)
LEMMA RestoredIs ==
  ASSUME NEW n \in Nat, NEW src, Presented(src, n), NEW ds, Restorable(ds, src, n)
  PROVE  Read(WithStats(ds, src)) = [src EXCEPT !.splits = Train]
<1> DEFINE new == WithStats(ds, src)
           meta == [m \in 1 .. n |-> [ds.meta[m] EXCEPT !.stats = src.episodes[m].stats]]
<1>1. /\ ds = [version |-> ds.version, tasks |-> src.tasks, splits |-> Train,
               meta |-> ds.meta, data |-> ds.data, video |-> ds.video]
      /\ ds.version \in Versions /\ DOMAIN ds.meta = 1 .. n
      /\ \A i \in 1 .. n : /\ MetaRow(ds.meta[i], ds.version)
                           /\ RowsOf(ds, i) = src.episodes[i].rows
                           /\ PacketsOf(ds, i) = src.episodes[i].packets
  BY DEF Restorable
<1>2. new = [ds EXCEPT !.meta = meta]
  BY <1>1, Zenon DEF WithStats
<1>3. DOMAIN meta = 1 .. n
      /\ \A i \in 1 .. n : SameButStats(meta[i], ds.meta[i], src.episodes[i].stats, ds.version)
  BY <1>1, StatsReplaced
<1> HIDE DEF meta, new
<1>4. /\ new.version = ds.version /\ new.tasks = src.tasks /\ new.splits = Train
      /\ new.meta = meta /\ new.data = ds.data /\ new.video = ds.video
  BY <1>1, <1>2
<1>5. ASSUME NEW i \in 1 .. n
      PROVE  /\ RowsOf(new, i) = src.episodes[i].rows
             /\ PacketsOf(new, i) = src.episodes[i].packets
             /\ new.meta[i].stats = src.episodes[i].stats
  <2>1. SameButStats(meta[i], ds.meta[i], src.episodes[i].stats, ds.version)
    BY <1>3
  <2>2. CASE ds.version = "v2.1"
    <3>1. RowsOf(new, i) = RowsOf(ds, i) /\ PacketsOf(new, i) = PacketsOf(ds, i)
      BY <1>4, <2>2 DEF RowsOf, PacketsOf, DataFile, VideoFile
    <3> QED BY <1>1, <1>4, <2>1, <3>1 DEF SameButStats
  <2>3. CASE ds.version = "v3.0"
    <3>1. \A j \in 1 .. n : meta[j].data = ds.meta[j].data /\ meta[j].from = ds.meta[j].from
      BY <1>3, <2>3 DEF SameButStats
    <3>2. Base(meta, i) = Base(ds.meta, i)
      <4>1. PICK a \in 1 .. i : LeadsFile(ds.meta, i, a)
        BY <1>1, BaseIs
      <4>2. a \in 1 .. n /\ \A k \in 1 .. a - 1 : k \in 1 .. n
        OBVIOUS
      <4>3. LeadsFile(meta, i, a)
        BY <3>1, <4>1, <4>2 DEF LeadsFile
      <4>4. Base(ds.meta, i) = ds.meta[a].from
        BY <1>1, <4>1, <4>2, BaseIs
      <4>5. Base(meta, i) = meta[a].from
        BY <1>3, <4>2, <4>3, BaseIs
      <4> QED BY <3>1, <4>2, <4>4, <4>5
    <3>3. /\ meta[i].data = ds.meta[i].data /\ meta[i].from = ds.meta[i].from
          /\ meta[i].video = ds.meta[i].video /\ meta[i].length = ds.meta[i].length
          /\ meta[i].start = ds.meta[i].start /\ meta[i].end = ds.meta[i].end
          /\ meta[i].stats = src.episodes[i].stats
      BY <2>1, <2>3 DEF SameButStats
    <3>4. DataStart(new, i) = DataStart(ds, i)
      BY <1>4, <2>3, <3>2, <3>3 DEF DataStart
    <3>5. RowsOf(new, i) = RowsOf(ds, i)
      BY <1>4, <2>3, <3>3, <3>4, Zenon DEF RowsOf, DataFile
    <3>6. PacketsOf(new, i) = PacketsOf(ds, i)
      BY <1>4, <2>3, <3>3, Zenon DEF PacketsOf, VideoFile
    <3> QED BY <1>1, <1>4, <3>3, <3>5, <3>6
  <2> QED BY <1>1, <2>2, <2>3 DEF Versions
<1>6. /\ src = [tasks |-> src.tasks, splits |-> src.splits, episodes |-> src.episodes]
      /\ src.episodes = [i \in 1 .. n |-> src.episodes[i]]
      /\ \A i \in 1 .. n : \E l \in Nat \ {0} : Framed(src.episodes[i], i, l)
  BY DEF Presented
<1>7. ASSUME NEW i \in 1 .. n
      PROVE  [rows |-> RowsOf(new, i), packets |-> PacketsOf(new, i),
              stats |-> new.meta[i].stats] = src.episodes[i]
  <2>1. src.episodes[i] = [rows |-> src.episodes[i].rows, packets |-> src.episodes[i].packets,
                           stats |-> src.episodes[i].stats]
    BY <1>6 DEF Framed
  <2> QED BY <1>5, <2>1, Zenon
<1> DEFINE episodes == [i \in 1 .. n |->
             [rows |-> RowsOf(new, i), packets |-> PacketsOf(new, i),
              stats |-> new.meta[i].stats]]
<1>8. episodes = src.episodes
  BY <1>6, <1>7, Zenon
<1>9. Read(new) = [tasks |-> src.tasks, splits |-> Train, episodes |-> episodes]
  BY <1>3, <1>4, Zenon DEF Read
<1> HIDE DEF episodes
<1>10. Read(new) = [src EXCEPT !.splits = Train]
  <2>1. src = [tasks |-> src.tasks, splits |-> src.splits, episodes |-> src.episodes]
    BY <1>6
  <2>2. Read(new) = [tasks |-> src.tasks, splits |-> Train, episodes |-> src.episodes]
    BY <1>8, <1>9
  <2> QED BY <2>1, <2>2
<1> QED BY <1>10 DEF new

(* The rows of a source are numbered from its first one.                   *)
Indexed(view, n) ==
  \A i \in 1 .. n : \A f \in DOMAIN view.episodes[i].rows :
    view.episodes[i].rows[f].index = Offset(Lens(view), i) + f - 1

(* A recording is numbered so.                                             *)
LEMMA RecordedIsIndexed ==
  ASSUME NEW n \in Nat, NEW lens \in [1 .. n -> Nat \ {0}], NEW table, NEW splits
  PROVE  Indexed(Recorded(lens, table, splits), n)
<1> DEFINE view == Recorded(lens, table, splits)
           Label(i) == Labels(table)[1 + (i % Cardinality(DOMAIN table))]
           Row(i, g) == [episode |-> i - 1, index |-> Offset(lens, i) + g - 1,
                         frame |-> g - 1, task |-> Label(i), payload |-> <<i, g>>]
<1>1. view.episodes = [i \in 1 .. n |-> RecordedEpisode(i, lens, Label(i))]
  BY DEF Recorded
<1> HIDE DEF view, Label
<1>2. ASSUME NEW i \in 1 .. n
      PROVE  view.episodes[i].rows = [g \in 1 .. lens[i] |-> Row(i, g)]
  <2>1. view.episodes[i] = RecordedEpisode(i, lens, Label(i))
    BY <1>1
  <2> QED BY <2>1 DEF RecordedEpisode
<1>3. Lens(view) = lens
  <2>1. ASSUME NEW i \in 1 .. n PROVE Len(view.episodes[i].rows) = lens[i]
    <3> DEFINE rows == view.episodes[i].rows
    <3>1. rows = [g \in 1 .. lens[i] |-> Row(i, g)]
      BY <1>2
    <3> HIDE DEF rows
    <3>2. rows = [g \in 1 .. lens[i] |-> rows[g]] /\ lens[i] \in Nat
      BY <3>1
    <3>3. Len(rows) = lens[i]
      BY <3>2, LenOfFunction
    <3> QED BY <3>3 DEF rows
  <2>2. DOMAIN view.episodes = 1 .. n
    BY <1>1
  <2>3. Lens(view) = [i \in 1 .. n |-> Len(view.episodes[i].rows)]
    BY <2>2 DEF Lens
  <2>4. lens = [i \in 1 .. n |-> lens[i]]
    OBVIOUS
  <2> QED BY <2>1, <2>3, <2>4
<1>4. ASSUME NEW i \in 1 .. n, NEW f \in DOMAIN view.episodes[i].rows
      PROVE  view.episodes[i].rows[f].index = Offset(lens, i) + f - 1
  <2>1. Row(i, f).index = Offset(lens, i) + f - 1
    OBVIOUS
  <2> HIDE DEF Row
  <2>2. view.episodes[i].rows[f] = Row(i, f)
    BY <1>2
  <2> QED BY <2>1, <2>2
<1> QED BY <1>3, <1>4, Zenon DEF Indexed, view

(* A part holds the episodes of its interval.                              *)
Resembles(new, old) ==
  new.frame = old.frame /\ new.task = old.task /\ new.payload = old.payload

PartEpisode(part, i, e) ==
  /\ PacketsOf(part, i) = e.packets /\ part.meta[i].length = Len(e.rows)
  /\ DOMAIN RowsOf(part, i) = DOMAIN e.rows
  /\ \A f \in DOMAIN e.rows : Resembles(RowsOf(part, i)[f], e.rows[f])

PartIs(part, src, from, m) ==
  /\ part.tasks = src.tasks /\ part.splits = Train /\ Len(part.meta) = m
  /\ \A i \in 1 .. m : PartEpisode(part, i, src.episodes[from + i])

(* A part that reads as a subset of the source resembles it, episode by    *)
(* episode.                                                                *)
LEMMA PartOfSource ==
  ASSUME NEW n \in Nat, NEW src, Presented(src, n), NEW iv, IntervalOf(iv, n),
         NEW part, Sound(part, Len(part.meta)), Read(part) = Subset(src, iv)
  PROVE  PartIs(part, src, iv.start, iv.stop - iv.start)
<1> DEFINE view == Subset(src, iv)
           from == iv.start
           m == iv.stop - iv.start
           l == Len(part.meta)
<1>1. IsSubset(view, src, iv, m)
  BY SubsetIs
<1>2. Read(part) = view
  OBVIOUS
<1> HIDE DEF view
<1>3. /\ view = [tasks |-> src.tasks, splits |-> Train, episodes |-> view.episodes]
      /\ DOMAIN view.episodes = 1 .. m
      /\ view.tasks = src.tasks /\ view.splits = Train
  <2>1. view = [tasks |-> src.tasks, splits |-> Train, episodes |-> view.episodes]
        /\ DOMAIN view.episodes = 1 .. m
    BY <1>1 DEF IsSubset
  <2> HIDE DEF m
  <2> QED BY <2>1
<1>4. PICK lens : \A k \in 1 .. m :
                    Renumbers(view.episodes[k], src.episodes[from + k], k, lens)
  BY <1>1, Zenon DEF IsSubset
<1>5. \A k \in 1 .. m : from + k \in 1 .. n
  BY DEF IntervalOf
<1>6. m \in Nat
  BY DEF IntervalOf
<1> HIDE DEF m, from
<1>7. part.tasks = src.tasks /\ part.splits = Train /\ DOMAIN part.meta = 1 .. m
      /\ \A i \in 1 .. m : /\ RowsOf(part, i) = view.episodes[i].rows
                           /\ PacketsOf(part, i) = view.episodes[i].packets
  <2>1. /\ view.tasks = part.tasks /\ view.splits = part.splits
        /\ DOMAIN view.episodes = DOMAIN part.meta
        /\ \A i \in DOMAIN part.meta : /\ RowsOf(part, i) = view.episodes[i].rows
                                       /\ PacketsOf(part, i) = view.episodes[i].packets
    BY <1>2 DEF Read
  <2>2. DOMAIN part.meta = 1 .. m
    BY <1>3, <2>1
  <2> QED BY <1>3, <2>1, <2>2, Zenon
<1>8. l = m /\ \A i \in 1 .. m : SoundEpisode(part, i)
  <2>1. l \in Nat /\ DOMAIN part.meta = 1 .. l /\ \A i \in 1 .. l : SoundEpisode(part, i)
    BY DEF Sound
  <2> HIDE DEF l
  <2>2. l = m
    <3>1. \A a \in 1 .. l : a \in 1 .. m
      BY <1>7, <2>1
    <3>2. \A a \in 1 .. m : a \in 1 .. l
      BY <1>7, <2>1
    <3>3. l > 0 => l \in 1 .. m
      BY <2>1, <3>1
    <3>4. m > 0 => m \in 1 .. l
      BY <1>6, <3>2
    <3> QED BY <1>6, <2>1, <3>3, <3>4
  <2> QED BY <2>1, <2>2
<1>9. ASSUME NEW i \in 1 .. m PROVE PartEpisode(part, i, src.episodes[from + i])
  <2> DEFINE e == src.episodes[from + i]
             rows == RowsOf(part, i)
             w == part.meta[i].length
  <2>1. PICK c \in Nat \ {0} : Framed(e, from + i, c)
    BY <1>5 DEF Presented
  <2>2. e.rows = [f \in 1 .. c |-> e.rows[f]] /\ \A f \in 1 .. c : IsRow(e.rows[f])
    BY <2>1 DEF Framed
  <2>3. Renumbers(view.episodes[i], e, i, lens)
    BY <1>4
  <2>4. w \in Nat \ {0} /\ DOMAIN rows = 1 .. w
    BY <1>8 DEF SoundEpisode
  <2>5. rows = view.episodes[i].rows /\ PacketsOf(part, i) = view.episodes[i].packets
    BY <1>7
  <2> HIDE DEF rows, w, e
  <2>6. DOMAIN rows = DOMAIN e.rows /\ PacketsOf(part, i) = e.packets
    BY <2>3, <2>5 DEF Renumbers
  <2>7. Len(e.rows) = c /\ DOMAIN e.rows = 1 .. c
    BY <2>2, LenOfFunction
  <2>8. w = c
    <3>1. w \in 1 .. c /\ c \in 1 .. w
      BY <2>4, <2>6, <2>7
    <3> QED BY <2>4, <3>1
  <2>9. ASSUME NEW f \in DOMAIN e.rows PROVE Resembles(rows[f], e.rows[f])
    <3> DEFINE row == e.rows[f]
               new == rows[f]
    <3>1. new = [row EXCEPT !.episode = i - 1, !.index = Offset(lens, i) + f - 1]
      BY <2>3, <2>5 DEF Renumbers
    <3>2. IsRow(row)
      BY <2>2, <2>7
    <3> HIDE DEF row, new
    <3>3. Resembles(new, row)
      BY <3>1, <3>2 DEF Resembles, IsRow
    <3> QED BY <3>3 DEF row, new
  <2>10. w = Len(e.rows)
    BY <2>7, <2>8
  <2> QED BY <2>6, <2>9, <2>10 DEF PartEpisode, rows, w, e
<1> QED BY <1>7, <1>8, <1>9 DEF PartIs, m, from

(* Intervals that lie end to end.                                          *)
Tiles(ivs, k, n) ==
  /\ k \in Nat \ {0} /\ n \in Nat
  /\ \A p \in 1 .. k : IntervalOf(ivs[p], n)
  /\ ivs[1].start = 0 /\ ivs[k].stop = n
  /\ \A p \in 1 .. k : p < k => ivs[p].stop = ivs[p + 1].start

(* The parts of a source, in the order of the plan.                        *)
CutFrom(ps, src, ivs, k) ==
  \A p \in 1 .. k : PartIs(ps[p], src, ivs[p].start, ivs[p].stop - ivs[p].start)

(* Then each part begins where the merge puts it: no episode is lost or    *)
(* repeated between two parts.                                             *)
LEMMA PartsBegin ==
  ASSUME NEW man, NEW ps, NEW off, NEW k, NEW n, NEW ivs, NEW src,
         Numbers(man, ps, off, k), Tiles(ivs, k, n), CutFrom(ps, src, ivs, k)
  PROVE  /\ off[k + 1] = n /\ \A p \in 1 .. k : off[p] = ivs[p].start
<1> DEFINE Good == {x \in Nat : x \in 1 .. k - 1 => off[x + 1] = ivs[x + 1].start}
<1>1. /\ k \in Nat \ {0} /\ n \in Nat
      /\ \A p \in 1 .. k : ivs[p].start \in Nat /\ ivs[p].stop \in Nat
      /\ ivs[1].start = 0 /\ ivs[k].stop = n
      /\ \A p \in 1 .. k : p < k => ivs[p].stop = ivs[p + 1].start
  BY DEF Tiles, IntervalOf
<1>2. off[1] = 0 /\ \A p \in 1 .. k : off[p + 1] = off[p] + (ivs[p].stop - ivs[p].start)
  BY DEF Numbers, CutFrom, PartIs
<1>3. ASSUME NEW p \in 1 .. k, off[p] = ivs[p].start PROVE off[p + 1] = ivs[p].stop
  <2> DEFINE a == ivs[p].start
             b == ivs[p].stop
  <2>1. a \in Nat /\ b \in Nat /\ off[p + 1] = off[p] + (b - a) /\ off[p] = a
    BY <1>1, <1>2, <1>3
  <2> HIDE DEF a, b
  <2>2. off[p + 1] = b
    BY <2>1
  <2> QED BY <2>2 DEF b
<1>4. Good = Nat
  <2>1. 0 \in Good
    OBVIOUS
  <2>2. ASSUME NEW x \in Good PROVE x + 1 \in Good
    <3> SUFFICES ASSUME x + 1 \in 1 .. k - 1 PROVE off[x + 1 + 1] = ivs[x + 1 + 1].start
      OBVIOUS
    <3>1. x \in Nat /\ x + 1 \in 1 .. k /\ x + 1 < k /\ 1 \in 1 .. k
      BY <1>1
    <3>2. off[x + 1] = ivs[x + 1].start
      <4>1. CASE x = 0
        <5>1. x + 1 = 1
          BY <4>1
        <5> QED BY <1>1, <1>2, <5>1
      <4>2. CASE x # 0
        <5>1. x \in 1 .. k - 1
          BY <1>1, <3>1, <4>2
        <5> QED BY <5>1
      <4> QED BY <4>1, <4>2
    <3>3. off[x + 1 + 1] = ivs[x + 1].stop
      BY <1>3, <3>1, <3>2
    <3>4. ivs[x + 1].stop = ivs[x + 1 + 1].start
      BY <1>1, <3>1
    <3> QED BY <3>3, <3>4
  <2>3. Good \in SUBSET Nat
    OBVIOUS
  <2> HIDE DEF Good
  <2> QED BY <2>1, <2>2, <2>3, SetInduction
<1>5. ASSUME NEW p \in 1 .. k PROVE off[p] = ivs[p].start
  <2>1. CASE p = 1
    BY <1>1, <1>2, <2>1
  <2>2. CASE p # 1
    <3>1. p - 1 \in Nat /\ p - 1 \in 1 .. k - 1 /\ p - 1 + 1 = p
      BY <1>1, <2>2
    <3>2. p - 1 \in Good
      BY <1>4, <3>1
    <3>3. off[p - 1 + 1] = ivs[p - 1 + 1].start
      BY <3>1, <3>2
    <3> QED BY <3>1, <3>3
  <2> QED BY <2>1, <2>2
<1>6. k \in 1 .. k
  BY <1>1
<1> QED BY <1>1, <1>3, <1>5, <1>6

(* Rows with the same fields are the same.                                 *)
LEMMA RowsEqual ==
  ASSUME NEW a, NEW b, IsRow(a), IsRow(b), a.episode = b.episode, a.index = b.index,
         a.frame = b.frame, a.task = b.task, a.payload = b.payload
  PROVE  a = b
BY DEF IsRow

(* A row that is renumbered as in the source is the source's row.          *)
SourceRow(old, m, lens, f) ==
  IsRow(old) /\ old.episode = m - 1 /\ old.index = Offset(lens, m) + f - 1

(* A rewritten row of a part is the row of the source it was cut from.     *)
LEMMA RowRestored ==
  ASSUME NEW new, NEW row, NEW old, NEW m \in Nat, NEW lens, NEW f \in Nat, NEW tasks,
         NewIs(new, row, m, lens, f, tasks, tasks), IsInjective(tasks),
         row.task \in DOMAIN tasks, Resembles(row, old), SourceRow(old, m, lens, f),
         Offset(lens, m) \in Nat
  PROVE  new = old
<1>1. /\ IsRow(new) /\ new.episode = m - 1
      /\ new.index = Offset(lens, m) + (f - 1)
      /\ new.frame = row.frame /\ new.payload = row.payload
      /\ new.task \in DOMAIN tasks /\ tasks[new.task] = tasks[row.task]
  BY Zenon DEF NewIs
<1>2. new.task = row.task
  BY <1>1 DEF IsInjective
<1>3. IsRow(old) /\ old.episode = m - 1 /\ old.index = Offset(lens, m) + f - 1
  BY Zenon DEF SourceRow
<1>4. old.frame = row.frame /\ old.task = row.task /\ old.payload = row.payload
  BY DEF Resembles
<1>5. new.index = old.index
  BY <1>1, <1>3
<1> QED BY <1>1, <1>2, <1>3, <1>4, <1>5, RowsEqual

(* The parts of a source as a merge finds them.                            *)
PartsOf(ps, src, ivs, k, n) ==
  /\ Presented(src, n) /\ Indexed(src, n)
  /\ Tiles(ivs, k, n) /\ CutFrom(ps, src, ivs, k)

(* The episode of a part that the merge puts at a place is the one the     *)
(* source has there.                                                       *)
LEMMA OwnEpisode ==
  ASSUME NEW man, NEW ps, NEW off, NEW k, NEW n, NEW ivs, NEW src,
         Numbers(man, ps, off, k), PartsOf(ps, src, ivs, k, n),
         NEW p \in 1 .. k, NEW i \in 1 .. Len(ps[p].meta)
  PROVE  PartEpisode(ps[p], i, src.episodes[off[p] + i]) /\ off[p] + i \in 1 .. n
<1>1. off[k + 1] = n /\ off[p] = ivs[p].start
  BY PartsBegin DEF PartsOf
<1>2. PartIs(ps[p], src, ivs[p].start, ivs[p].stop - ivs[p].start)
  BY DEF PartsOf, CutFrom
<1>3. i \in 1 .. ivs[p].stop - ivs[p].start
  BY <1>2, Zenon DEF PartIs
<1>4. PartEpisode(ps[p], i, src.episodes[ivs[p].start + i])
  BY <1>2, <1>3, Zenon DEF PartIs
<1>5. off[p] + i \in 1 .. off[k + 1]
  BY DEF Numbers
<1> QED BY <1>1, <1>4, <1>5

(* The lengths of a manifest are those of the source.                      *)
LEMMA LensAre ==
  ASSUME NEW man, NEW ps, NEW off, NEW k, NEW n, NEW ivs, NEW src,
         Numbers(man, ps, off, k), PartsOf(ps, src, ivs, k, n)
  PROVE  man.lens = Lens(src)
<1>1. off[k + 1] = n
  BY PartsBegin DEF PartsOf
<1>2. DOMAIN src.episodes = 1 .. n
  BY DEF PartsOf, Presented
<1>3. Lens(src) = [m \in 1 .. n |-> Len(src.episodes[m].rows)]
  BY <1>2 DEF Lens
<1>4. man.lens = [m \in 1 .. n |-> man.lens[m]]
  BY <1>1 DEF Numbers
<1>5. ASSUME NEW m \in 1 .. n PROVE man.lens[m] = Len(src.episodes[m].rows)
  <2>1. PICK p \in 1 .. k : \E i \in 1 .. Len(ps[p].meta) : m = off[p] + i
    BY <1>1 DEF Numbers
  <2>2. PICK i \in 1 .. Len(ps[p].meta) : m = off[p] + i
    BY <2>1
  <2>3. man.lens[off[p] + i] = ps[p].meta[i].length
    BY DEF Numbers
  <2>4. PartEpisode(ps[p], i, src.episodes[off[p] + i])
    BY OwnEpisode
  <2>5. ps[p].meta[i].length = Len(src.episodes[off[p] + i].rows)
    BY <2>4 DEF PartEpisode
  <2> QED BY <2>2, <2>3, <2>5
<1> QED BY <1>3, <1>4, <1>5

(* What a merge writes of parts of one source differs from the source in   *)
(* its statistics and splits at most.                                      *)
LEMMA MergedIsRestorable ==
  ASSUME NEW ps, NEW version, NEW k, NEW man, NEW off,
         Numbering(ps, version, k, man, off), NEW dat, NEW vid,
         Moved(version, ps, man, dat, vid),
         NEW n, NEW ivs, NEW src, PartsOf(ps, src, ivs, k, n),
         Shared(ps, src.tasks, k)
  PROVE  Restorable(Merged(version, ps, man, dat, vid), src, n)
<1> DEFINE out == Merged(version, ps, man, dat, vid)
<1>1. /\ Alike(ps, version, k) /\ man = ManifestOf(ps) /\ Numbers(man, ps, off, k)
  BY DEF Numbering
<1>2. TasksOf(man) = src.tasks
  BY <1>1, SharedTable
<1>3. off[k + 1] = n /\ n \in Nat /\ k \in Nat \ {0} /\ version \in Versions
  <2>1. off[k + 1] = n
    BY <1>1, PartsBegin DEF PartsOf
  <2> QED BY <1>1, <2>1 DEF PartsOf, Tiles, Alike
<1>4. man.lens = Lens(src)
  BY <1>1, LensAre
<1>5. ps[1].splits = Train
  <2>1. 1 \in 1 .. k
    BY <1>3
  <2> QED BY <2>1 DEF PartsOf, CutFrom, PartIs
<1>6. /\ out = [version |-> out.version, tasks |-> src.tasks, splits |-> Train,
                meta |-> out.meta, data |-> out.data, video |-> out.video]
      /\ out.version = version
      /\ out.meta = [m \in DOMAIN man.episodes |-> NewMeta(version, ps, man, m)]
  BY <1>2, <1>5 DEF Merged
<1>7. DOMAIN man.episodes = 1 .. n
  BY <1>1, <1>3 DEF Numbers
<1>8. out.meta = [m \in 1 .. n |-> out.meta[m]]
  BY <1>6, <1>7
<1>9. /\ DOMAIN src.episodes = 1 .. n
      /\ \A m \in 1 .. n : \E l \in Nat \ {0} : Framed(src.episodes[m], m, l)
  BY DEF PartsOf, Presented
<1>10. \A m \in 1 .. n : Offset(Lens(src), m) \in Nat
  <2>1. ASSUME NEW x \in 1 .. n PROVE Len(src.episodes[x].rows) \in Nat
    <3>1. PICK y \in Nat \ {0} : Framed(src.episodes[x], x, y)
      BY <1>9
    <3>2. src.episodes[x].rows = [f \in 1 .. y |-> src.episodes[x].rows[f]]
      BY <3>1 DEF Framed
    <3>3. Len(src.episodes[x].rows) = y
      BY <3>2, LenOfFunction
    <3> QED BY <3>3
  <2>2. Lens(src) \in [1 .. n -> Nat]
    BY <1>9, <2>1 DEF Lens
  <2>3. \A m \in 1 .. n : m \in 1 .. n + 1
    BY <1>3
  <2> QED BY <1>3, <2>2, <2>3, OffsetProperties
<1>11. ASSUME NEW m \in 1 .. n
       PROVE  /\ MetaRow(out.meta[m], version)
              /\ RowsOf(out, m) = src.episodes[m].rows
              /\ PacketsOf(out, m) = src.episodes[m].packets
  <2>1. PICK p \in 1 .. k : \E i \in 1 .. Len(ps[p].meta) : m = off[p] + i
    BY <1>1, <1>3 DEF Numbers
  <2>2. PICK i \in 1 .. Len(ps[p].meta) : m = off[p] + i
    BY <2>1
  <2> DEFINE e == src.episodes[m]
             l == ps[p].meta[i].length
             New(f) == NewRow(ps, man, p, RowsOf(ps[p], i)[f])
  <2>3. PartEpisode(ps[p], i, e)
    BY <1>1, <2>2, OwnEpisode
  <2>4. MetaRow(out.meta[m], version)
    BY <2>2, MetaMoved
  <2>5. PacketsOf(out, m) = PacketsOf(ps[p], i)
    BY <2>2, PacketsMoved
  <2>6. RowsOf(out, m) = [f \in 1 .. l |-> New(f)]
    BY <2>2, RowsMoved
  <2>7. PICK c \in Nat \ {0} : Framed(e, m, c)
    BY <1>9
  <2>8. \A f \in DOMAIN e.rows : e.rows[f].index = Offset(Lens(src), m) + f - 1
    BY Zenon DEF PartsOf, Indexed
  <2>9. \A f \in 1 .. l :
          /\ RowsOf(ps[p], i)[f].task \in DOMAIN ps[p].tasks
          /\ NewIs(New(f), RowsOf(ps[p], i)[f], off[p] + i, man.lens, f, TasksOf(man),
                   ps[p].tasks)
    BY RowRewritten
  <2>10. ps[p].tasks = src.tasks /\ IsInjective(src.tasks)
    BY DEF Shared
  <2>11. \A f \in 1 .. l :
          /\ RowsOf(ps[p], i)[f].task \in DOMAIN src.tasks
          /\ NewIs(New(f), RowsOf(ps[p], i)[f], m, Lens(src), f, src.tasks, src.tasks)
    BY <1>2, <1>4, <2>2, <2>9, <2>10
  <2>12. Offset(Lens(src), m) \in Nat
    BY <1>10
  <2> HIDE DEF e
  <2>13. e.rows = [f \in 1 .. c |-> e.rows[f]]
         /\ \A f \in 1 .. c : IsRow(e.rows[f]) /\ e.rows[f].episode = m - 1
    BY <2>7 DEF Framed
  <2>14. Len(e.rows) = c /\ DOMAIN e.rows = 1 .. c
    BY <2>13, LenOfFunction
  <2>15. /\ PacketsOf(ps[p], i) = e.packets /\ l = Len(e.rows)
         /\ \A f \in DOMAIN e.rows : Resembles(RowsOf(ps[p], i)[f], e.rows[f])
    BY <2>3, Zenon DEF PartEpisode
  <2> HIDE DEF New, l
  <2>16. ASSUME NEW f \in 1 .. l PROVE New(f) = e.rows[f]
    <3>1. f \in 1 .. c /\ f \in DOMAIN e.rows /\ f \in Nat /\ m \in Nat
      BY <2>14, <2>15
    <3>2. SourceRow(e.rows[f], m, Lens(src), f)
      BY <2>8, <2>13, <3>1, Zenon DEF SourceRow
    <3>3. /\ RowsOf(ps[p], i)[f].task \in DOMAIN src.tasks
          /\ NewIs(New(f), RowsOf(ps[p], i)[f], m, Lens(src), f, src.tasks, src.tasks)
          /\ Resembles(RowsOf(ps[p], i)[f], e.rows[f])
      BY <2>11, <2>15, <3>1
    <3> QED BY <2>10, <2>12, <3>1, <3>2, <3>3, RowRestored
  <2>17. RowsOf(out, m) = e.rows
    BY <2>6, <2>13, <2>14, <2>15, <2>16
  <2> QED BY <2>4, <2>5, <2>15, <2>17 DEF e
<1> HIDE DEF out
<1>12. Restorable(out, src, n)
  BY <1>3, <1>6, <1>8, <1>11 DEF Restorable
<1> QED BY <1>12 DEF out

(* A part that holds the whole source.                                     *)
LEMMA WholePartIsRestorable ==
  ASSUME NEW n \in Nat, NEW src, Presented(src, n), Indexed(src, n),
         NEW iv, IntervalOf(iv, n), iv.start = 0, iv.stop = n,
         NEW part, Converted(part), Labelled(Read(part)), Read(part) = Subset(src, iv)
  PROVE  Restorable(part, src, n)
<1> DEFINE view == Subset(src, iv)
           lens == Lens(src)
<1>1. /\ view = [tasks |-> src.tasks, splits |-> Train, episodes |-> view.episodes]
      /\ DOMAIN view.episodes = 1 .. n
      /\ \A m \in 1 .. n : Renumbers(view.episodes[m], src.episodes[m], m, lens)
  <2>1. IsSubset(view, src, iv, n)
    <3>1. IsSubset(view, src, iv, iv.stop - iv.start)
      BY SubsetIs
    <3>2. iv.stop - iv.start = n
      OBVIOUS
    <3> QED BY <3>1, <3>2
  <2> HIDE DEF view
  <2>2. DOMAIN src.episodes = 1 .. n
    BY DEF Presented
  <2>3. \A m \in 1 .. n : iv.start + m = m
    OBVIOUS
  <2>4. [m \in 1 .. n |-> Len(src.episodes[iv.start + m].rows)] = lens
    BY <2>2, <2>3 DEF Lens
  <2>5. \A m \in 1 .. n : Renumbers(view.episodes[m], src.episodes[iv.start + m], m, lens)
    BY <2>1, <2>4, Zenon DEF IsSubset
  <2>6. \A m \in 1 .. n : Renumbers(view.episodes[m], src.episodes[m], m, lens)
    BY <2>3, <2>5
  <2> QED BY <2>1, <2>6 DEF IsSubset
<1>2. Read(part) = view
  OBVIOUS
<1> HIDE DEF view
<1>3. view.tasks = src.tasks /\ view.splits = Train
  BY <1>1
<1>4. /\ part.tasks = src.tasks /\ part.splits = Train /\ DOMAIN part.meta = 1 .. n
      /\ \A m \in 1 .. n : /\ RowsOf(part, m) = view.episodes[m].rows
                           /\ PacketsOf(part, m) = view.episodes[m].packets
  <2>1. /\ view.tasks = part.tasks /\ view.splits = part.splits
        /\ DOMAIN view.episodes = DOMAIN part.meta
        /\ \A i \in DOMAIN part.meta : /\ RowsOf(part, i) = view.episodes[i].rows
                                       /\ PacketsOf(part, i) = view.episodes[i].packets
    BY <1>2 DEF Read
  <2>2. DOMAIN part.meta = 1 .. n
    BY <1>1, <2>1
  <2> QED BY <1>3, <2>1, <2>2, Zenon
<1>5. part.version \in Versions
      /\ part = [version |-> part.version, tasks |-> part.tasks, splits |-> part.splits,
                 meta |-> part.meta, data |-> part.data, video |-> part.video]
  <2>1. part.version \in Versions /\ part = Write(part.version, view)
    BY <1>2 DEF Converted
  <2>2. part = WriteV21(view) \/ part = WriteV30(view)
    BY <2>1, Zenon DEF Write
  <2>3. CASE part = WriteV21(view)
    BY <2>1, <2>3 DEF WriteV21
  <2>4. CASE part = WriteV30(view)
    BY <2>1, <2>4 DEF WriteV30
  <2> QED BY <2>1, <2>2, <2>3, <2>4
<1>6. part.meta = [m \in 1 .. n |-> part.meta[m]]
      /\ \A m \in 1 .. n : MetaRow(part.meta[m], part.version)
  <2> DEFINE l == Len(Read(part).episodes)
  <2>1. Sound(part, l)
    BY ConvertedIsSound
  <2> HIDE DEF l
  <2>2. l \in Nat /\ part.meta = [i \in 1 .. l |-> part.meta[i]]
        /\ \A i \in 1 .. l : MetaRow(part.meta[i], part.version)
    BY <2>1 DEF Sound, SoundEpisode
  <2>3. DOMAIN part.meta = 1 .. l
    BY <2>2
  <2>4. 1 .. l = 1 .. n
    BY <1>4, <2>3
  <2> QED BY <2>2, <2>4, Zenon
<1>7. ASSUME NEW m \in 1 .. n
      PROVE  /\ view.episodes[m].rows = src.episodes[m].rows
             /\ view.episodes[m].packets = src.episodes[m].packets
  <2> DEFINE e == src.episodes[m]
             new == view.episodes[m]
  <2>1. PICK c \in Nat \ {0} : Framed(e, m, c)
    BY DEF Presented
  <2>2. Renumbers(new, e, m, lens)
    BY <1>1
  <2>3. \A f \in DOMAIN e.rows : e.rows[f].index = Offset(lens, m) + f - 1
    BY Zenon DEF Indexed
  <2> HIDE DEF e, new, lens
  <2>4. e.rows = [f \in 1 .. c |-> e.rows[f]]
        /\ \A f \in 1 .. c : IsRow(e.rows[f]) /\ e.rows[f].episode = m - 1
    BY <2>1 DEF Framed
  <2>5. /\ new.packets = e.packets /\ DOMAIN new.rows = DOMAIN e.rows
        /\ new.rows = [f \in DOMAIN new.rows |-> new.rows[f]]
        /\ \A f \in DOMAIN e.rows :
             new.rows[f] = [e.rows[f] EXCEPT !.episode = m - 1,
                                             !.index = Offset(lens, m) + f - 1]
    BY <2>2, Zenon DEF Renumbers
  <2>6. DOMAIN e.rows = 1 .. c
    BY <2>4
  <2>7. ASSUME NEW f \in 1 .. c PROVE new.rows[f] = e.rows[f]
    <3> DEFINE row == e.rows[f]
               x == Offset(lens, m) + f - 1
    <3>1. /\ new.rows[f] = [row EXCEPT !.episode = m - 1, !.index = x]
          /\ IsRow(row) /\ row.episode = m - 1 /\ row.index = x
      BY <2>3, <2>4, <2>5, <2>6
    <3> HIDE DEF row, x
    <3>2. [row EXCEPT !.episode = m - 1, !.index = x] = row
      BY <3>1 DEF IsRow
    <3> QED BY <3>1, <3>2 DEF row
  <2>8. new.rows = e.rows
    BY <2>4, <2>5, <2>6, <2>7
  <2> QED BY <2>5, <2>8 DEF e, new
<1>8. \A m \in 1 .. n : /\ MetaRow(part.meta[m], part.version)
                        /\ RowsOf(part, m) = src.episodes[m].rows
                        /\ PacketsOf(part, m) = src.episodes[m].packets
  BY <1>4, <1>6, <1>7
<1>9. part = [version |-> part.version, tasks |-> src.tasks, splits |-> Train,
              meta |-> part.meta, data |-> part.data, video |-> part.video]
  BY <1>4, <1>5
<1> QED BY <1>5, <1>6, <1>8, <1>9, Zenon DEF Restorable

(* The intervals of a written plan lie end to end.                         *)
LEMMA PlanTiles ==
  ASSUME PlanInv, stage = "planned"
  PROVE  Tiles(intervals, Len(intervals), total)
<1> DEFINE k == Len(intervals)
           A(p) == intervals[p].start
           Z(p) == intervals[p].stop
<1>1. /\ total \in Nat \ {0} /\ k \in Nat /\ DOMAIN intervals = 1 .. k
      /\ \A p \in 1 .. k : A(p) \in Nat /\ Z(p) \in Nat
  <2>1. PlanTypeOK /\ ~Unplannable
    BY DEF PlanInv, Cut
  <2>2. intervals \in Seq([start : Nat, stop : Nat]) /\ total \in Nat /\ total # 0
    BY <2>1 DEF PlanTypeOK, Unplannable
  <2>3. k \in Nat /\ DOMAIN intervals = 1 .. k
    BY <2>2, LenProperties
  <2>4. \A p \in 1 .. k : intervals[p] \in [start : Nat, stop : Nat]
    BY <2>2, ElementOfSeq
  <2> QED BY <2>2, <2>3, <2>4
<1>2. Reached = total
  BY DoneIsAll
<1>3. /\ \A p \in 1 .. k : A(p) < Z(p) /\ Z(p) <= total
      /\ \A p, q \in 1 .. k : p < q => Z(p) <= A(q)
      /\ \A e \in 0 .. total - 1 : \E p \in 1 .. k : A(p) <= e /\ e < Z(p)
  BY <1>1, <1>2 DEF PlanInv, Cut, Ordered, Covered, Within
<1> HIDE DEF k, A, Z
<1>4. k # 0 /\ 1 \in 1 .. k /\ k \in 1 .. k
  <2>1. 0 \in 0 .. total - 1
    BY <1>1
  <2>2. PICK p \in 1 .. k : A(p) <= 0 /\ 0 < Z(p)
    BY <1>3, <2>1
  <2> QED BY <1>1, <2>2
<1>5. A(1) = 0
  <2>1. 0 \in 0 .. total - 1
    BY <1>1
  <2>2. PICK p \in 1 .. k : A(p) <= 0 /\ 0 < Z(p)
    BY <1>3, <2>1
  <2>3. p = 1
    <3> SUFFICES ASSUME p # 1 PROVE FALSE
      OBVIOUS
    <3>1. 1 < p
      BY <1>1
    <3>2. Z(1) <= A(p) /\ A(1) < Z(1) /\ A(1) \in Nat /\ Z(1) \in Nat /\ A(p) \in Nat
      BY <1>1, <1>3, <1>4, <3>1
    <3> QED BY <2>2, <3>2
  <2> QED BY <1>1, <1>4, <2>2, <2>3
<1>6. ASSUME NEW p \in 1 .. k, NEW b \in Nat, Z(p) <= b, b <= total,
             \A q \in 1 .. k : p < q => b <= A(q)
      PROVE  Z(p) = b
  <2> SUFFICES ASSUME Z(p) # b PROVE FALSE
    OBVIOUS
  <2>1. Z(p) \in 0 .. total - 1 /\ Z(p) < b
    BY <1>1, <1>6
  <2>2. PICK q \in 1 .. k : A(q) <= Z(p) /\ Z(p) < Z(q)
    BY <1>3, <2>1
  <2>3. A(q) \in Nat /\ Z(q) \in Nat /\ A(p) \in Nat /\ Z(p) \in Nat
    BY <1>1
  <2>4. q # p
    BY <2>2, <2>3
  <2>5. CASE p < q
    <3>1. b <= A(q)
      BY <1>6, <2>5
    <3> QED BY <2>1, <2>2, <2>3, <3>1
  <2>6. CASE q < p
    <3>1. Z(q) <= A(p) /\ A(p) < Z(p)
      BY <1>3, <2>6
    <3> QED BY <2>2, <2>3, <3>1
  <2> QED BY <1>1, <2>4, <2>5, <2>6
<1>7. Z(k) = total
  <2>1. \A q \in 1 .. k : ~(k < q)
    BY <1>1
  <2> QED BY <1>1, <1>3, <1>4, <1>6, <2>1
<1>8. ASSUME NEW p \in 1 .. k, p < k PROVE Z(p) = A(p + 1)
  <2>1. p + 1 \in 1 .. k /\ p < p + 1
    BY <1>1, <1>8
  <2>2. A(p + 1) \in Nat /\ Z(p + 1) \in Nat /\ Z(p) <= A(p + 1)
        /\ A(p + 1) < Z(p + 1) /\ Z(p + 1) <= total
    BY <1>1, <1>3, <2>1
  <2>3. ASSUME NEW q \in 1 .. k, p < q PROVE A(p + 1) <= A(q)
    <3>1. CASE q = p + 1
      BY <2>2, <3>1
    <3>2. CASE q # p + 1
      <4>1. p + 1 < q
        BY <1>1, <2>3, <3>2
      <4>2. Z(p + 1) <= A(q) /\ A(q) \in Nat
        BY <1>1, <1>3, <2>1, <4>1
      <4> QED BY <2>2, <4>2
    <3> QED BY <3>1, <3>2
  <2>4. A(p + 1) <= total
    BY <1>1, <2>2
  <2> QED BY <1>6, <2>2, <2>3, <2>4
<1>9. \A p \in 1 .. k : IntervalOf(intervals[p], total)
  BY <1>1, <1>3 DEF IntervalOf, A, Z
<1> QED BY <1>1, <1>4, <1>5, <1>7, <1>8, <1>9 DEF Tiles, A, Z, k

-----------------------------------------------------------------------------
(***************************************************************************)
(* The distributed conversion, step by step.                               *)
(***************************************************************************)

(* While a job merges, its parts are those of the plan, in its order.      *)
JobMerging ==
  /\ total \in Nat /\ IsTable(source.tasks) /\ IsInjective(source.tasks)
  /\ PartsOf(parts, source, intervals, Len(parts), total)

(* The invariant of a job: its parts read as the subsets of their          *)
(* intervals, and what the merge has built is the source but for the       *)
(* statistics. Every file rewritten shows that the table it came from has  *)
(* no gaps, because one with gaps is not rewritten.                        *)
JobInv ==
  /\ Converting => Indexed(source, total) /\ IsInjective(source.tasks)
  /\ stage \in {"request", "cut"} => DOMAIN parts = {}
  /\ stage = "planned" =>
       \A k \in DOMAIN parts : Read(parts[k]) = Subset(source, intervals[k])
  /\ stage = "inputs" => intervals = <<>>
  /\ stage = "merging" =>
       /\ intervals # <<>> => JobMerging
       /\ \A r \in DOMAIN manifest.data :
            <<"data", r>> \in written => Dense(parts[manifest.data[r][1]].tasks)
  /\ stage = "built" =>
       total \in Nat /\ Presented(source, total) /\ Restorable(final, source, total)
  /\ stage = "restored" => Read(final) = [source EXCEPT !.splits = Train]

(* It holds at first, when nothing is planned or written.                  *)
LEMMA JobStart ==
  ASSUME \A table \in TaskTables : IsInjective(table), Init
  PROVE  JobInv
<1>1. CASE ConvertInit
  <2>1. parts = <<>> /\ stage = "request" /\ total \in Nat
    BY <1>1, TotalType DEF ConvertInit, PlanInit, Nothing
  <2>2. PICK lens \in [1 .. total -> Lengths], table \in TaskTables,
             splits \in Splits : source = Recorded(lens, table, splits)
    BY <1>1 DEF ConvertInit
  <2>3. lens \in [1 .. total -> Nat \ {0}]
    BY <2>2, PipelineAssumption DEF PipelineAssumption
  <2>4. Indexed(source, total)
    BY <2>1, <2>2, <2>3, RecordedIsIndexed
  <2>5. source.tasks = table
    BY <2>2 DEF Recorded
  <2>6. DOMAIN parts = {}
    BY <2>1
  <2> QED BY <2>1, <2>4, <2>5, <2>6, Zenon DEF JobInv, Converting
<1>2. CASE MergeInit
  <2>1. stage = "inputs" /\ intervals = <<>>
    BY <1>2 DEF MergeInit
  <2> QED BY <2>1, Zenon DEF JobInv, Converting
<1> QED BY <1>1, <1>2 DEF Init

(* The parts of a planned job when the merge opens them.                   *)
LEMMA OpenedParts ==
  ASSUME PlanInv, stage = "planned", Presented(source, total), Indexed(source, total),
         Labelled(source), IsInjective(source.tasks),
         Len(parts) = Len(intervals), Alike(parts, target, Len(parts)),
         \A k \in DOMAIN parts : Read(parts[k]) = Subset(source, intervals[k])
  PROVE  JobMerging
<1> DEFINE n == Len(parts)
<1>1. total \in Nat
  BY DEF PlanInv, PlanTypeOK
<1>2. Tiles(intervals, n, total)
  BY PlanTiles
<1>3. DOMAIN parts = 1 .. n /\ \A p \in 1 .. n : Sound(parts[p], Len(parts[p].meta))
  BY DEF Alike
<1> HIDE DEF n
<1>4. ASSUME NEW p \in 1 .. n
      PROVE  PartIs(parts[p], source, intervals[p].start,
                    intervals[p].stop - intervals[p].start)
  <2> DEFINE iv == intervals[p]
             part == parts[p]
  <2>1. IntervalOf(iv, total)
    BY <1>2 DEF Tiles
  <2>2. Sound(part, Len(part.meta)) /\ Read(part) = Subset(source, iv)
    BY <1>3
  <2> HIDE DEF iv, part
  <2>3. PartIs(part, source, iv.start, iv.stop - iv.start)
    BY <1>1, <2>1, <2>2, PartOfSource
  <2> QED BY <2>3 DEF iv, part
<1>5. PartsOf(parts, source, intervals, n, total)
  BY <1>2, <1>4 DEF PartsOf, CutFrom
<1> QED BY <1>1, <1>5 DEF JobMerging, Labelled, n

(* What the merge of a job writes.                                         *)
LEMMA BuiltIs ==
  ASSUME MergeOpened, InMerge, JobMerging, WriteMetadata,
         \A r \in DOMAIN manifest.data :
           <<"data", r>> \in written => Dense(parts[manifest.data[r][1]].tasks)
  PROVE  Restorable(final', source, total)
<1> DEFINE n == Len(parts)
<1>1. /\ Alike(parts, target, n) /\ manifest = ManifestOf(parts)
      /\ final' = Merged(target, parts, manifest, data, video)
      /\ Moved(target, parts, manifest, data, video) /\ DataDone
  BY WriteStep DEF MergeOpened, WriteMetadata
<1>2. total \in Nat /\ IsTable(source.tasks) /\ IsInjective(source.tasks)
      /\ PartsOf(parts, source, intervals, n, total)
  BY DEF JobMerging
<1>3. \A r \in DOMAIN manifest.data : manifest.data[r][1] \in DOMAIN parts
  BY DEF InMerge
<1> HIDE DEF n
<1>4. PICK off : Numbers(ManifestOf(parts), parts, off, n)
  BY <1>1, ManifestNumbers
<1>5. Numbering(parts, target, n, manifest, off) /\ Numbers(manifest, parts, off, n)
  BY <1>1, <1>4, Zenon DEF Numbering
<1>6. DOMAIN parts = 1 .. n
  BY <1>1 DEF Alike
<1>7. Tiles(intervals, n, total) /\ CutFrom(parts, source, intervals, n)
  BY <1>2 DEF PartsOf
<1>8. n \in Nat \ {0} /\ total # 0
  <2>1. n \in Nat \ {0} /\ IntervalOf(intervals[1], total)
    BY <1>7 DEF Tiles
  <2> QED BY <2>1 DEF IntervalOf
<1>9. \A p \in 1 .. n : parts[p].tasks = source.tasks
  BY <1>7 DEF CutFrom, PartIs
<1>10. Dense(source.tasks)
  <2>1. off[n + 1] = total
    BY <1>5, <1>7, PartsBegin
  <2>2. Lists(manifest.data, DataUsed(parts, manifest.episodes), total)
    BY <1>5, <2>1, UsedFiles DEF Uses
  <2>3. 1 \in 1 .. total
    BY <1>2, <1>8
  <2>4. PICK r \in DOMAIN manifest.data : TRUE
    BY <2>2, <2>3, Zenon DEF Lists
  <2>5. Dense(parts[manifest.data[r][1]].tasks)
    BY <1>1 DEF DataDone
  <2> QED BY <1>3, <1>6, <1>9, <2>5
<1>11. Shared(parts, source.tasks, n)
  BY <1>2, <1>8, <1>9, <1>10 DEF Shared
<1>12. Restorable(Merged(target, parts, manifest, data, video), source, total)
  BY <1>1, <1>2, <1>5, <1>11, MergedIsRestorable
<1> QED BY <1>1, <1>12

(* Every step keeps it: a part is cut from its own interval, the merge     *)
(* opens all parts of the plan, and only the statistics are restored       *)
(* afterwards.                                                             *)
LEMMA JobStep == PipeInv /\ MergeInv /\ JobInv /\ [Next]_pipelineVars => JobInv'
<1> SUFFICES ASSUME PipeInv, MergeInv, JobInv, [Next]_pipelineVars PROVE JobInv'
  OBVIOUS
<1>0. /\ PartsInv /\ (Converting => InConversion) /\ (stage = "merging" => InMerge)
      /\ \A k \in DOMAIN parts : Labelled(Read(parts[k]))
      /\ Converting => Labelled(source) /\ \A k \in DOMAIN parts : parts[k].version = target
      /\ stage = "merging" => MergeOpened
  BY DEF PipeInv, MergeInv
<1>1. /\ Converting => Indexed(source, total) /\ IsInjective(source.tasks)
      /\ stage \in {"request", "cut"} => DOMAIN parts = {}
      /\ stage = "planned" =>
           \A k \in DOMAIN parts : Read(parts[k]) = Subset(source, intervals[k])
      /\ stage = "inputs" => intervals = <<>>
      /\ stage = "merging" =>
           /\ intervals # <<>> => JobMerging
           /\ \A r \in DOMAIN manifest.data :
                <<"data", r>> \in written => Dense(parts[manifest.data[r][1]].tasks)
      /\ stage = "built" =>
           total \in Nat /\ Presented(source, total) /\ Restorable(final, source, total)
      /\ stage = "restored" => Read(final) = [source EXCEPT !.splits = Train]
  BY DEF JobInv
<1>2. CASE Plan
  <2>1. /\ stage \in {"request", "cut"} /\ stage' \in {"cut", "planned", "rejected"}
        /\ UNCHANGED <<total, source, parts>>
    BY <1>2 DEF Plan, PlanNext, PlanReject, PlanAccept, CutSized, CutBalanced, PlanWrite,
                options, pipeVars
  <2>2. DOMAIN parts' = {} /\ Indexed(source, total)' /\ IsInjective(source.tasks)'
    BY <1>1, <2>1 DEF Converting
  <2> QED BY <2>1, <2>2 DEF JobInv, Converting
<1>3. ASSUME NEW k \in DOMAIN intervals, ConvertPart(k) PROVE JobInv'
  <2> DEFINE i == intervals[k]
             part == Write(target, Subset(source, i))
  <2>1. /\ stage = "planned" /\ stage' = "planned"
        /\ UNCHANGED <<total, intervals, source>>
        /\ parts' = Assign(parts, k, part)
    BY <1>3 DEF ConvertPart, planVars
  <2>2. PlanInv /\ Presented(source, total) /\ target \in Versions
    BY <1>0, <2>1 DEF Converting, InConversion
  <2>3. Read(part) = Subset(source, i)
    <3> DEFINE view == Subset(source, i)
               m == i.stop - i.start
    <3>1. IntervalOf(i, total) /\ total \in Nat
      <4>1. Tiles(intervals, Len(intervals), total) /\ intervals \in Seq([start : Nat, stop : Nat])
        BY <2>1, <2>2, PlanTiles DEF PlanInv, PlanTypeOK
      <4>2. k \in 1 .. Len(intervals)
        BY <4>1, LenProperties
      <4> QED BY <4>1, <4>2 DEF Tiles
    <3>2. Presented(view, m) /\ m \in Nat
      BY <2>2, <3>1, SubsetIsPresented DEF IntervalOf
    <3> HIDE DEF view, m
    <3>3. Read(Write(target, view)) = view
      BY <2>2, <3>2, WrittenIsRead DEF Versions
    <3> QED BY <3>3 DEF view
  <2> HIDE DEF part
  <2>4. DOMAIN parts' = DOMAIN parts \cup {k}
        /\ \A l \in DOMAIN parts' : parts'[l] = IF l = k THEN part ELSE parts[l]
    BY <2>1 DEF Assign
  <2>5. \A l \in DOMAIN parts' : Read(parts'[l]) = Subset(source', intervals'[l])
    BY <1>1, <2>1, <2>3, <2>4
  <2>6. Indexed(source, total)' /\ IsInjective(source.tasks)'
    BY <1>1, <2>1 DEF Converting
  <2> QED BY <2>1, <2>5, <2>6 DEF JobInv, Converting
<1>4. CASE CopyPart
  <2>1. /\ stage = "planned" /\ stage' = "built" /\ PartsDone /\ Len(intervals) = 1
        /\ UNCHANGED <<total, source>> /\ final' = parts[1]
    BY <1>4 DEF CopyPart, options
  <2>2. /\ PlanInv /\ Presented(source, total) /\ total \in Nat
        /\ Indexed(source, total)
    BY <1>0, <1>1, <2>1 DEF Converting, InConversion, PlanInv, PlanTypeOK
  <2>3. DOMAIN parts = 1 .. 1
    <3>1. intervals \in Seq([start : Nat, stop : Nat])
      BY <2>2 DEF PlanInv, PlanTypeOK
    <3> QED BY <2>1, <3>1, LenProperties DEF PartsDone
  <2>4. IntervalOf(intervals[1], total) /\ intervals[1].start = 0 /\ intervals[1].stop = total
    <3>1. Tiles(intervals, 1, total)
      BY <2>1, <2>2, PlanTiles
    <3> QED BY <3>1 DEF Tiles
  <2>5. Converted(parts[1]) /\ Labelled(Read(parts[1]))
        /\ Read(parts[1]) = Subset(source, intervals[1])
    BY <1>0, <1>1, <2>1, <2>3 DEF PartsInv
  <2>6. Restorable(parts[1], source, total)
    BY <2>2, <2>4, <2>5, WholePartIsRestorable
  <2> QED BY <2>1, <2>2, <2>6 DEF JobInv, Converting
<1>5. CASE MergeOpen
  <2>1. /\ stage = "planned" /\ stage' = "merging" /\ PartsDone
        /\ UNCHANGED <<total, intervals, source, target, parts, written>>
    BY <1>5 DEF MergeOpen, AllConverted, options
  <2>2. /\ PlanInv /\ Presented(source, total) /\ Indexed(source, total)
        /\ Labelled(source) /\ IsInjective(source.tasks) /\ target \in Versions
        /\ written = {} /\ \A p \in DOMAIN parts : parts[p].version = target
    BY <1>0, <1>1, <2>1 DEF Converting, InConversion, MergeInv, BeforeMerge
  <2>3. Len(parts) = Len(intervals) /\ Alike(parts, target, Len(parts))
    <3> DEFINE n == Len(intervals)
    <3>1. n \in Nat /\ DOMAIN parts = 1 .. n
      <4>1. intervals \in Seq([start : Nat, stop : Nat])
        BY <2>2 DEF PlanInv, PlanTypeOK
      <4> QED BY <2>1, <4>1, LenProperties DEF PartsDone
    <3> HIDE DEF n
    <3>2. parts = [p \in DOMAIN parts |-> parts[p]]
          /\ \A p \in DOMAIN parts : Converted(parts[p]) /\ Labelled(Read(parts[p]))
      BY <1>0 DEF PartsInv
    <3>3. Len(parts) = n /\ Alike(parts, target, Len(parts))
      BY <2>2, <3>1, <3>2, ConvertedAreAlike
    <3> QED BY <3>3 DEF n
  <2>4. JobMerging
    BY <1>1, <2>1, <2>2, <2>3, OpenedParts
  <2>5. JobMerging'
    BY <2>1, <2>4 DEF JobMerging
  <2>6. written' = {}
    BY <2>1, <2>2
  <2> QED BY <2>1, <2>5, <2>6 DEF JobInv, Converting
<1>6. CASE MergeRefused \/ MachineRefuses
  <2>1. stage' = "rejected"
    BY <1>6 DEF MergeRefused, MachineRefuses
  <2> QED BY <2>1 DEF JobInv, Converting
<1>7. CASE MergeDatasets
  <2>1. stage = "inputs" /\ stage' = "merging" /\ UNCHANGED <<intervals, written>>
    BY <1>7 DEF MergeDatasets
  <2>2. intervals' = <<>> /\ written' = {}
    BY <1>1, <2>1 DEF MergeInv, BeforeMerge
  <2> QED BY <2>1, <2>2 DEF JobInv, Converting
<1>8. ASSUME NEW r \in 1 .. total, RewriteData(r) PROVE JobInv'
  <2>1. /\ stage = "merging" /\ stage' = "merging"
        /\ UNCHANGED <<total, intervals, source, parts, manifest>>
        /\ written' = written \cup {<<"data", r>>}
        /\ ContiguousTasks(manifest.data[r][1])
    BY <1>8 DEF RewriteData, planVars
  <2>2. Dense(parts[manifest.data[r][1]].tasks)
    BY <2>1 DEF ContiguousTasks, Dense
  <2>3. ASSUME NEW q \in DOMAIN manifest.data, <<"data", q>> \in written'
        PROVE  Dense(parts[manifest.data[q][1]].tasks)
    <3>1. q = r \/ <<"data", q>> \in written
      BY <2>1, <2>3
    <3> QED BY <1>1, <2>1, <2>2, <3>1
  <2>4. intervals' # <<>> => JobMerging'
    BY <1>1, <2>1 DEF JobMerging
  <2> QED BY <2>1, <2>3, <2>4 DEF JobInv, Converting
<1>9. ASSUME NEW r \in 1 .. total, CopyMedia(r) PROVE JobInv'
  <2>1. /\ stage = "merging" /\ stage' = "merging"
        /\ UNCHANGED <<total, intervals, source, parts, manifest>>
        /\ written' = written \cup {<<"video", r>>}
    BY <1>9 DEF CopyMedia, planVars
  <2>2. ASSUME NEW q \in DOMAIN manifest.data, <<"data", q>> \in written'
        PROVE  Dense(parts[manifest.data[q][1]].tasks)
    <3>1. <<"data", q>> \in written
      BY <2>1, <2>2
    <3> QED BY <1>1, <2>1, <3>1
  <2>3. intervals' # <<>> => JobMerging'
    BY <1>1, <2>1 DEF JobMerging
  <2> QED BY <2>1, <2>2, <2>3 DEF JobInv, Converting
<1>10. CASE MergeFails
  <2>1. stage' = "failed"
    BY <1>10 DEF MergeFails
  <2> QED BY <2>1 DEF JobInv, Converting
<1>11. CASE WriteMetadata
  <2>1. /\ stage = "merging" /\ stage' = IF intervals = <<>> THEN "merged" ELSE "built"
        /\ UNCHANGED <<total, source>>
    BY <1>11 DEF WriteMetadata, options
  <2>2. CASE intervals = <<>>
    <3>1. stage' = "merged"
      BY <2>1, <2>2
    <3> QED BY <3>1 DEF JobInv, Converting
  <2>3. CASE intervals # <<>>
    <3>1. stage' = "built" /\ JobMerging
      BY <1>1, <2>1, <2>3
    <3>2. Restorable(final', source, total)
      BY <1>0, <1>1, <1>11, <2>1, <3>1, BuiltIs
    <3>3. total \in Nat /\ Presented(source, total)
      BY <3>1 DEF JobMerging, PartsOf
    <3> QED BY <2>1, <3>1, <3>2, <3>3 DEF JobInv, Converting
  <2> QED BY <2>2, <2>3
<1>12. CASE RestoreStats
  <2>1. stage = "built" /\ stage' = "restored" /\ source' = source
        /\ final' = WithStats(final, source)
    BY <1>12 DEF RestoreStats, WithStats
  <2>2. Read(final') = [source EXCEPT !.splits = Train]
    BY <1>1, <2>1, RestoredIs
  <2> QED BY <2>1, <2>2 DEF JobInv, Converting
<1>13. CASE UNCHANGED pipelineVars
  <2>1. UNCHANGED <<stage, total, intervals, source, target, parts, manifest, written, final>>
    BY <1>13 DEF pipelineVars, pipeVars, planVars, mergeVars
  <2>2. JobMerging => JobMerging'
    BY <2>1 DEF JobMerging
  <2> QED BY <1>1, <2>1, <2>2 DEF JobInv, Converting
<1> QED
  BY <1>2, <1>3, <1>4, <1>5, <1>6, <1>7, <1>8, <1>9, <1>10, <1>11, <1>12, <1>13, Zenon
  DEF Next, Ended

(* A distributed conversion that ends well has written what a local one    *)
(* writes, whatever the plan, whichever worker converts which part first   *)
(* and whichever thread merges which file first: its output reads like the *)
(* source, but for the splits. Assumed of a source is that its table names *)
(* each task once: a merge finds tasks by their text, and would make one   *)
(* of two that have the same.                                              *)
THEOREM DistributedMatchesLocalThm ==
  ASSUME \A table \in TaskTables : IsInjective(table)
  PROVE  Spec => []DistributedMatchesLocal
<1>1. Init => JobInv
  BY JobStart
<1>2. JobInv => DistributedMatchesLocal
  BY DEF JobInv, DistributedMatchesLocal
<1> QED
  BY <1>1, <1>2, PipeStart, PipeStep, MergeStart, MergeStep, JobStep, PTL DEF Spec
===============================================================================
