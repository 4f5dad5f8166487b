----------------------------- MODULE MCPipeline ------------------------------
(* Instances of Pipeline for TLC: task tables without gaps, in either      *)
(* order of their texts, and one with a gap.                               *)
EXTENDS Pipeline

OneTask == (0 :> "grasp")
TwoTasks == (0 :> "push") @@ (1 :> "grasp")
GappedTasks == (0 :> "grasp") @@ (2 :> "push")

MCTaskTables == {OneTask, TwoTasks, GappedTasks}
(* Two or three inputs that number the same texts differently, list one    *)
(* twice, have a gap, or differ in version or splits.                      *)
TwiceTasks == (0 :> "push") @@ (1 :> "push")
SwappedTasks == (0 :> "grasp") @@ (1 :> "push")
MergeInput(version, lens, table, splits) ==
  [version |-> version, lens |-> lens, table |-> table, splits |-> splits]
MergeTables == {OneTask, TwoTasks, SwappedTasks, TwiceTasks, GappedTasks}
MCMerges ==
  {<<MergeInput(v, <<2, 1, 1>>, a, Train), MergeInput(v, <<1, 2>>, b, Train)>> :
     v \in {"v2.1", "v3.0"}, a, b \in MergeTables}
    \cup {<<MergeInput(v, <<1, 1>>, a, "test"), MergeInput(v, <<2>>, OneTask, "test"),
            MergeInput(v, <<1, 1>>, TwoTasks, "test")>> :
             v \in {"v2.1", "v3.0"}, a \in {SwappedTasks, TwiceTasks}}
    \cup {<<MergeInput("v3.0", <<1>>, OneTask, s), MergeInput(v, <<2>>, OneTask, Train)>> :
             s \in {"test", "train and test"}, v \in {"v2.1", "v3.0"}}
    \cup {<<(MergeInput("v3.0", <<1>>, OneTask, Train))>>}
MCNoMerges == {}

MCSizes == {-1, 1, 3}
MCSplits == {Train}
MCMoreSplits == {Train, "train and test"}
=============================================================================
