----------------------------- MODULE DistJobAbs -----------------------------
(***************************************************************************)
(* What a distributed conversion job promises to whoever submitted it:     *)
(* tasks commit one by one, the destination receives the finished dataset  *)
(* in one step after the last commit, it is never withdrawn, and only then *)
(* is the job reported as published.  Somebody else's tree at the          *)
(* destination is evicted only when the job is ready to replace it, and    *)
(* after a look at the destination that found nothing or was allowed to    *)
(* find something: one look evicts one tree at most.                       *)
(***************************************************************************)
CONSTANTS Task,        \* the tasks of the immutable plan
          Overwrite,   \* was --overwrite recorded by the planner?
          Outsider     \* may somebody else create the destination?

VARIABLES committed,    \* tasks with a durable completion record
          output,       \* what is found at the destination
          looked,       \* is an eviction possible without another look?
          acknowledged  \* has the job been reported as published?

absVars == <<committed, output, looked, acknowledged>>

Init == /\ committed = {}
        /\ output \in {"none", "foreign"}
        /\ looked = FALSE
        /\ acknowledged = FALSE

Commit(t) == /\ committed' = committed \cup {t}
             /\ UNCHANGED <<output, looked, acknowledged>>

Occupy == /\ Outsider
          /\ output = "none"
          /\ output' = "foreign"
          /\ UNCHANGED <<committed, looked, acknowledged>>

Look == /\ committed = Task
        /\ Overwrite \/ output = "none"
        /\ looked' = TRUE
        /\ UNCHANGED <<committed, output, acknowledged>>

Forget == /\ looked' = FALSE
          /\ UNCHANGED <<committed, output, acknowledged>>

Evict == /\ looked
         /\ output = "foreign"
         /\ output' = "none"
         /\ looked' = FALSE
         /\ UNCHANGED <<committed, acknowledged>>

Publish == /\ committed = Task
           /\ output = "none"
           /\ output' = "job"
           /\ UNCHANGED <<committed, looked, acknowledged>>

Acknowledge == /\ output = "job"
               /\ acknowledged' = TRUE
               /\ UNCHANGED <<committed, output, looked>>

Next == \/ \E t \in Task : Commit(t)
        \/ Occupy \/ Look \/ Forget \/ Evict \/ Publish \/ Acknowledge

Spec == Init /\ [][Next]_absVars
=============================================================================
