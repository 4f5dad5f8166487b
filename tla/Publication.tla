----------------------------- MODULE Publication -----------------------------
(***************************************************************************)
(* Programs that publish a dataset at one destination path at the same     *)
(* time: convert() and merge_datasets() ("converters": write a staging     *)
(* tree, remove the destination in place, rename) and edit_dataset()       *)
(* ("editors": take a sibling lock file, write a staging tree, rename the  *)
(* destination to a backup, rename the staging tree, roll back on          *)
(* failure).  The editors' lock is unknown to the converters.              *)
(***************************************************************************)
EXTENDS Naturals, FiniteSets

CONSTANTS
  Converter,   \* runs of `letools convert` and `letools merge`
  Editor,      \* runs of `letools editor apply`
  Overwrite,   \* those started with --overwrite
  User,        \* maker of a dataset that was there before
  NoOne,
  Occupied,    \* was there one?
  MaxKills,    \* bound on processes killed
  MaxFaults    \* bound on failing file operations

Publisher == Converter \cup Editor

ASSUME PublicationAssumption ==
  /\ Converter \cap Editor = {}
  /\ User \notin Publisher /\ NoOne \notin Publisher /\ User # NoOne
  /\ Overwrite \subseteq Publisher
  /\ Occupied \in BOOLEAN
  /\ MaxKills \in Nat /\ MaxFaults \in Nat

ASSUME SomePublisher == Publisher # {}

VARIABLES
  dest,      \* the tree at the destination
  backup,    \* the tree each editor has set aside
  staging,   \* publishers with a staging directory
  editLock,  \* editor that created the lock file, or NoOne
  pc,        \* next file operation of each publisher
  victim,    \* whose tree the rmtree of each converter has opened
  kills, faults

vars == <<dest, backup, staging, editLock, pc, victim, kills, faults>>
bounds == <<kills, faults>>
-----------------------------------------------------------------------------
(* A tree is known by its maker; it stops being whole when its removal     *)
(* begins.  Every publisher makes one tree.                                *)
Tree == [by: Publisher \cup {User}, whole: BOOLEAN]
None == [by |-> NoOne, whole |-> FALSE]
Made(p) == [by |-> p, whole |-> TRUE]
Torn(tree) == [by |-> tree.by, whole |-> FALSE]
Exists(tree) == tree # None

Steps == {"check", "ready", "clearing", "swap", "lock", "write", "publish",
          "install", "rollback", "tidy", "tidied", "abort"}
Ends == {"done", "failed", "killed"}

TypeOK ==
  /\ dest \in Tree \cup {None}
  /\ backup \in [Editor -> Tree \cup {None}]
  /\ staging \subseteq Publisher
  /\ editLock \in Editor \cup {NoOne}
  /\ pc \in [Publisher -> Steps \cup Ends]
  /\ victim \in [Converter -> Publisher \cup {User, NoOne}]
  /\ kills \in 0..MaxKills /\ faults \in 0..MaxFaults

Init ==
  /\ dest = IF Occupied THEN Made(User) ELSE None
  /\ backup = [e \in Editor |-> None]
  /\ staging = {} /\ editLock = NoOne
  /\ pc = [p \in Publisher |-> "check"]
  /\ victim = [c \in Converter |-> NoOne]
  /\ kills = 0 /\ faults = 0

Refused(p) == Exists(dest) /\ p \notin Overwrite

Go(p, from, to) == pc[p] = from /\ pc' = [pc EXCEPT ![p] = to]
-----------------------------------------------------------------------------
(* convert, merge_datasets *)

(* The overwrite check is made once, before the dataset is written.        *)
ConvertStart(c) ==
  /\ pc[c] = "check"
  /\ IF Refused(c)
     THEN pc' = [pc EXCEPT ![c] = "failed"] /\ UNCHANGED staging
     ELSE pc' = [pc EXCEPT ![c] = "ready"] /\ staging' = staging \cup {c}
  /\ UNCHANGED <<dest, backup, editLock, victim, bounds>>

(* The except clause removes the staging tree.                             *)
ConvertRaise(c) ==
  /\ pc' = [pc EXCEPT ![c] = "failed"]
  /\ staging' = staging \ {c}

(* Whatever is at the destination by then is removed in place ...          *)
ConvertClear(c) ==
  /\ pc[c] = "ready"
  /\ IF Exists(dest)
     THEN /\ pc' = [pc EXCEPT ![c] = "clearing"]
          /\ dest' = Torn(dest)
          /\ victim' = [victim EXCEPT ![c] = dest.by]
     ELSE pc' = [pc EXCEPT ![c] = "swap"] /\ UNCHANGED <<dest, victim>>
  /\ UNCHANGED <<backup, staging, editLock, bounds>>

(* ... which fails when the tree was renamed away or another removal of it *)
(* is faster.                                                              *)
ConvertCleared(c) ==
  /\ pc[c] = "clearing"
  /\ \/ /\ dest.by = victim[c] /\ ~dest.whole
        /\ dest' = None
        /\ pc' = [pc EXCEPT ![c] = "swap"]
        /\ UNCHANGED staging
     \/ /\ \/ dest.by # victim[c]
           \/ \E d \in Converter \ {c} :
                pc[d] = "clearing" /\ victim[d] = victim[c]
        /\ ConvertRaise(c) /\ UNCHANGED dest
  /\ UNCHANGED <<backup, editLock, victim, bounds>>

(* Mutant: files are moved into whatever is there.                         *)
ConvertSwapMoving(c) ==
  /\ Go(c, "swap", "done")
  /\ dest' = [by |-> c, whole |-> ~Exists(dest)]
  /\ staging' = staging \ {c}
  /\ UNCHANGED <<backup, editLock, victim, bounds>>

ConvertSwap(c) ==
  /\ pc[c] = "swap"
  /\ IF Exists(dest)
     THEN ConvertRaise(c) /\ UNCHANGED dest
     ELSE /\ dest' = Made(c)
          /\ staging' = staging \ {c}
          /\ pc' = [pc EXCEPT ![c] = "done"]
  /\ UNCHANGED <<backup, editLock, victim, bounds>>
-----------------------------------------------------------------------------
(* edit_dataset *)

(* _manifest refuses an existing destination without --overwrite, and one  *)
(* that has lost its meta/info.json.                                       *)
EditPlan(e) ==
  /\ \/ ~Refused(e) /\ Go(e, "check", "lock")
     \/ /\ Refused(e) \/ (Exists(dest) /\ ~dest.whole)
        /\ Go(e, "check", "failed")
  /\ UNCHANGED <<dest, backup, staging, editLock, victim, bounds>>

(* O_EXCL creation of the lock file.                                       *)
EditLock(e) ==
  /\ pc[e] = "lock"
  /\ IF editLock = NoOne
     THEN pc' = [pc EXCEPT ![e] = "write"] /\ editLock' = e
     ELSE pc' = [pc EXCEPT ![e] = "failed"] /\ UNCHANGED editLock
  /\ UNCHANGED <<dest, backup, staging, victim, bounds>>

EditWrite(e) ==
  /\ Go(e, "write", "publish")
  /\ staging' = staging \cup {e}
  /\ UNCHANGED <<dest, backup, editLock, victim, bounds>>

(* Mutant: the overwrite check of the plan is not repeated.                *)
EditBackupUnchecked(e) ==
  /\ Go(e, "publish", "install")
  /\ backup' = [backup EXCEPT ![e] = dest]
  /\ dest' = None
  /\ UNCHANGED <<staging, editLock, victim, bounds>>

(* _publish checks again, then renames the destination to a unique name.   *)
EditBackup(e) ==
  /\ pc[e] = "publish"
  /\ IF Refused(e)
     THEN pc' = [pc EXCEPT ![e] = "abort"] /\ UNCHANGED <<dest, backup>>
     ELSE /\ pc' = [pc EXCEPT ![e] = "install"]
          /\ backup' = [backup EXCEPT ![e] = dest]
          /\ dest' = None
  /\ UNCHANGED <<staging, editLock, victim, bounds>>

EditInstall(e) ==
  /\ pc[e] = "install"
  /\ IF Exists(dest)
     THEN pc' = [pc EXCEPT ![e] = "rollback"] /\ UNCHANGED <<dest, staging>>
     ELSE /\ pc' = [pc EXCEPT ![e] = "tidy"]
          /\ dest' = Made(e)
          /\ staging' = staging \ {e}
  /\ UNCHANGED <<backup, editLock, victim, bounds>>

(* Mutant: the backup is discarded when the rename fails.                  *)
EditDiscard(e) ==
  /\ Go(e, "rollback", "abort")
  /\ backup' = [backup EXCEPT ![e] = None]
  /\ UNCHANGED <<dest, staging, editLock, victim, bounds>>

(* The backup goes back unless the path is taken; then it stays aside.     *)
EditRollback(e) ==
  /\ Go(e, "rollback", "abort")
  /\ IF Exists(backup[e]) /\ ~Exists(dest)
     THEN dest' = backup[e] /\ backup' = [backup EXCEPT ![e] = None]
     ELSE UNCHANGED <<dest, backup>>
  /\ UNCHANGED <<staging, editLock, victim, bounds>>

(* rmtree of the backup; its failure is only a warning.                    *)
EditTidy(e) ==
  /\ Go(e, "tidy", "tidied")
  /\ \/ backup' = [backup EXCEPT ![e] = None] /\ UNCHANGED faults
     \/ /\ Exists(backup[e]) /\ faults < MaxFaults
        /\ backup' = [backup EXCEPT ![e] = Torn(@)]
        /\ faults' = faults + 1
  /\ UNCHANGED <<dest, staging, editLock, victim, kills>>

(* The finally clause removes what is left of staging, then the lock.      *)
EditFinish(e) ==
  /\ Go(e, "tidied", "done") \/ Go(e, "abort", "failed")
  /\ staging' = staging \ {e}
  /\ editLock' = NoOne
  /\ UNCHANGED <<dest, backup, victim, bounds>>
-----------------------------------------------------------------------------
(* The environment *)

ConvertFault(c) ==
  /\ pc[c] \in {"ready", "clearing", "swap"}
  /\ ConvertRaise(c)
  /\ UNCHANGED editLock

(* A failing rmtree in the finally clause skips the removal of the lock.   *)
EditFault(e) ==
  /\ \/ Go(e, "write", "abort") \/ Go(e, "publish", "abort")
     \/ Go(e, "install", "rollback") \/ Go(e, "rollback", "abort")
     \/ e \in staging /\ Go(e, "abort", "failed")
  /\ UNCHANGED <<staging, editLock>>

Fault ==
  /\ faults < MaxFaults
  /\ faults' = faults + 1
  /\ (\E c \in Converter : ConvertFault(c)) \/ (\E e \in Editor : EditFault(e))
  /\ UNCHANGED <<dest, backup, victim, kills>>

Kill(p) ==
  /\ kills < MaxKills
  /\ kills' = kills + 1
  /\ pc[p] \in Steps
  /\ pc' = [pc EXCEPT ![p] = "killed"]
  /\ UNCHANGED <<dest, backup, staging, editLock, victim, faults>>

(* An operator removes the lock of an editor that is not running.          *)
RemoveOrphanLock ==
  /\ editLock # NoOne
  /\ pc[editLock] \in Ends
  /\ editLock' = NoOne
  /\ UNCHANGED <<dest, backup, staging, pc, victim, bounds>>

Convert(c) == \/ ConvertStart(c) \/ ConvertClear(c) \/ ConvertCleared(c)
              \/ ConvertSwap(c)

Edit(e) == \/ EditPlan(e) \/ EditLock(e) \/ EditWrite(e) \/ EditBackup(e)
           \/ EditInstall(e) \/ EditRollback(e) \/ EditTidy(e)
           \/ EditFinish(e)

Next == \/ \E c \in Converter : Convert(c)
        \/ \E e \in Editor : Edit(e)
        \/ Fault
        \/ \E p \in Publisher : Kill(p)
        \/ RemoveOrphanLock

Spec == Init /\ [][Next]_vars
-----------------------------------------------------------------------------
(* Properties *)

Kept == {dest} \cup {backup[e] : e \in Editor}

(* EDITOR.md: a failed edit keeps the old output.  Whatever editors,       *)
(* kills and faults there are, once there is a dataset there is a whole    *)
(* one at the destination or beside it, until a converter removes one.     *)
EditsLoseNothing ==
  (Occupied \/ \E p \in Publisher : pc[p] = "done")
    /\ (\A c \in Converter : victim[c] = NoOne)
    => \E tree \in Kept : tree.whole

(* An editor started without --overwrite never moves a dataset away, even  *)
(* one that appeared after the edit was planned.                           *)
EditRespectsOverwrite ==
  [][\A e \in Editor \ Overwrite :
       pc'[e] # pc[e] /\ Exists(dest) => dest' = dest]_vars

(* Publishers that race: when all have returned and none was killed or met *)
(* an I/O error, no staging tree or lock is left, and the destination is   *)
(* the whole output of one that reported success, or the tree that was     *)
(* there before, or what is left of a tree whose remover reported failure. *)
QuietOutputIsWhole ==
  kills = 0 /\ faults = 0 /\ (\A p \in Publisher : pc[p] \in Ends)
    => /\ staging = {} /\ editLock = NoOne
       /\ dest.by = User \/ pc[dest.by] = "done"
       /\ dest.whole \/ \E c \in Converter :
                          pc[c] = "failed" /\ victim[c] = dest.by

(* conversion.py: "any failure removes staging and leaves an existing      *)
(* destination untouched".                                                 *)
FailureKeepsDestination ==
  \A c \in Converter : pc[c] = "failed" => victim[c] = NoOne
=============================================================================
