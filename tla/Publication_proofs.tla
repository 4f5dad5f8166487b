------------------------- MODULE Publication_proofs -------------------------
(* Theorems about Publication for every set of converters and editors.     *)
EXTENDS Publication, TLAPS

(* The three ways a tree comes about. *)
LEMMA Trees ==
  /\ None.by = NoOne /\ ~None.whole
  /\ \A p \in Publisher \cup {User} :
       Made(p) \in Tree /\ Made(p).whole /\ Made(p).by = p /\ Exists(Made(p))
  /\ \A t \in Tree : Torn(t) \in Tree /\ t.by \in Publisher \cup {User}
BY PublicationAssumption DEF Tree, None, Made, Torn, Exists, Publisher

(* Type correctness, by cases on the action. *)
THEOREM PublicationTypeCorrect == Spec => []TypeOK
<1>1. Init => TypeOK
  BY Trees, PublicationAssumption DEF Init, TypeOK, Steps, Ends
<1>2. TypeOK /\ [Next]_vars => TypeOK'
  <2> SUFFICES ASSUME TypeOK, [Next]_vars PROVE TypeOK'
    OBVIOUS
  <2> USE PublicationAssumption, Trees DEF TypeOK, Steps, Ends, Go, bounds, Publisher, Exists
  <2>1. ASSUME NEW c \in Converter, Convert(c) PROVE TypeOK'
    <3>1. CASE ConvertStart(c)
      BY <3>1 DEF ConvertStart
    <3>2. CASE ConvertClear(c)
      BY <3>2 DEF ConvertClear
    <3>3. CASE ConvertCleared(c)
      BY <3>3 DEF ConvertCleared, ConvertRaise
    <3>4. CASE ConvertSwap(c)
      BY <3>4 DEF ConvertSwap, ConvertRaise
    <3> QED
      BY <2>1, <3>1, <3>2, <3>3, <3>4 DEF Convert
  <2>2. ASSUME NEW e \in Editor, Edit(e) PROVE TypeOK'
    <3>1. CASE EditPlan(e)
      BY <3>1 DEF EditPlan
    <3>2. CASE EditLock(e)
      BY <3>2 DEF EditLock
    <3>3. CASE EditWrite(e)
      BY <3>3 DEF EditWrite
    <3>4. CASE EditBackup(e)
      BY <3>4 DEF EditBackup
    <3>5. CASE EditInstall(e)
      BY <3>5 DEF EditInstall
    <3>6. CASE EditRollback(e)
      BY <3>6 DEF EditRollback
    <3>7. CASE EditTidy(e)
      BY <3>7 DEF EditTidy
    <3>8. CASE EditFinish(e)
      BY <3>8 DEF EditFinish
    <3> QED
      BY <2>2, <3>1, <3>2, <3>3, <3>4, <3>5, <3>6, <3>7, <3>8 DEF Edit
  <2>3. CASE Fault
    <3>1. ASSUME NEW c \in Converter, ConvertFault(c), Fault PROVE TypeOK'
      BY <3>1 DEF ConvertFault, ConvertRaise, Fault
    <3>2. ASSUME NEW e \in Editor, EditFault(e), Fault PROVE TypeOK'
      BY <3>2 DEF EditFault, Fault
    <3> QED
      BY <2>3, <3>1, <3>2 DEF Fault
  <2>4. ASSUME NEW p \in Publisher, Kill(p) PROVE TypeOK'
    BY <2>4 DEF Kill
  <2>5. CASE RemoveOrphanLock
    BY <2>5 DEF RemoveOrphanLock
  <2>6. CASE UNCHANGED vars
    BY <2>6 DEF vars
  <2> QED
    BY <2>1, <2>2, <2>3, <2>4, <2>5, <2>6 DEF Next
<1> QED
  BY <1>1, <1>2, PTL DEF Spec

(* The lock file keeps editors apart between its creation and its removal. *)
Locked == \A e \in Editor :
            pc[e] \in {"write", "publish", "install", "rollback", "tidy",
                      "tidied", "abort"} => editLock = e

(* An editor that has not yet published has set nothing aside.             *)
NothingAside == \A e \in Editor :
                  pc[e] \in {"check", "lock", "write", "publish"}
                    => backup[e] = None

Untouched == \A c \in Converter : victim[c] = NoOne
SomeWhole == \E tree \in Kept : tree.whole

(* While no converter has opened a tree to remove it, the destination is   *)
(* absent or whole, and what an editor installed stays until it is done.   *)
Sound ==
  /\ dest = None \/ dest.whole
  /\ \A e \in Editor : pc[e] \in {"tidy", "tidied"} => dest.whole
  /\ \A e \in Editor : pc[e] \in {"install", "rollback"} =>
                         backup[e] = None \/ backup[e].whole
  /\ (Occupied \/ \E p \in Publisher : pc[p] = "done") => SomeWhole

Intact == Untouched => Sound

IInv == Locked /\ NothingAside /\ Intact


(* A lock is taken by creating it and given up only by its holder, or for  *)
(* a holder that has ended.                                                *)
LEMMA LockedStep == TypeOK /\ Locked /\ [Next]_vars => Locked'
<1> SUFFICES ASSUME TypeOK, Locked, [Next]_vars PROVE Locked'
  OBVIOUS
<1> USE PublicationAssumption
    DEF TypeOK, Locked, Steps, Ends, Go, bounds, Publisher
<1>1. ASSUME NEW c \in Converter, Convert(c) PROVE Locked'
  <2>1. CASE ConvertStart(c)
    BY <2>1 DEF ConvertStart
  <2>2. CASE ConvertClear(c)
    BY <2>2 DEF ConvertClear
  <2>3. CASE ConvertCleared(c)
    BY <2>3 DEF ConvertCleared, ConvertRaise
  <2>4. CASE ConvertSwap(c)
    BY <2>4 DEF ConvertSwap, ConvertRaise
  <2> QED
    BY <1>1, <2>1, <2>2, <2>3, <2>4 DEF Convert
<1>2. ASSUME NEW e \in Editor, Edit(e) PROVE Locked'
  <2>1. CASE EditPlan(e)
    BY <2>1 DEF EditPlan
  <2>2. CASE EditLock(e)
    BY <2>2 DEF EditLock
  <2>3. CASE EditWrite(e)
    BY <2>3 DEF EditWrite
  <2>4. CASE EditBackup(e)
    BY <2>4 DEF EditBackup
  <2>5. CASE EditInstall(e)
    BY <2>5 DEF EditInstall
  <2>6. CASE EditRollback(e)
    BY <2>6 DEF EditRollback
  <2>7. CASE EditTidy(e)
    BY <2>7 DEF EditTidy
  <2>8. CASE EditFinish(e)
    BY <2>8 DEF EditFinish
  <2> QED
    BY <1>2, <2>1, <2>2, <2>3, <2>4, <2>5, <2>6, <2>7, <2>8 DEF Edit
<1>3. CASE Fault
  <2>1. ASSUME NEW c \in Converter, ConvertFault(c), Fault PROVE Locked'
    BY <2>1 DEF ConvertFault, ConvertRaise, Fault
  <2>2. ASSUME NEW e \in Editor, EditFault(e), Fault PROVE Locked'
    BY <2>2 DEF EditFault, Fault
  <2> QED
    BY <1>3, <2>1, <2>2 DEF Fault
<1>4. ASSUME NEW p \in Publisher, Kill(p) PROVE Locked'
  BY <1>4 DEF Kill
<1>5. CASE RemoveOrphanLock
  BY <1>5 DEF RemoveOrphanLock
<1>6. CASE UNCHANGED vars
  BY <1>6 DEF vars
<1> QED
  BY <1>1, <1>2, <1>3, <1>4, <1>5, <1>6 DEF Next

(* Before its first rename an editor has set no tree aside: its backup is  *)
(* empty until it reaches the install step.                                *)
LEMMA NothingAsideStep == TypeOK /\ NothingAside /\ [Next]_vars => NothingAside'
<1> SUFFICES ASSUME TypeOK, NothingAside, [Next]_vars PROVE NothingAside'
  OBVIOUS
<1> USE PublicationAssumption
    DEF TypeOK, NothingAside, Steps, Ends, Go, bounds, Publisher
<1>1. ASSUME NEW c \in Converter, Convert(c) PROVE NothingAside'
  <2>1. CASE ConvertStart(c)
    BY <2>1 DEF ConvertStart
  <2>2. CASE ConvertClear(c)
    BY <2>2 DEF ConvertClear
  <2>3. CASE ConvertCleared(c)
    BY <2>3 DEF ConvertCleared, ConvertRaise
  <2>4. CASE ConvertSwap(c)
    BY <2>4 DEF ConvertSwap, ConvertRaise
  <2> QED
    BY <1>1, <2>1, <2>2, <2>3, <2>4 DEF Convert
<1>2. ASSUME NEW e \in Editor, Edit(e) PROVE NothingAside'
  <2>1. CASE EditPlan(e)
    BY <2>1 DEF EditPlan
  <2>2. CASE EditLock(e)
    BY <2>2 DEF EditLock
  <2>3. CASE EditWrite(e)
    BY <2>3 DEF EditWrite
  <2>4. CASE EditBackup(e)
    BY <2>4 DEF EditBackup
  <2>5. CASE EditInstall(e)
    BY <2>5 DEF EditInstall
  <2>6. CASE EditRollback(e)
    BY <2>6 DEF EditRollback
  <2>7. CASE EditTidy(e)
    BY <2>7 DEF EditTidy
  <2>8. CASE EditFinish(e)
    BY <2>8 DEF EditFinish
  <2> QED
    BY <1>2, <2>1, <2>2, <2>3, <2>4, <2>5, <2>6, <2>7, <2>8 DEF Edit
<1>3. CASE Fault
  <2>1. ASSUME NEW c \in Converter, ConvertFault(c), Fault PROVE NothingAside'
    BY <2>1 DEF ConvertFault, ConvertRaise, Fault
  <2>2. ASSUME NEW e \in Editor, EditFault(e), Fault PROVE NothingAside'
    BY <2>2 DEF EditFault, Fault
  <2> QED
    BY <1>3, <2>1, <2>2 DEF Fault
<1>4. ASSUME NEW p \in Publisher, Kill(p) PROVE NothingAside'
  BY <1>4 DEF Kill
<1>5. CASE RemoveOrphanLock
  BY <1>5 DEF RemoveOrphanLock
<1>6. CASE UNCHANGED vars
  BY <1>6 DEF vars
<1> QED
  BY <1>1, <1>2, <1>3, <1>4, <1>5, <1>6 DEF Next

(* A converter that opens a tree ends the promise; an editor moves whole   *)
(* trees about and removes its backup only under the tree it installed,    *)
(* which no other editor can move while the lock is held.                  *)
LEMMA IntactStep == TypeOK /\ IInv /\ [Next]_vars => Intact'
<1> SUFFICES ASSUME TypeOK, IInv, [Next]_vars, Untouched' PROVE Sound'
  BY DEF Intact
<1> USE PublicationAssumption, Trees
    DEF TypeOK, IInv, Locked, NothingAside, Intact, Sound, Untouched, SomeWhole,
        Kept, Steps, Ends, Go, bounds, Publisher, Exists
<1>1. ASSUME NEW c \in Converter, Convert(c) PROVE Sound'
  <2>1. CASE ConvertStart(c)
    BY <2>1 DEF ConvertStart
  <2>2. CASE ConvertClear(c)
    BY <2>2 DEF ConvertClear
  <2>3. CASE ConvertCleared(c)
    BY <2>3 DEF ConvertCleared, ConvertRaise
  <2>4. CASE ConvertSwap(c)
    BY <2>4 DEF ConvertSwap, ConvertRaise
  <2> QED
    BY <1>1, <2>1, <2>2, <2>3, <2>4 DEF Convert
<1>2. ASSUME NEW e \in Editor, Edit(e) PROVE Sound'
  <2>1. CASE EditPlan(e)
    BY <2>1 DEF EditPlan
  <2>2. CASE EditLock(e)
    BY <2>2 DEF EditLock
  <2>3. CASE EditWrite(e)
    BY <2>3 DEF EditWrite
  <2>4. CASE EditBackup(e)
    BY <2>4 DEF EditBackup
  <2>5. CASE EditInstall(e)
    BY <2>5 DEF EditInstall
  <2>6. CASE EditRollback(e)
    BY <2>6 DEF EditRollback
  <2>7. CASE EditTidy(e)
    BY <2>7 DEF EditTidy
  <2>8. CASE EditFinish(e)
    BY <2>8 DEF EditFinish
  <2> QED
    BY <1>2, <2>1, <2>2, <2>3, <2>4, <2>5, <2>6, <2>7, <2>8 DEF Edit
<1>3. CASE Fault
  <2>1. ASSUME NEW c \in Converter, ConvertFault(c), Fault PROVE Sound'
    BY <2>1 DEF ConvertFault, ConvertRaise, Fault
  <2>2. ASSUME NEW e \in Editor, EditFault(e), Fault PROVE Sound'
    BY <2>2 DEF EditFault, Fault
  <2> QED
    BY <1>3, <2>1, <2>2 DEF Fault
<1>4. ASSUME NEW p \in Publisher, Kill(p) PROVE Sound'
  BY <1>4 DEF Kill
<1>5. CASE RemoveOrphanLock
  BY <1>5 DEF RemoveOrphanLock
<1>6. CASE UNCHANGED vars
  BY <1>6 DEF vars
<1> QED
  BY <1>1, <1>2, <1>3, <1>4, <1>5, <1>6 DEF Next

(* The inductive invariant behind the theorems on editors holds always.    *)
THEOREM PublicationInvariance == Spec => [](TypeOK /\ IInv)
<1>1. Init => IInv
  BY Trees, PublicationAssumption
     DEF Init, IInv, Locked, NothingAside, Intact, Sound, SomeWhole, Kept,
         Publisher
<1>2. TypeOK /\ TypeOK' /\ IInv /\ [Next]_vars => IInv'
  BY LockedStep, NothingAsideStep, IntactStep DEF IInv
<1> QED
  BY <1>1, <1>2, PublicationTypeCorrect, PTL DEF Spec

(* Editors lose nothing, whatever is killed or fails. *)
THEOREM EditsLoseNothingThm == Spec => []EditsLoseNothing
<1>1. IInv => EditsLoseNothing
  BY DEF IInv, Intact, Sound, EditsLoseNothing, Untouched, SomeWhole
<1> QED
  BY <1>1, PublicationInvariance, PTL

(* An editor without --overwrite leaves a dataset at the destination alone. *)
THEOREM EditRespectsOverwriteThm == Spec => EditRespectsOverwrite
<1>1. TypeOK /\ [Next]_vars =>
        [\A e \in Editor \ Overwrite :
           pc'[e] # pc[e] /\ Exists(dest) => dest' = dest]_vars
  <2> SUFFICES ASSUME TypeOK, [Next]_vars, NEW f \in Editor \ Overwrite,
                      pc'[f] # pc[f], Exists(dest)
               PROVE  dest' = dest
    OBVIOUS
  <2> USE PublicationAssumption DEF TypeOK, Go, bounds, Publisher, Refused
  <2>1. ASSUME NEW c \in Converter, Convert(c) PROVE dest' = dest
    <3>1. CASE ConvertStart(c)
      BY <3>1 DEF ConvertStart
    <3>2. CASE ConvertClear(c)
      BY <3>2 DEF ConvertClear
    <3>3. CASE ConvertCleared(c)
      BY <3>3 DEF ConvertCleared, ConvertRaise
    <3>4. CASE ConvertSwap(c)
      BY <3>4 DEF ConvertSwap, ConvertRaise
    <3> QED
      BY <2>1, <3>1, <3>2, <3>3, <3>4 DEF Convert
  <2>2. ASSUME NEW e \in Editor, Edit(e) PROVE dest' = dest
    <3>1. CASE EditPlan(e)
      BY <3>1 DEF EditPlan
    <3>2. CASE EditLock(e)
      BY <3>2 DEF EditLock
    <3>3. CASE EditWrite(e)
      BY <3>3 DEF EditWrite
    <3>4. CASE EditBackup(e)
      BY <3>4 DEF EditBackup
    <3>5. CASE EditInstall(e)
      BY <3>5 DEF EditInstall
    <3>6. CASE EditRollback(e)
      BY <3>6 DEF EditRollback
    <3>7. CASE EditTidy(e)
      BY <3>7 DEF EditTidy
    <3>8. CASE EditFinish(e)
      BY <3>8 DEF EditFinish
    <3> QED
      BY <2>2, <3>1, <3>2, <3>3, <3>4, <3>5, <3>6, <3>7, <3>8 DEF Edit
  <2>3. CASE Fault
    <3>1. ASSUME NEW c \in Converter, ConvertFault(c), Fault PROVE dest' = dest
      BY <3>1 DEF ConvertFault, ConvertRaise, Fault
    <3>2. ASSUME NEW e \in Editor, EditFault(e), Fault PROVE dest' = dest
      BY <3>2 DEF EditFault, Fault
    <3> QED
      BY <2>3, <3>1, <3>2 DEF Fault
  <2>4. ASSUME NEW p \in Publisher, Kill(p) PROVE dest' = dest
    BY <2>4 DEF Kill
  <2>5. CASE RemoveOrphanLock
    BY <2>5 DEF RemoveOrphanLock
  <2>6. CASE UNCHANGED vars
    BY <2>6 DEF vars
  <2> QED
    BY <2>1, <2>2, <2>3, <2>4, <2>5, <2>6 DEF Next
<1> QED
  BY <1>1, PublicationTypeCorrect, PTL DEF Spec, EditRespectsOverwrite

-----------------------------------------------------------------------------
(* When publishers race: with no kill and no I/O error ...                 *)
Calm == kills = 0 /\ faults = 0

(* ... a publisher that has ended has no staging tree left, ... *)
Clean == \A p \in staging : pc[p] \in {"ready", "clearing", "swap", "publish",
                                      "install", "rollback", "abort"}

(* ... the lock file is that of an editor at work, ... *)
Held == editLock # NoOne =>
          pc[editLock] \in {"write", "publish", "install", "rollback", "tidy",
                            "tidied", "abort"}

(* ... every tree was there before, or its maker has reported success or   *)
(* is about to, ...                                                        *)
Credit(tree) == \/ tree = None
                \/ tree.by = User
                \/ pc[tree.by] \in {"done", "tidy", "tidied"}
Credited == Credit(dest) /\ \A e \in Editor : Credit(backup[e])

(* ... no maker has two trees, ... *)
Single ==
  /\ \A e \in Editor : Exists(backup[e]) => backup[e].by # dest.by
  /\ \A e, f \in Editor :
       e # f /\ Exists(backup[e]) => backup[e].by # backup[f].by

(* ... who tore a tree is still removing it or has reported failure, ...   *)
Answer(tree) == \/ tree = None
                \/ tree.whole
                \/ \E c \in Converter :
                     pc[c] \in {"clearing", "failed"} /\ victim[c] = tree.by
Answered == Answer(dest) /\ \A e \in Editor : Answer(backup[e])

(* ... and while there is no dataset somebody is bound to put one there:   *)
(* who emptied the path, or one who has not yet met an obstacle.  An       *)
(* editor past its own install has left a tree, which only a converter     *)
(* that will replace it can have removed.                                  *)
Swapping == \E c \in Converter : pc[c] = "swap"
Bound(p) == \/ pc[p] \in {"check", "ready", "swap",
                          "write", "publish", "install"}
            \/ pc[p] = "lock" /\ editLock = NoOne
            \/ p \in Editor /\ pc[p] = "rollback" /\ Exists(backup[p])
Continued ==
  dest = None =>
    /\ \E p \in Publisher : Bound(p)
    /\ \A e \in Editor :
         \/ pc[e] \in {"tidy", "tidied", "abort"}
         \/ pc[e] = "rollback" /\ ~Exists(backup[e])
         => Swapping

Quiet == /\ Clean /\ Held /\ Credited
         /\ Single /\ Answered /\ Continued

QuietInv == Calm => Quiet

(* Without a kill or a fault only the programs and the operator act. *)
LEMMA CalmSteps ==
  TypeOK /\ Calm' /\ [Next]_vars =>
    \/ \E c \in Converter : Convert(c)
    \/ \E e \in Editor : Edit(e)
    \/ RemoveOrphanLock
    \/ UNCHANGED vars
<1> SUFFICES ASSUME TypeOK, Calm', Next
             PROVE  ~Fault /\ \A p \in Publisher : ~Kill(p)
  BY DEF Next
<1> QED
  BY DEF TypeOK, Calm, Fault, Kill

(* What has been killed or has failed stays so.                            *)
LEMMA QuietStays == TypeOK /\ Calm' /\ [Next]_vars => Calm
<1> SUFFICES ASSUME TypeOK, Calm', [Next]_vars PROVE Calm
  OBVIOUS
<1> USE DEF Calm, TypeOK, bounds
<1>1. ASSUME NEW c \in Converter, Convert(c) PROVE Calm
  BY <1>1 DEF Convert, ConvertStart, ConvertClear, ConvertCleared, ConvertSwap
<1>2. ASSUME NEW e \in Editor, Edit(e) PROVE Calm
  BY <1>2 DEF Edit, EditPlan, EditLock, EditWrite, EditBackup, EditInstall,
              EditRollback, EditTidy, EditFinish
<1>3. CASE RemoveOrphanLock
  BY <1>3 DEF RemoveOrphanLock
<1>4. CASE UNCHANGED vars
  BY <1>4 DEF vars
<1> QED
  BY <1>1, <1>2, <1>3, <1>4, CalmSteps

(* A tree being removed is still its maker's. *)
LEMMA TornTrees ==
  /\ \A t \in Tree : Torn(t).by = t.by /\ ~Torn(t).whole /\ Torn(t) # None
  /\ None \notin Tree
BY PublicationAssumption DEF Tree, None, Torn, Publisher

(* Who leaves, on any path, takes its staging tree and its lock along. *)
LEMMA WorkStep ==
  TypeOK /\ IInv /\ Calm /\ Quiet /\ [Next]_vars /\ Calm' => (Clean /\ Held)'
<1> SUFFICES ASSUME TypeOK, IInv, Calm, Quiet, [Next]_vars, Calm'
             PROVE  (Clean /\ Held)'
  OBVIOUS
<1> USE PublicationAssumption, Trees, TornTrees
    DEF TypeOK, Steps, Ends, Go, bounds, Publisher, Exists, Calm, Quiet,
        Clean, Held
<1>1. ASSUME NEW c \in Converter, Convert(c) PROVE (Clean /\ Held)'
  <2>1. CASE ConvertStart(c)
    BY <2>1 DEF ConvertStart
  <2>2. CASE ConvertClear(c)
    BY <2>2 DEF ConvertClear
  <2>3. CASE ConvertCleared(c)
    BY <2>3 DEF ConvertCleared, ConvertRaise
  <2>4. CASE ConvertSwap(c)
    BY <2>4 DEF ConvertSwap, ConvertRaise
  <2> QED
    BY <1>1, <2>1, <2>2, <2>3, <2>4 DEF Convert
<1>2. ASSUME NEW e \in Editor, Edit(e) PROVE (Clean /\ Held)'
  <2>1. CASE EditPlan(e)
    BY <2>1 DEF EditPlan
  <2>2. CASE EditLock(e)
    BY <2>2 DEF EditLock
  <2>3. CASE EditWrite(e)
    BY <2>3 DEF EditWrite
  <2>4. CASE EditBackup(e)
    BY <2>4 DEF EditBackup
  <2>5. CASE EditInstall(e)
    BY <2>5 DEF EditInstall
  <2>6. CASE EditRollback(e)
    BY <2>6 DEF EditRollback
  <2>7. CASE EditTidy(e)
    BY <2>7 DEF EditTidy
  <2>8. CASE EditFinish(e)
    BY <2>8 DEF EditFinish
  <2> QED
    BY <1>2, <2>1, <2>2, <2>3, <2>4, <2>5, <2>6, <2>7, <2>8 DEF Edit
<1>3. CASE RemoveOrphanLock
  BY <1>3 DEF RemoveOrphanLock
<1>4. CASE UNCHANGED vars
  BY <1>4 DEF vars
<1> QED
  BY <1>1, <1>2, <1>3, <1>4, CalmSteps

(* Trees move only between the destination and the backups, and a new one  *)
(* appears in the step in which its maker succeeds.                        *)
LEMMA CreditedStep ==
  TypeOK /\ IInv /\ Calm /\ Quiet /\ [Next]_vars /\ Calm' => Credited'
<1> SUFFICES ASSUME TypeOK, IInv, Calm, Quiet, [Next]_vars, Calm'
             PROVE  Credited'
  OBVIOUS
<1> USE PublicationAssumption, Trees, TornTrees
    DEF TypeOK, Steps, Ends, Go, bounds, Publisher, Exists, Calm, Quiet,
        Credited, Credit
<1>1. ASSUME NEW c \in Converter, Convert(c) PROVE Credited'
  <2>1. CASE ConvertStart(c)
    BY <2>1, SMTT(30) DEF ConvertStart
  <2>2. CASE ConvertClear(c)
    BY <2>2 DEF ConvertClear
  <2>3. CASE ConvertCleared(c)
    BY <2>3, SMTT(30) DEF ConvertCleared, ConvertRaise
  <2>4. CASE ConvertSwap(c)
    BY <2>4 DEF ConvertSwap, ConvertRaise
  <2> QED
    BY <1>1, <2>1, <2>2, <2>3, <2>4 DEF Convert
<1>2. ASSUME NEW e \in Editor, Edit(e) PROVE Credited'
  <2>1. CASE EditPlan(e)
    BY <2>1 DEF EditPlan
  <2>2. CASE EditLock(e)
    BY <2>2, SMTT(30) DEF EditLock
  <2>3. CASE EditWrite(e)
    BY <2>3 DEF EditWrite
  <2>4. CASE EditBackup(e)
    <3>1. CASE Refused(e)
      BY <2>4, <3>1, SMTT(30) DEF EditBackup
    <3>2. CASE ~Refused(e)
      <4>1. pc[e] = "publish" /\ pc' = [pc EXCEPT ![e] = "install"]
        BY <2>4, <3>2 DEF EditBackup
      <4>2. dest' = None /\ backup'[e] = dest /\ backup[e] = None
        BY <2>4, <3>2 DEF EditBackup, IInv, NothingAside
      <4>3. \A f \in Editor \ {e} : backup'[f] = backup[f]
        BY <2>4, <3>2 DEF EditBackup
      <4>4. \A t \in Tree \cup {None} : Credit(t) => Credit(t)'
        BY <4>1
      <4>5. ASSUME NEW f \in Editor PROVE Credit(backup[f])'
        <5>1. CASE f = e
          BY <5>1, <4>2, <4>4
        <5>2. CASE f # e
          BY <5>2, <4>3, <4>4
        <5> QED
          BY <5>1, <5>2
      <4> QED
        BY <4>2, <4>5
    <3> QED
      BY <3>1, <3>2
  <2>5. CASE EditInstall(e)
    <3>1. CASE Exists(dest)
      BY <2>5, <3>1, SMTT(30) DEF EditInstall
    <3>2. CASE ~Exists(dest)
      <4>1. pc[e] = "install" /\ pc' = [pc EXCEPT ![e] = "tidy"]
        BY <2>5, <3>2 DEF EditInstall
      <4>2. dest' = Made(e) /\ UNCHANGED <<backup, victim>>
        BY <2>5, <3>2 DEF EditInstall
      <4> QED
        BY <4>1, <4>2
    <3> QED
      BY <3>1, <3>2
  <2>6. CASE EditRollback(e)
    BY <2>6 DEF EditRollback
  <2>7. CASE EditTidy(e)
    BY <2>7 DEF EditTidy
  <2>8. CASE EditFinish(e)
    BY <2>8 DEF EditFinish
  <2> QED
    BY <1>2, <2>1, <2>2, <2>3, <2>4, <2>5, <2>6, <2>7, <2>8 DEF Edit
<1>3. CASE RemoveOrphanLock
  BY <1>3 DEF RemoveOrphanLock
<1>4. CASE UNCHANGED vars
  BY <1>4 DEF vars
<1> QED
  BY <1>1, <1>2, <1>3, <1>4, CalmSteps

(* A tree is never in two places: a rename removes it from the first. *)
LEMMA SingleStep ==
  TypeOK /\ IInv /\ Calm /\ Quiet /\ [Next]_vars /\ Calm' => Single'
<1> SUFFICES ASSUME TypeOK, IInv, Calm, Quiet, [Next]_vars, Calm' PROVE Single'
  OBVIOUS
<1> USE PublicationAssumption, Trees, TornTrees
    DEF TypeOK, Steps, Ends, Go, bounds, Publisher, Exists, Calm, Quiet,
        Credited, Credit, Single, IInv, NothingAside
<1>1. ASSUME NEW c \in Converter, Convert(c) PROVE Single'
  <2>1. CASE ConvertStart(c)
    BY <2>1 DEF ConvertStart
  <2>2. CASE ConvertClear(c)
    BY <2>2 DEF ConvertClear
  <2>3. CASE ConvertCleared(c)
    BY <2>3 DEF ConvertCleared, ConvertRaise
  <2>4. CASE ConvertSwap(c)
    BY <2>4 DEF ConvertSwap, ConvertRaise
  <2> QED
    BY <1>1, <2>1, <2>2, <2>3, <2>4 DEF Convert
<1>2. ASSUME NEW e \in Editor, Edit(e) PROVE Single'
  <2>1. CASE EditPlan(e)
    BY <2>1 DEF EditPlan
  <2>2. CASE EditLock(e)
    BY <2>2 DEF EditLock
  <2>3. CASE EditWrite(e)
    BY <2>3 DEF EditWrite
  <2>4. CASE EditBackup(e)
    <3>1. CASE Refused(e)
      BY <2>4, <3>1 DEF EditBackup
    <3>2. CASE ~Refused(e)
      <4>1. pc[e] = "publish" /\ pc' = [pc EXCEPT ![e] = "install"]
        BY <2>4, <3>2 DEF EditBackup
      <4>2. dest' = None /\ backup'[e] = dest /\ backup[e] = None
        BY <2>4, <3>2 DEF EditBackup, IInv, NothingAside
      <4>3. \A f \in Editor \ {e} : backup'[f] = backup[f]
        BY <2>4, <3>2 DEF EditBackup
      <4>4. ASSUME NEW f \in Editor, Exists(backup'[f])
            PROVE  backup'[f].by # NoOne /\ (f # e => backup[f].by # dest.by)
        BY <4>2, <4>3, <4>4
      <4>5. dest'.by = NoOne
        BY <4>2
      <4>6. ASSUME NEW f \in Editor, NEW g \in Editor,
                   f # g, Exists(backup'[f])
            PROVE  backup'[f].by # backup'[g].by
        <5>1. CASE f = e
          BY <5>1, <4>6, <4>2, <4>3
        <5>2. CASE g = e
          BY <5>2, <4>6, <4>2, <4>3
        <5>3. CASE f # e /\ g # e
          BY <5>3, <4>6, <4>3
        <5> QED
          BY <5>1, <5>2, <5>3
      <4> QED
        BY <4>4, <4>5, <4>6
    <3> QED
      BY <3>1, <3>2
  <2>5. CASE EditInstall(e)
    BY <2>5 DEF EditInstall
  <2>6. CASE EditRollback(e)
    <3>1. CASE UNCHANGED <<dest, backup>>
      BY <3>1
    <3>2. CASE Exists(backup[e]) /\ ~Exists(dest)
      <4>1. \A f \in Editor \ {e} : backup'[f] = backup[f]
        BY <2>6, <3>2 DEF EditRollback
      <4>2. backup'[e] = None /\ dest' = backup[e]
        BY <2>6, <3>2 DEF EditRollback
      <4> QED
        BY <4>1, <4>2, <3>2
    <3> QED
      BY <2>6, <3>1, <3>2 DEF EditRollback
  <2>7. CASE EditTidy(e)
    <3>1. backup'[e] = None
      BY <2>7 DEF EditTidy
    <3>2. dest' = dest /\ \A f \in Editor \ {e} : backup'[f] = backup[f]
      BY <2>7 DEF EditTidy
    <3>3. \A f \in Editor : Exists(backup'[f]) => f # e
      BY <3>1
    <3> QED
      BY <3>1, <3>2, <3>3, SMTT(30)
  <2>8. CASE EditFinish(e)
    BY <2>8 DEF EditFinish
  <2> QED
    BY <1>2, <2>1, <2>2, <2>3, <2>4, <2>5, <2>6, <2>7, <2>8 DEF Edit
<1>3. CASE RemoveOrphanLock
  BY <1>3 DEF RemoveOrphanLock
<1>4. CASE UNCHANGED vars
  BY <1>4 DEF vars
<1> QED
  BY <1>1, <1>2, <1>3, <1>4, CalmSteps

(* A removal that ends without success leaves its converter failed. *)
LEMMA AnsweredStep ==
  TypeOK /\ IInv /\ Calm /\ Quiet /\ [Next]_vars /\ Calm' => Answered'
<1> SUFFICES ASSUME TypeOK, IInv, Calm, Quiet, [Next]_vars, Calm'
             PROVE  Answered'
  OBVIOUS
<1> USE PublicationAssumption, Trees, TornTrees
    DEF TypeOK, Steps, Ends, Go, bounds, Publisher, Exists, Calm, Quiet,
        Single, Answered, Answer
<1>1. ASSUME NEW c \in Converter, Convert(c) PROVE Answered'
  <2>1. CASE ConvertStart(c)
    BY <2>1, SMTT(30) DEF ConvertStart
  <2>2. CASE ConvertClear(c)
    BY <2>2 DEF ConvertClear
  <2>3. CASE ConvertCleared(c)
    BY <2>3 DEF ConvertCleared, ConvertRaise
  <2>4. CASE ConvertSwap(c)
    BY <2>4, SMTT(30) DEF ConvertSwap, ConvertRaise
  <2> QED
    BY <1>1, <2>1, <2>2, <2>3, <2>4 DEF Convert
<1>2. ASSUME NEW e \in Editor, Edit(e) PROVE Answered'
  <2>1. CASE EditPlan(e)
    BY <2>1, SMTT(30) DEF EditPlan
  <2>2. CASE EditLock(e)
    BY <2>2 DEF EditLock
  <2>3. CASE EditWrite(e)
    BY <2>3 DEF EditWrite
  <2>4. CASE EditBackup(e)
    BY <2>4, SMTT(30) DEF EditBackup
  <2>5. CASE EditInstall(e)
    <3>1. CASE Exists(dest)
      BY <2>5, <3>1 DEF EditInstall
    <3>2. CASE ~Exists(dest)
      <4>1. pc[e] = "install" /\ pc' = [pc EXCEPT ![e] = "tidy"]
        BY <2>5, <3>2 DEF EditInstall
      <4>2. dest' = Made(e) /\ UNCHANGED <<backup, victim>>
        BY <2>5, <3>2 DEF EditInstall
      <4> QED
        BY <4>1, <4>2
    <3> QED
      BY <3>1, <3>2
  <2>6. CASE EditRollback(e)
    BY <2>6, SMTT(30) DEF EditRollback
  <2>7. CASE EditTidy(e)
    BY <2>7 DEF EditTidy
  <2>8. CASE EditFinish(e)
    BY <2>8 DEF EditFinish
  <2> QED
    BY <1>2, <2>1, <2>2, <2>3, <2>4, <2>5, <2>6, <2>7, <2>8 DEF Edit
<1>3. CASE RemoveOrphanLock
  BY <1>3 DEF RemoveOrphanLock
<1>4. CASE UNCHANGED vars
  BY <1>4 DEF vars
<1> QED
  BY <1>1, <1>2, <1>3, <1>4, CalmSteps

(* Whoever empties the path goes on to fill it, unless another has.        *)
LEMMA ContinuedStep ==
  TypeOK /\ IInv /\ Calm /\ Quiet /\ [Next]_vars /\ Calm' => Continued'
<1> SUFFICES ASSUME TypeOK, IInv, Calm, Quiet, [Next]_vars, Calm'
             PROVE  Continued'
  OBVIOUS
<1> USE PublicationAssumption, Trees, TornTrees
    DEF TypeOK, Steps, Ends, Go, bounds, Publisher, Exists, Calm, Quiet,
        Held, Continued, Bound, Swapping, IInv, Locked, NothingAside
<1>1. ASSUME NEW c \in Converter, Convert(c) PROVE Continued'
  <2>1. CASE ConvertStart(c)
    <3> USE DEF ConvertStart, Refused
    <3>1. CASE dest # None
      BY <2>1, <3>1
    <3>2. CASE dest = None
      <4>1. pc[c] = "check" /\ pc' = [pc EXCEPT ![c] = "ready"]
        BY <2>1, <3>2
      <4> QED
        BY <2>1, <4>1
    <3> QED
      BY <3>1, <3>2
  <2>2. CASE ConvertClear(c)
    BY <2>2 DEF ConvertClear
  <2>3. CASE ConvertCleared(c)
    BY <2>3 DEF ConvertCleared, ConvertRaise
  <2>4. CASE ConvertSwap(c)
    BY <2>4 DEF ConvertSwap, ConvertRaise
  <2> QED
    BY <1>1, <2>1, <2>2, <2>3, <2>4 DEF Convert
<1>2. ASSUME NEW e \in Editor, Edit(e) PROVE Continued'
  <2>1. CASE EditPlan(e)
    <3> USE DEF EditPlan, Refused
    <3>1. CASE dest # None
      BY <2>1, <3>1
    <3>2. CASE dest = None
      <4>1. pc[e] = "check" /\ pc' = [pc EXCEPT ![e] = "lock"]
        BY <2>1, <3>2
      <4>2. CASE editLock = NoOne
        BY <2>1, <4>1, <4>2
      <4>3. CASE editLock # NoOne
        BY <2>1, <4>1, <4>3
      <4> QED
        BY <4>2, <4>3
    <3> QED
      BY <3>1, <3>2
  <2>2. CASE EditLock(e)
    BY <2>2 DEF EditLock
  <2>3. CASE EditWrite(e)
    BY <2>3 DEF EditWrite
  <2>4. CASE EditBackup(e)
    <3>1. CASE Refused(e)
      BY <2>4, <3>1 DEF EditBackup, Refused
    <3>2. CASE ~Refused(e)
      <4>1. pc[e] = "publish" /\ pc' = [pc EXCEPT ![e] = "install"]
        BY <2>4, <3>2 DEF EditBackup
      <4>2. \A f \in Editor \ {e} :
              pc[f] \notin {"tidy", "tidied", "abort", "rollback"}
        BY <4>1
      <4> QED
        BY <4>1, <4>2
    <3> QED
      BY <3>1, <3>2
  <2>5. CASE EditInstall(e)
    BY <2>5 DEF EditInstall
  <2>6. CASE EditRollback(e)
    BY <2>6 DEF EditRollback
  <2>7. CASE EditTidy(e)
    BY <2>7 DEF EditTidy
  <2>8. CASE EditFinish(e)
    BY <2>8 DEF EditFinish
  <2> QED
    BY <1>2, <2>1, <2>2, <2>3, <2>4, <2>5, <2>6, <2>7, <2>8 DEF Edit
<1>3. CASE RemoveOrphanLock
  BY <1>3 DEF RemoveOrphanLock
<1>4. CASE UNCHANGED vars
  BY <1>4 DEF vars
<1> QED
  BY <1>1, <1>2, <1>3, <1>4, CalmSteps

(* The strengthening holds always: it is needed only while nothing has been *)
(* killed or has failed, and the counters never go down.                   *)
THEOREM QuietInvariance == Spec => []QuietInv
<1>1. Init => QuietInv
  <2> SUFFICES ASSUME Init PROVE Quiet
    BY DEF QuietInv
  <2> USE PublicationAssumption, Trees DEF Init, Exists, Publisher
  <2>1. Clean /\ Held
    BY DEF Clean, Held
  <2>2. Credited /\ Answered
    BY DEF Credited, Credit, Answered, Answer
  <2>3. Single
    BY DEF Single
  <2>4. Continued
    BY SomePublisher DEF Continued, Bound
  <2> QED
    BY <2>1, <2>2, <2>3, <2>4 DEF Quiet
<1>2. TypeOK /\ IInv /\ QuietInv /\ [Next]_vars => QuietInv'
  <2> SUFFICES ASSUME TypeOK, IInv, QuietInv, [Next]_vars, Calm' PROVE Quiet'
    BY DEF QuietInv
  <2>1. Calm
    BY QuietStays
  <2>2. Quiet
    BY <2>1 DEF QuietInv
  <2> QED
    BY <2>1, <2>2, WorkStep, CreditedStep, SingleStep, AnsweredStep,
       ContinuedStep DEF Quiet
<1> QED
  BY <1>1, <1>2, PublicationInvariance, PTL DEF Spec

(* Publishers that race and have all returned, with nothing killed and no  *)
(* I/O error, leave neither staging trees nor a lock, and the destination  *)
(* is a whole output of a winner, or what a failed remover left of a tree. *)
THEOREM QuietOutputIsWholeThm == Spec => []QuietOutputIsWhole
<1>1. TypeOK /\ IInv /\ QuietInv => QuietOutputIsWhole
  <2> SUFFICES ASSUME TypeOK, IInv, Quiet, \A p \in Publisher : pc[p] \in Ends
               PROVE  /\ staging = {} /\ editLock = NoOne
                      /\ dest.by = User \/ pc[dest.by] = "done"
                      /\ dest.whole \/ \E c \in Converter :
                                         pc[c] = "failed" /\ victim[c] = dest.by
    BY DEF QuietInv, Calm, QuietOutputIsWhole
  <2> USE PublicationAssumption, Trees DEF TypeOK, Ends, Publisher
  <2>1. staging = {} /\ editLock = NoOne
    BY DEF Quiet, Clean, Held
  <2>2. dest # None
    BY DEF Quiet, Continued, Bound
  <2>3. dest.by = User \/ pc[dest.by] = "done"
    BY <2>2 DEF Quiet, Credited, Credit
  <2>4. dest.whole \/ \E c \in Converter :
                        pc[c] = "failed" /\ victim[c] = dest.by
    BY <2>2 DEF Quiet, Answered, Answer
  <2> QED
    BY <2>1, <2>3, <2>4
<1> QED
  BY <1>1, PublicationTypeCorrect, PublicationInvariance, QuietInvariance, PTL
=============================================================================
