------------------------------- MODULE Viewer --------------------------------
(***************************************************************************)
(* `letools visualizer`: a patched copy of the pinned application is       *)
(* prepared in a cache, its dependencies are installed, and the            *)
(* application is supervised next to a data and an annotation service.     *)
(* One command runs at a time; any may fail, be interrupted or be killed,  *)
(* and the checkout may change between two of them.                        *)
(***************************************************************************)
EXTENDS FiniteSets, Naturals

CONSTANTS
  Version,     \* fingerprints of checkout and patches
  NoVersion,
  Launches,    \* commands: [force, setup, local, annotations, browser]
  MaxLaunches  \* bound of the model: commands in a row

(* A copy of the application; "partial": bun has not finished.             *)
Copies == [version: Version, modules: {"none", "partial", "whole"}]

ASSUME ViewerAssumption ==
  NoVersion \notin Version \cup Copies /\ MaxLaunches \in Nat

VARIABLES
  checkout,   \* fingerprint of the sources now
  launch,     \* the command
  viewing,    \* its step
  copy,       \* cache/source, or NoVersion
  sourceMark, dependencyMark,   \* fingerprints in the two markers
  aside,      \* the copy that was moved away
  services,   \* data and annotation threads at work
  child,      \* the application is running
  abandoned,  \* the step at which the command has ceased to wait for it
  harm,       \* steps at which commands ended that leave a trap
  launches

cacheState == <<copy, sourceMark, dependencyMark, aside>>
viewerVars == <<checkout, launch, viewing, cacheState, services, child,
                abandoned, harm, launches>>

Present == copy # NoVersion

ViewerInit ==
  /\ checkout \in Version /\ launch \in Launches /\ viewing = "start"
  /\ copy = NoVersion /\ sourceMark = NoVersion /\ dependencyMark = NoVersion
  /\ aside = NoVersion /\ services = {} /\ child = FALSE /\ abandoned = "no"
  /\ harm = {} /\ launches = 1

Go(step) == viewing' = step
Rest == <<checkout, launch, abandoned, harm, launches>>
-----------------------------------------------------------------------------
(* _prepare_source *)

KeepSource ==
  /\ viewing = "start" /\ ~launch.force /\ Present /\ sourceMark = checkout
  /\ Go("installing")
  /\ UNCHANGED <<Rest, cacheState, services, child>>

(* The copy and the patches go to a staging directory of its own name.     *)
StageSource ==
  /\ viewing = "start" /\ (launch.force \/ ~Present \/ sourceMark # checkout)
  /\ Go("staged")
  /\ UNCHANGED <<Rest, cacheState, services, child>>

(* Mutant: the marker is written before the copy is replaced.              *)
MoveAsideMarked ==
  /\ viewing = "staged"
  /\ aside' = IF Present THEN copy ELSE aside
  /\ sourceMark' = checkout
  /\ Go("moved")
  /\ UNCHANGED <<Rest, copy, dependencyMark, services, child>>

MoveAside ==
  /\ viewing = "staged"
  /\ aside' = IF Present THEN copy ELSE NoVersion
  /\ copy' = NoVersion
  /\ Go("moved")
  /\ UNCHANGED <<Rest, sourceMark, dependencyMark, services, child>>

InstallSource ==
  /\ viewing = "moved"
  /\ copy' = [version |-> checkout, modules |-> "none"]
  /\ Go("unmarked")
  /\ UNCHANGED <<Rest, sourceMark, dependencyMark, aside, services, child>>

MarkSource ==
  /\ viewing = "unmarked"
  /\ sourceMark' = checkout /\ aside' = NoVersion
  /\ Go("installing")
  /\ UNCHANGED <<Rest, copy, dependencyMark, services, child>>
-----------------------------------------------------------------------------
(* prepare_visualizer: bun install --frozen-lockfile *)

KeepModules ==
  /\ viewing = "installing"
  /\ ~launch.force /\ dependencyMark = checkout /\ copy.modules # "none"
  /\ Go("prepared")
  /\ UNCHANGED <<Rest, cacheState, services, child>>

BeginInstall ==
  /\ viewing = "installing"
  /\ launch.force \/ dependencyMark # checkout \/ copy.modules = "none"
  /\ copy' = [copy EXCEPT !.modules = "partial"]
  /\ Go("bun")
  /\ UNCHANGED <<Rest, sourceMark, dependencyMark, aside, services, child>>

EndInstall ==
  /\ viewing = "bun"
  /\ copy' = [copy EXCEPT !.modules = "whole"]
  /\ dependencyMark' = checkout
  /\ Go("prepared")
  /\ UNCHANGED <<Rest, sourceMark, aside, services, child>>
-----------------------------------------------------------------------------
(* serve_visualizer *)

StartServices ==
  /\ viewing = "prepared" /\ ~launch.setup
  /\ services' = (IF launch.local THEN {"data"} ELSE {})
                   \cup (IF launch.annotations THEN {"annotations"} ELSE {})
  /\ Go("building")
  /\ UNCHANGED <<Rest, cacheState, child>>

(* The application runs before the try statement that waits for it is      *)
(* entered, with or without a wait for its page in between.                *)
StartChild ==
  /\ viewing = "building"
  /\ child' = TRUE
  /\ Go(IF launch.browser THEN "browser" ELSE "started")
  /\ UNCHANGED <<Rest, cacheState, services>>

OpenBrowser ==
  /\ viewing = "browser"
  /\ Go("started")
  /\ UNCHANGED <<Rest, cacheState, services, child>>

Supervise ==
  /\ viewing = "started"
  /\ Go("supervising")
  /\ UNCHANGED <<Rest, cacheState, services, child>>

(* The application ends by itself, or is ended by hand if it was left.     *)
ChildExits ==
  /\ child
  /\ child' = FALSE
  /\ UNCHANGED <<Rest, viewing, cacheState, services>>

Interrupt ==
  /\ viewing = "supervising" /\ child
  /\ Go("terminating")
  /\ UNCHANGED <<Rest, cacheState, services, child>>

(* Mutant: a child that does not end within five seconds is left alone.    *)
GiveUpChild ==
  /\ viewing = "terminating"
  /\ Go("stopping")
  /\ UNCHANGED <<Rest, cacheState, services, child>>

(* It ends within five seconds, or is killed; another interrupt while it   *)
(* is waited for after that finds it dead.                                 *)
KillChild ==
  /\ viewing = "terminating"
  /\ child' = FALSE
  /\ Go("stopping")
  /\ UNCHANGED <<Rest, cacheState, services>>

(* Another interrupt within these five seconds: nobody kills it any more.  *)
InterruptAgain ==
  /\ viewing = "terminating"
  /\ abandoned' = viewing
  /\ Go("stopping")
  /\ UNCHANGED <<checkout, launch, harm, launches, cacheState, services,
                 child>>

EndSupervision ==
  /\ viewing = "supervising" /\ ~child
  /\ Go("stopping")
  /\ UNCHANGED <<Rest, cacheState, services, child>>

(* finally; if that is interrupted too, the services end with the command, *)
(* whose daemon threads they are.                                          *)
StopServices ==
  /\ viewing = "stopping"
  /\ services' = {}
  /\ Go("ended")
  /\ UNCHANGED <<Rest, cacheState, child>>

FinishSetup ==
  /\ viewing = "prepared" /\ launch.setup
  /\ Go("ended")
  /\ UNCHANGED <<Rest, cacheState, services, child>>
-----------------------------------------------------------------------------
(* Ends that a later command cannot tell: a marker that still fits what    *)
(* the cache no longer holds.                                              *)
Trap == {step \in {"unmarked", "bun"} :
           viewing = step /\ (step = "bun" => dependencyMark = checkout)}

(* A marker that was being written is torn, and counts as none.            *)
Ragged(mark, step) == IF viewing = step THEN {mark, NoVersion} ELSE {mark}

(* An exception while the copy is replaced puts the old one back if there  *)
(* is none.  (An interrupt is no Exception: it leaves what a kill leaves.) *)
FailPreparing ==
  /\ viewing \in {"staged", "moved", "unmarked", "installing", "bun"}
  /\ copy' = IF viewing = "moved" /\ aside # NoVersion THEN aside ELSE copy
  /\ aside' = IF viewing = "moved" THEN NoVersion ELSE aside
  /\ harm' = harm \cup Trap
  /\ sourceMark' \in Ragged(sourceMark, "unmarked")
  /\ dependencyMark' \in Ragged(dependencyMark, "bun")
  /\ Go("ended")
  /\ UNCHANGED <<checkout, launch, launches, services, child, abandoned>>

(* An exception or an interrupt before the application is waited for: the  *)
(* finally clause stops the services, but not the application.             *)
FailServing ==
  /\ viewing \in {"building", "browser", "started"}
  /\ abandoned' = viewing
  /\ Go("stopping")
  /\ UNCHANGED <<checkout, launch, harm, launches, cacheState, services,
                 child>>

(* A killed command leaves what there is; its services are threads.        *)
KillViewer ==
  /\ viewing \notin {"start", "ended"}
  /\ harm' = harm \cup Trap
  /\ abandoned' = "killed"
  /\ services' = {}
  /\ sourceMark' \in Ragged(sourceMark, "unmarked")
  /\ dependencyMark' \in Ragged(dependencyMark, "bun")
  /\ Go("ended")
  /\ UNCHANGED <<checkout, launch, launches, copy, aside, child>>

(* The next command, when the application has been ended.                  *)
NextLaunch ==
  /\ viewing = "ended" /\ launches < MaxLaunches /\ ~child
  /\ checkout' \in Version /\ launch' \in Launches
  /\ launches' = launches + 1 /\ aside' = NoVersion /\ abandoned' = "no"
  /\ Go("start")
  /\ UNCHANGED <<copy, sourceMark, dependencyMark, services, child, harm>>

ViewerNext ==
  \/ KeepSource \/ StageSource \/ MoveAside \/ InstallSource \/ MarkSource
  \/ KeepModules \/ BeginInstall \/ EndInstall
  \/ StartServices \/ StartChild \/ OpenBrowser \/ Supervise \/ ChildExits
  \/ Interrupt \/ InterruptAgain \/ KillChild \/ EndSupervision
  \/ StopServices \/ FinishSetup
  \/ FailPreparing \/ FailServing \/ KillViewer \/ NextLaunch

ViewerSpec == ViewerInit /\ [][ViewerNext]_viewerVars
-----------------------------------------------------------------------------
(* What a command serves was made from the checkout as it is now, with all *)
(* of its dependencies, however earlier commands ended.  There are two     *)
(* exceptions: one ended between the replacement of the copy and its       *)
(* marker, or while it installed dependencies for which an older marker    *)
(* vouches.                                                                *)
PreparedIsCurrent ==
  viewing \in {"prepared", "building", "browser", "started", "supervising"} =>
    /\ Present
    /\ copy.version = checkout \/ "unmarked" \in harm
    /\ copy.modules = "whole" \/ "bun" \in harm

(* A command that has ended leaves no service behind.  It leaves the       *)
(* application only if it was killed, broken off between the start of the  *)
(* application and the try statement that waits for it (the page did not   *)
(* answer, no browser, or an interrupt), or interrupted once more before   *)
(* the application had ended or been killed.  VISUALIZER.md promises to    *)
(* "stop every child/service" without these exceptions.                    *)
SupervisionIsComplete ==
  viewing = "ended" =>
    /\ services = {}
    /\ child => abandoned \in {"killed", "browser", "started", "terminating"}
=============================================================================
