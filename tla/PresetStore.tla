----------------------------- MODULE PresetStore -----------------------------
(***************************************************************************)
(* save_preset: presets of one name, each written to a temporary file of   *)
(* fixed name that then replaces the preset.  A file that is being written *)
(* holds part of its content.                                              *)
(***************************************************************************)
EXTENDS FiniteSets, Naturals

CONSTANTS
  Saver,        \* processes that save; each has a content of its own
  MayOverwrite, \* savers started with overwrite
  NoPreset, Torn

ASSUME PresetAssumption ==
  /\ MayOverwrite \subseteq Saver
  /\ NoPreset \notin Saver /\ Torn \notin Saver /\ NoPreset # Torn

VARIABLES
  preset,      \* content of the destination
  temporary,   \* content of .name.json.tmp
  saving,      \* step of each saver
  overlapped   \* two savers have been at work at once

presetVars == <<preset, temporary, saving, overlapped>>

PresetInit ==
  /\ preset = NoPreset /\ temporary = NoPreset
  /\ saving = [s \in Saver |-> "start"]
  /\ overlapped = FALSE

AtWork == {s \in Saver : saving[s] \in {"checked", "writing", "written"}}

SaveCheck(s) ==
  /\ saving[s] = "start"
  /\ saving' = [saving EXCEPT ![s] =
       IF preset # NoPreset /\ s \notin MayOverwrite THEN "refused" ELSE "checked"]
  /\ overlapped' = (overlapped \/ (AtWork # {} /\ saving'[s] = "checked"))
  /\ UNCHANGED <<preset, temporary>>

(* Mutant: the destination is written itself.                              *)
OpenDestination(s) ==
  /\ saving[s] = "checked"
  /\ preset' = Torn /\ temporary' = Torn
  /\ saving' = [saving EXCEPT ![s] = "writing"]
  /\ UNCHANGED <<overlapped>>

OpenTemporary(s) ==
  /\ saving[s] = "checked"
  /\ temporary' = Torn /\ saving' = [saving EXCEPT ![s] = "writing"]
  /\ UNCHANGED <<preset, overlapped>>

(* Two writers of one file leave whole what the last one wrote, unless it  *)
(* has been renamed meanwhile: then they write to the preset itself, and   *)
(* what is left of two contents of different length is torn.               *)
WriteTemporary(s) ==
  /\ saving[s] = "writing"
  /\ saving' = [saving EXCEPT ![s] = "written"]
  /\ IF temporary = NoPreset
     THEN preset' \in {s, Torn} /\ UNCHANGED temporary
     ELSE temporary' \in (IF overlapped THEN {s, Torn} ELSE {s}) /\ UNCHANGED preset
  /\ UNCHANGED <<overlapped>>

(* A temporary file that another saver has renamed is missing: an error.   *)
ReplacePreset(s) ==
  /\ saving[s] = "written"
  /\ saving' = [saving EXCEPT ![s] = IF temporary = NoPreset THEN "failed" ELSE "saved"]
  /\ preset' = IF temporary = NoPreset THEN preset ELSE temporary
  /\ temporary' = NoPreset
  /\ UNCHANGED <<overlapped>>

KillSaver(s) ==
  /\ s \in AtWork
  /\ saving' = [saving EXCEPT ![s] = "killed"]
  /\ UNCHANGED <<preset, temporary, overlapped>>

(* A saver is started again.                                               *)
SaveAgain(s) ==
  /\ saving[s] \in {"refused", "failed", "killed"}
  /\ saving' = [saving EXCEPT ![s] = "start"]
  /\ UNCHANGED <<preset, temporary, overlapped>>

PresetNext ==
  \E s \in Saver : \/ SaveCheck(s) \/ OpenTemporary(s) \/ WriteTemporary(s)
                   \/ ReplacePreset(s) \/ KillSaver(s) \/ SaveAgain(s)

PresetSpec == PresetInit /\ [][PresetNext]_presetVars
-----------------------------------------------------------------------------
(* Savers that follow one another, killed and started again as often as    *)
(* may be, never leave a torn preset, and one that may not overwrite never *)
(* replaces a preset; only savers at work at the same time do.             *)
PresetsStayWhole ==
  ~overlapped =>
    /\ preset # Torn
    /\ preset # NoPreset => AtWork \subseteq MayOverwrite
=============================================================================
