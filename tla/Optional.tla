------------------------------ MODULE Optional -------------------------------
(***************************************************************************)
(* Options a caller may leave out (None in the code).                      *)
(***************************************************************************)
EXTENDS Naturals

CONSTANT NotGiven

ASSUME OptionalAssumption == NotGiven \notin Nat

Options == Nat \cup {NotGiven}
Given(option) == option # NotGiven
Chosen(option, otherwise) == IF Given(option) THEN option ELSE otherwise
=============================================================================
