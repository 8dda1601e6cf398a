--------------------------- MODULE MCCopackStorage ---------------------------
(***************************************************************************)
(* Instances of CopackStorage for TLC: two objects of a copack of two      *)
(* alternatives, two payloads, and every combination of the traits.        *)
(***************************************************************************)
EXTENDS CopackStorage

CONSTANTS x, y, A, B, v1, v2

MCObjects == {x, y}
MCAlts == {A, B}
MCValues == {v1, v2}
AllProfiles == ProfileType
=============================================================================
