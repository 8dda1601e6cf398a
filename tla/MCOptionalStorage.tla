-------------------------- MODULE MCOptionalStorage --------------------------
(***************************************************************************)
(* Instances of OptionalStorage for TLC: two optional<T>, two optional<T&> *)
(* that may refer to them, two payloads besides the moved-from one, and    *)
(* every combination of the traits.                                        *)
(***************************************************************************)
EXTENDS OptionalStorage

CONSTANTS x, y, r, q, v1, v2

MCObjects == {x, y}
MCRefs == {r, q}
MCValues == {v1, v2}
AllProfiles == ProfileType
=============================================================================
