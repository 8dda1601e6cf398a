-------------------------- MODULE MCExpectedStorage --------------------------
(***************************************************************************)
(* Instances of ExpectedStorage for TLC: two objects, two payloads, and    *)
(* the pairs of types (T, E) of each run.                                  *)
(***************************************************************************)
EXTENDS ExpectedStorage

CONSTANTS x, y, v1, v2, hollow

MCObjects == {x, y}
MCValues == {v1, v2}

\* Every combination of the traits the code asks about.
AllProfiles == {p \in ProfileType : ProfileOK(p)}

\* Types that behave badly when they throw, one per arm of _reinit and of
\* _swap_helper: only E, only T, or neither of them moves without throwing, and
\* E trivially copyable or not, T void or not.
HostileProfiles == {p \in AllProfiles : ~p.strong /\ (p.void \/ "value" \notin p.trivial)}
=============================================================================
