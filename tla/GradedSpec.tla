----------------------------- MODULE GradedSpec -----------------------------
(***************************************************************************)
(* What a pipeline promises, in the terms of the algebra: a side is the    *)
(* set of types it may hold, and a carrier is two such sets with one of    *)
(* their types live.  The callback of a bind is a function to pairs of     *)
(* sets.  Nothing here knows a plain side from a copack of one, an order   *)
(* of alternatives, or an index.                                           *)
(***************************************************************************)
EXTENDS Naturals

CONSTANTS Types, Tokens

Unit == 0
Universe == Types \cup {Unit}
Payloads == Tokens \cup {Unit}
Grade == [value: SUBSET Universe, error: SUBSET Universe]

VARIABLES value, error,  \* what each side may hold
          live,          \* the side that holds something, its type and its payload
          pending        \* the verb about to act, with its callback

vars == <<value, error, live, pending>>

Nothing == [verb |-> "none", fn |-> <<>>]
Outcomes(side, S) == [side: {side}, type: S, token: Payloads]

Init == /\ value \in SUBSET Universe
        /\ error \in SUBSET Universe
        /\ live \in Outcomes("value", value) \cup Outcomes("error", error)
        /\ pending = Nothing

\* The callback is asked about every type of the side it acts on.
Ask == /\ pending = Nothing
       /\ UNCHANGED <<value, error, live>>
       /\ \/ pending' \in [verb: {"and_then"}, fn: [value -> Grade]]
          \/ pending' \in [verb: {"or_else"}, fn: [error -> Grade]]
          \/ pending' \in [verb: {"transform"}, fn: [value -> SUBSET Universe]]
          \/ pending' \in [verb: {"transform_error"}, fn: [error -> SUBSET Universe]]

Result == pending.fn[live.type]
United(fn) == UNION {fn[t] : t \in DOMAIN fn}
ValuesOf(fn) == UNION {fn[t].value : t \in DOMAIN fn}
ErrorsOf(fn) == UNION {fn[t].error : t \in DOMAIN fn}

\* A bind on the value collects the errors of all branches beside its own; an
\* error passes it by untouched.
AndThen ==
    /\ pending.verb = "and_then" /\ pending' = Nothing
    /\ value' = ValuesOf(pending.fn)
    /\ error' = error \cup ErrorsOf(pending.fn)
    /\ IF live.side = "error" THEN UNCHANGED live
       ELSE live' \in Outcomes("value", Result.value) \cup Outcomes("error", Result.error)

\* A recovery leaves only the errors its branches return: an error that is
\* handled is gone from the grade.
OrElse ==
    /\ pending.verb = "or_else" /\ pending' = Nothing
    /\ value' = value \cup ValuesOf(pending.fn)
    /\ error' = ErrorsOf(pending.fn)
    /\ IF live.side = "value" THEN UNCHANGED live
       ELSE live' \in Outcomes("value", Result.value) \cup Outcomes("error", Result.error)

Transform ==
    /\ pending.verb = "transform" /\ pending' = Nothing
    /\ value' = United(pending.fn)
    /\ IF live.side = "error" THEN UNCHANGED live ELSE live' \in Outcomes("value", Result)
    /\ UNCHANGED error

TransformError ==
    /\ pending.verb = "transform_error" /\ pending' = Nothing
    /\ error' = United(pending.fn)
    /\ IF live.side = "value" THEN UNCHANGED live ELSE live' \in Outcomes("error", Result)
    /\ UNCHANGED value

\* filter and fail; recover and value_or.
Reject == live.side = "value" /\ live' \in Outcomes("error", error)
Restore == live.side = "error" /\ live' \in Outcomes("value", value)
Switch == pending = Nothing /\ UNCHANGED <<value, error, pending>> /\ (Reject \/ Restore)

Next == Ask \/ AndThen \/ OrElse \/ Transform \/ TransformError \/ Switch

Spec == Init /\ [][Next]_vars
=============================================================================
