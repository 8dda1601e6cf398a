------------------------------ MODULE Carriers ------------------------------
(***************************************************************************)
(* The vocabulary of fn's carriers: the two sides of an expected or an     *)
(* optional as the compiler computes them, canonical lists of alternatives *)
(* with the joins that binds form over them, and the run-time content of   *)
(* a carrier.                                                              *)
(*                                                                         *)
(* A payload type is named by its sort key, so the canonical order is <=.  *)
(* Distinct types have distinct keys (meta.hpp asserts it) and do not      *)
(* convert into each other.  optional<T> is the carrier whose error side   *)
(* is None: its empty state is one more state with nothing in it, as the   *)
(* value of expected<void, E> is.  just<T> and choice<Ts...> have no error *)
(* side at all: it is NoError, and nothing is ever in it.                  *)
(***************************************************************************)
EXTENDS Naturals, FiniteSets, Functions

CONSTANTS Types,   \* the payload types
          Tokens   \* the payloads of each that are told apart

ASSUME CarriersAssumption == Types \subseteq Nat \ {0} /\ IsFiniteSet(Types)

Unit == 0   \* stands for the type of a side that is inhabited and carries nothing

(***************************************************************************)
(* Canonical lists.                                                        *)
(***************************************************************************)
normalized(S) == [i \in 1..Cardinality(S) |->
                     CHOOSE t \in S : Cardinality({u \in S : u <= t}) = i]
type_index(t, list) == CHOOSE i \in DOMAIN list : list[i] = t

Side(form, S) == [form |-> form, list |-> normalized(S)]
Void == Side("void", {Unit})
None == Side("none", {Unit})
NoError == Side("nothing", {})
Plain(t) == Side("plain", {t})
Copack(S) == Side("copack", S)
Absent == Side("absent", {})   \* a trait with no member type

Alternatives(side) == Range(side.list)
some_copack(side) == side.form = "copack"
empty_copack(side) == some_copack(side) /\ Alternatives(side) = {}

PayloadSides == {Plain(t) : t \in Types} \cup {Copack(S) : S \in SUBSET Types}
ValueSides == PayloadSides \cup {Void}
ErrorSides == PayloadSides \cup {None, NoError}

some_optional(c) == c.error = None
some_total(c) == c.error = NoError   \* some_just or some_choice
some_empty_error(c) == empty_copack(c.error)
some_empty_value(c) == empty_copack(c.value)
some_identity(c) == some_total(c) \/ some_empty_error(c)

\* No optional<void>, and no choice<>.
admits(c, side) == /\ some_optional(c) => side # Void
                   /\ some_total(c) => ~empty_copack(side)

CarrierTypes == {c \in [value: ValueSides, error: ErrorSides] : admits(c, c.value)}
FallibleTypes == {c \in CarrierTypes : ~some_total(c)}

(***************************************************************************)
(* Joins.                                                                  *)
(***************************************************************************)
\* Mutant: void is an alternative like any other.
CollapsibleVoid(side) == side.form \in {"plain", "copack", "void"}
Collapsible(side) == side.form \in {"plain", "copack"}
copack_for(sides) == IF \A s \in sides : Collapsible(s)
                     THEN Copack(UNION {Alternatives(s) : s \in sides}) ELSE Absent
Lift(side) == Copack(Alternatives(side))

\* The join of the side that is dispatched on: every branch brings its own.
list_join(sides) == IF \E s \in sides : sides = {s} THEN CHOOSE s \in sides : TRUE
                    ELSE copack_for(sides)

\* Mutant: branches that grade a plain side leave it plain.
GradedJoinDrops(own, sides) ==
    IF some_copack(own) THEN copack_for(sides \cup {own})
    ELSE IF sides \subseteq {own, Lift(own)} THEN own ELSE Absent

\* The join of the side that is carried past the callback: it keeps what it had.
graded_join(own, sides) ==
    IF some_copack(own) THEN copack_for(sides \cup {own})
    ELSE IF sides \subseteq {own} THEN own
    ELSE IF sides \subseteq {own, Lift(own)} THEN Lift(own)
    ELSE Absent

\* Implicit conversion of what a branch returns.  copack<> converts to nothing
\* but itself: there is no widening constructor from it.
Converts(from, to) == from = to \/ /\ some_copack(to)
                                   /\ Collapsible(from) /\ ~empty_copack(from)
                                   /\ Alternatives(from) \subseteq Alternatives(to)

(***************************************************************************)
(* Content.  at and member are the two data members of a copack: the index *)
(* of the live alternative and the union member that holds it.  A side     *)
(* that is no copack has one alternative.                                  *)
(***************************************************************************)
PayloadsOf(t) == IF t = Unit THEN {Unit} ELSE Tokens
Held(which, side, t, k) == [side |-> which, at |-> type_index(t, side.list), member |-> t, token |-> k]
Holding(which, side) ==
    UNION {{Held(which, side, t, k) : k \in PayloadsOf(t)} : t \in Alternatives(side)}
Contents(c) == Holding("value", c.value) \cup Holding("error", c.error)

\* Run-time dispatch goes by the index.
Dispatched(c, x) == c[x.side].list[x.at]
\* Mutant: the index is copied with the member.
WidenKeepsIndex(x, from, to) == [x EXCEPT !.member = Dispatched(from, x)]

\* The content of a from, constructed in the same side of a to.
Widen(x, from, to) == Held(x.side, to[x.side], Dispatched(from, x), x.token)
=============================================================================
