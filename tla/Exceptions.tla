----------------------------- MODULE Exceptions -----------------------------
(***************************************************************************)
(* What a verb, or a comparison, runs of the user's code, and what its     *)
(* noexcept clause weighs.  The two are written apart: a body chooses      *)
(* among its arms with if constexpr, which a noexcept-specifier cannot, so *)
(* traits repeat the conditions.  An exception that leaves a call whose    *)
(* clause did not weigh the operation that threw ends the program.         *)
(*                                                                         *)
(* An operation is the call of a callback for an alternative (Unit, where  *)
(* it is called with nothing), or the copy, move or comparison of a        *)
(* payload.  f is what the verb takes: a result for each alternative as in *)
(* BindLaws, or the other operand of a comparison.                         *)
(***************************************************************************)
EXTENDS BindLaws, Sequences

VARIABLES how,    \* the operand is an lvalue ("copy") or an rvalue ("move")
          todo,   \* the operations the call has yet to run
          thrown  \* the operation that threw, if one did

callVars == <<m, verb, f, g, stage, how, todo, thrown>>

Binds == {"and_then", "or_else"}
Maps == {"transform", "transform_error"}
ActsOn == IF verb \in {"or_else", "transform_error", "recover", "inspect_error"} THEN "error" ELSE "value"
Bypass == IF ActsOn = "value" THEN "error" ELSE "value"
SameKind(c) == some_optional(c) = some_optional(m) /\ some_total(c) = some_total(m)

Payloads(op, side) == {op} \X (Alternatives(side) \ {Unit})
Calls(callback, side) == {callback} \X Alternatives(side)

(***************************************************************************)
(* Pieces of the bodies, as the sequences of operations they may run.      *)
(***************************************************************************)
Payload(op, t) == IF t = Unit THEN <<>> ELSE <<<<op, t>>>>
CarryOver(which) == {Payload(how, t) : t \in Alternatives(m[which])}

\* A call for alternative t, and then one of the payloads S it returned is moved.
CallAndMove(callback, t, S) ==
    IF S = {} THEN {<<<<callback, t>>>>} ELSE {<<<<callback, t>>>> \o Payload("move", u) : u \in S}

(***************************************************************************)
(* The verbs that take a functor.                                          *)
(***************************************************************************)
\* The bodies.  What the callback returned for t may be the result itself, by the arm
\* that t leads to: then nothing is moved.
Returned(t) ==
    IF verb \in Binds
    THEN IF ~Heterogeneous(f) /\ SameKind(f[t]) THEN f[t][Bypass] = m[Bypass]
                                                ELSE f[t] = Result(m, f)
    ELSE IF some_copack(m[ActsOn]) THEN f[t] = mapped_side(m[ActsOn], f)
                                   ELSE ~(some_total(m) /\ some_copack(f[t]))
Brought(t) == IF Returned(t) THEN {}
              ELSE IF verb \in Binds THEN Alternatives(f[t].value) \cup Alternatives(f[t].error)
              ELSE Alternatives(f[t])

FunctorRuns == (UNION {CallAndMove("call", t, Brought(t)) : t \in DOMAIN f}) \cup CarryOver(Bypass)

\* The clauses.  A trait cannot run the arms: it asks about the types a callback
\* returns as a whole.  If they are one type, of the operand's kind, that is the result
\* unless it changes the grade; if not, each is compared with what the join announces.
AgreesInKind == \E c \in Range(f) : Range(f) = {c} /\ SameKind(c)

\* Mutant: the trait lost the case of the widened grade.
BindConvertsNoGrade == IF AgreesInKind THEN {} ELSE Range(f) \ {Result(m, f)}
BindConverts == IF AgreesInKind THEN {c \in Range(f) : c[Bypass] # m[Bypass]}
                                ELSE Range(f) \ {Result(m, f)}
\* A mapped copack collapses; a copack made of a plain value is promoted to a choice.
MapConverts == IF some_copack(m[ActsOn]) THEN Range(f) \ {mapped_side(m[ActsOn], f)}
               ELSE {s \in Range(f) : some_total(m) /\ some_copack(s)}

FunctorWeighs ==
    ({"call"} \X DOMAIN f) \cup Payloads(how, m[Bypass])
    \cup IF verb \in Binds
         THEN UNION {Payloads("move", c.value) \cup Payloads("move", c.error) : c \in BindConverts}
         ELSE UNION {Payloads("move", s) : s \in MapConverts}

(***************************************************************************)
(* The verbs that keep the type of the operand.                            *)
(***************************************************************************)
\* An optional is refused into nullopt, an expected into what on_err returns.
Refuse(t) == IF some_optional(m) THEN {<<>>} ELSE CallAndMove("on_err", t, Alternatives(m.error))
FilterRuns ==
    (UNION {{<<<<"call", t>>>> \o r : r \in Refuse(t) \cup {Payload(how, t)}} : t \in Alternatives(m.value)})
    \cup CarryOver("error")
FilterWeighs ==
    Calls("call", m.value) \cup Payloads(how, m.value) \cup Payloads(how, m.error)
    \cup IF some_optional(m) \/ Alternatives(m.value) = {} THEN {}
         ELSE Calls("on_err", m.value) \cup Payloads("move", m.error)

\* fail and recover.  An identity carrier passes through recover by reference.
Passes == verb = "recover" /\ some_empty_error(m)
SwitchRuns ==
    IF Passes THEN {<<>>}
    ELSE (UNION {CallAndMove("call", t, Alternatives(m[Bypass])) : t \in Alternatives(m[ActsOn])})
         \cup CarryOver(Bypass)
\* Mutant: what the callback returns is weighed where there is nothing to call it with.
SwitchWeighsDead ==
    IF Passes THEN {}
    ELSE Calls("call", m[ActsOn]) \cup Payloads(how, m[Bypass]) \cup Payloads("move", m[Bypass])
SwitchWeighs ==
    IF Passes THEN {}
    ELSE Calls("call", m[ActsOn]) \cup Payloads(how, m[Bypass])
         \cup IF Alternatives(m[ActsOn]) = {} THEN {} ELSE Payloads("move", m[Bypass])

\* inspect and inspect_error pass the operand on by reference.
InspectRuns == {<<c>> : c \in Calls("call", m[ActsOn])} \cup {<<>>}
InspectWeighs == Calls("call", m[ActsOn])

\* The fallback is constructed in place from the arguments of the verb, none for
\* void.  That of an identity carrier is weighed, though it is never constructed.
Fallback == IF m.value = Void THEN {} ELSE {<<"construct", Unit>>}
ValueOrRuns ==
    CarryOver("value") \cup IF some_empty_error(m) THEN {} ELSE {<<c>> : c \in Fallback} \cup {<<>>}
ValueOrWeighs == Payloads(how, m.value) \cup Fallback

(***************************************************************************)
(* Elimination and comparison.                                             *)
(***************************************************************************)
\* One callable for both states, or two overloads of one.
ApplyWeighs == Calls("call", m.value) \cup Calls("on_err", m.error)
ApplyRuns == {<<c>> : c \in ApplyWeighs}

Comparable(s, r) == \/ s = r /\ ~some_copack(s)
                    \/ some_copack(s) /\ some_copack(r) /\ ~empty_copack(s) /\ ~empty_copack(r)
ComparableTo(d) == SameKind(d) /\ Comparable(m.value, d.value) /\ Comparable(m.error, d.error)

\* Payloads are compared when both operands hold the same alternative of the same side.
EqualRuns ==
    {IF x.side = y.side /\ Dispatched(m, x) = Dispatched(f[1], y) THEN Payload("equal", Dispatched(m, x))
     ELSE <<>> : x \in Contents(m), y \in Contents(f[1])}

\* The comparison of two choices of different types is its own function.
ComparesChoices == verb = "equal" /\ some_total(m) /\ some_copack(m.value) /\ f[1] # m
EqualWeighs ==
    IF ComparesChoices THEN {}
    ELSE UNION {Payloads("equal", m[s]) \cap Payloads("equal", f[1][s]) : s \in {"value", "error"}}

(***************************************************************************)
(* The call.                                                               *)
(***************************************************************************)
Runs == CASE verb \in Binds \cup Maps -> FunctorRuns
          [] verb = "filter" -> FilterRuns
          [] verb \in {"fail", "recover"} -> SwitchRuns
          [] verb \in {"inspect", "inspect_error"} -> InspectRuns
          [] verb = "value_or" -> ValueOrRuns
          [] verb = "apply" -> ApplyRuns
          [] verb = "equal" -> EqualRuns

Weighed == CASE verb \in Binds \cup Maps -> FunctorWeighs
             [] verb = "filter" -> FilterWeighs
             [] verb \in {"fail", "recover"} -> SwitchWeighs
             [] verb \in {"inspect", "inspect_error"} -> InspectWeighs
             [] verb = "value_or" -> ValueOrWeighs
             [] verb = "apply" -> ApplyWeighs
             [] verb = "equal" -> EqualWeighs

\* The verbs a carrier has, beside the binds.
MapInit ==
    /\ verb \in Maps /\ m \in IF verb = "transform" THEN CarrierTypes ELSE FallibleTypes
    /\ verb = "transform_error" => ~some_optional(m)
    /\ f \in [Alternatives(m[ActsOn]) -> IF verb = "transform" THEN ValueSides ELSE PayloadSides]
    /\ mapped_compiles(m[ActsOn], f, mapped_side(m[ActsOn], f))
    /\ verb = "transform" => admits(m, mapped_side(m.value, f))

KeepInit ==
    /\ f = <<>>
    /\ \/ verb \in {"filter", "fail"} /\ m \in {c \in CarrierTypes : some_identity(c) => some_empty_value(c)}
       \/ verb \in {"recover", "inspect_error"} /\ m \in FallibleTypes
       \/ verb = "value_or" /\ m \in {c \in FallibleTypes : ~some_empty_value(c)}
       \/ verb = "inspect" /\ m \in CarrierTypes
       \/ verb = "apply" /\ m \in {c \in CarrierTypes : ~some_empty_value(c) /\ ~some_empty_error(c)}

EqualInit ==
    /\ verb = "equal" /\ m \in CarrierTypes
    /\ f \in {<<d>> : d \in {c \in CarrierTypes : ComparableTo(c)}}

CallInit == /\ Init \/ ((MapInit \/ KeepInit \/ EqualInit) /\ g = <<>> /\ stage = 1)
            /\ how = "move" /\ todo = <<>> /\ thrown = <<>>

Chain == verb \in Binds /\ BindSecond /\ UNCHANGED <<how, todo, thrown>>

Pipe == /\ stage = 1 /\ stage' = 3
        /\ how' \in {"copy", "move"}
        /\ UNCHANGED <<m, verb, f, g, todo, thrown>>

Enter == /\ stage = 3 /\ stage' = 4
         /\ todo' \in Runs
         /\ UNCHANGED <<m, verb, f, g, how, thrown>>

Perform == /\ todo # <<>> /\ todo' = Tail(todo)
           /\ UNCHANGED <<m, verb, f, g, stage, how, thrown>>

Throw == /\ todo # <<>> /\ thrown' = Head(todo) /\ todo' = <<>>
         /\ UNCHANGED <<m, verb, f, g, stage, how>>

CallNext == Chain \/ Pipe \/ Enter \/ Perform \/ Throw

CallSpec == CallInit /\ [][CallNext]_callVars

(***************************************************************************)
(* Properties.                                                             *)
(***************************************************************************)
\* An exception only leaves a call whose noexcept clause weighed the operation that
\* threw, on every path through the bodies of the verbs and of the comparisons; the
\* comparison of choices has its own property.
NoexceptHonest == thrown # <<>> /\ ~ComparesChoices => thrown \in Weighed

\* And a clause weighs nothing else: "what cannot run cannot throw" (fn/expected.hpp,
\* line 82), so that an operation that may throw makes a call noexcept(false) only if
\* some content of the operand, and some answer of the callback, leads to it.  The
\* fallback of value_or over an identity carrier is the one exception.
Vacuous == IF verb = "value_or" /\ some_empty_error(m) THEN Fallback ELSE {}
NoexceptExact ==
    stage = 3 => \A o \in Weighed \ Vacuous : \E r \in Runs : o \in Range(r)

\* "noexcept is conditionally computed" (TYPE_ALGEBRA, section 15): also that of the
\* comparison of choices.
NoexceptComputed == thrown # <<>> /\ ComparesChoices => thrown \in Weighed
=============================================================================
