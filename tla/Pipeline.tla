------------------------------ MODULE Pipeline ------------------------------
(***************************************************************************)
(* A carrier that flows through a pipeline of verbs.  Half of every verb   *)
(* runs in the compiler: the type of the result is computed from the types *)
(* the callback returns for each alternative, and a verb that has none     *)
(* does not compile.  The other half runs: one side of the carrier acts    *)
(* and the other is carried into the result type, where the index of its   *)
(* alternative is usually another one.                                     *)
(*                                                                         *)
(* A verb that takes a callback first makes a functor of it, as fn::functor*)
(* does: stage holds the verb and, for each alternative of the side it     *)
(* acts on, the type the callback returns.                                 *)
(***************************************************************************)
EXTENDS Verbs

VARIABLES carrier,  \* the type of the carrier
          content,  \* what it holds
          stage     \* the functor about to be applied to it, if any

vars == <<carrier, content, stage>>

NoStage == [verb |-> "none", fn |-> <<>>]

Init == /\ carrier \in CarrierTypes
        /\ content \in Contents(carrier)
        /\ stage = NoStage

(***************************************************************************)
(* Making the functor.                                                     *)
(***************************************************************************)
Ready == stage = NoStage
Make(verb, fn) == stage' = [verb |-> verb, fn |-> fn] /\ UNCHANGED <<carrier, content>>

MakeAndThen ==
    /\ Ready
    /\ \E fn \in [Alternatives(carrier.value) -> CarrierTypes] :
          and_then_compiles(carrier, fn) /\ Make("and_then", fn)

MakeOrElse ==
    /\ Ready /\ ~some_total(carrier)
    /\ \E fn \in [Alternatives(carrier.error) -> FallibleTypes] :
          or_else_compiles(carrier, fn) /\ Make("or_else", fn)

\* A just whose callback returns a copack is promoted to the choice of its alternatives.
MakeTransform ==
    /\ Ready
    /\ \E fn \in [Alternatives(carrier.value) -> ValueSides] :
          /\ mapped_compiles(carrier.value, fn, mapped_side(carrier.value, fn))
          /\ admits(carrier, mapped_side(carrier.value, fn))
          /\ Make("transform", fn)

\* Only expected has transform_error, and there is no expected<T, void>.
MakeTransformError ==
    /\ Ready /\ ~some_optional(carrier) /\ ~some_total(carrier)
    /\ \E fn \in [Alternatives(carrier.error) -> PayloadSides] :
          /\ mapped_compiles(carrier.error, fn, mapped_side(carrier.error, fn))
          /\ Make("transform_error", fn)

(***************************************************************************)
(* Applying it.                                                            *)
(***************************************************************************)
CalledWith == stage.fn[Dispatched(carrier, content)]
Keep == UNCHANGED vars
Become(type, x) == carrier' = type /\ content' = x /\ stage' = NoStage

\* The callback returns a carrier, whole or converted into the result type, or
\* the new content of a side.
Flatten(type) == \E out \in Contents(CalledWith) : Become(type, Widen(out, CalledWith, type))
Wrap(which, type) ==
    \E out \in Holding(which, CalledWith) :
        Become(type, Widen(out, [carrier EXCEPT ![which] = CalledWith], type))
Carry(type) == Become(type, Widen(content, carrier, type))

Bind(which, type) == IF content.side = which THEN Flatten(type) ELSE Carry(type)
Map(which, type) == IF content.side = which THEN Wrap(which, type) ELSE Carry(type)

AndThen ==
    stage.verb = "and_then" /\ ~some_total(carrier) /\ Bind("value", and_then_type(carrier, stage.fn))
OrElse == stage.verb = "or_else" /\ Bind("error", or_else_type(carrier, stage.fn))
Transform ==
    stage.verb = "transform" /\ ~some_total(carrier) /\ Map("value", transform_type(carrier, stage.fn))
TransformError ==
    stage.verb = "transform_error" /\ Map("error", transform_error_type(carrier, stage.fn))

\* just and choice have nothing to carry past the callback.
AndThenTotal ==
    stage.verb = "and_then" /\ some_total(carrier) /\ Flatten(and_then_type(carrier, stage.fn))
TransformTotal ==
    stage.verb = "transform" /\ some_total(carrier) /\ Wrap("value", transform_type(carrier, stage.fn))

\* A callback whose result is uninhabited can be called, and never returns.
Diverge ==
    /\ \/ stage.verb = "and_then" /\ content.side = "value" /\ Contents(CalledWith) = {}
       \/ stage.verb = "or_else" /\ content.side = "error" /\ Contents(CalledWith) = {}
       \/ stage.verb = "transform" /\ content.side = "value" /\ empty_copack(CalledWith)
       \/ stage.verb = "transform_error" /\ content.side = "error" /\ empty_copack(CalledWith)
    /\ Keep

(***************************************************************************)
(* The verbs whose result has the type of the operand.                     *)
(***************************************************************************)
Switch(side) == \E x \in Holding(side, carrier[side]) : Become(carrier, x)

\* An identity carrier has no error to fail into, unless it has no value either.
Filter ==
    /\ Ready /\ (some_identity(carrier) => some_empty_value(carrier))
    /\ \/ Keep
       \/ content.side = "value" /\ Switch("error")   \* refused: on_err, or nullopt

Fail ==
    /\ Ready /\ (some_identity(carrier) => some_empty_value(carrier))
    /\ IF content.side = "value" THEN Switch("error") ELSE Keep

Recover ==
    /\ Ready /\ ~some_total(carrier)
    /\ IF content.side = "error" THEN Switch("value") ELSE Keep

\* The fallback is constructed by the caller, so there must be a value to construct.
ValueOr ==
    /\ Ready /\ ~some_total(carrier) /\ ~some_empty_value(carrier)
    /\ IF content.side = "error" THEN Switch("value") ELSE Keep

(***************************************************************************)
(* The lifts of a plain side into its singular copack.                     *)
(***************************************************************************)
LiftSide(which) ==
    LET type == [carrier EXCEPT ![which] = Lift(carrier[which])]
    IN  /\ Ready /\ ~some_total(carrier) /\ carrier[which].form = "plain"
        /\ Become(type, Widen(content, carrier, type))

CopackError == LiftSide("error")
CopackValue == LiftSide("value")

Next == \/ MakeAndThen \/ MakeOrElse \/ MakeTransform \/ MakeTransformError
        \/ AndThen \/ OrElse \/ Transform \/ TransformError \/ Diverge
        \/ AndThenTotal \/ TransformTotal
        \/ Filter \/ Fail \/ Recover \/ ValueOr
        \/ CopackError \/ CopackValue

Spec == Init /\ [][Next]_vars

(***************************************************************************)
(* Properties.                                                             *)
(***************************************************************************)
\* Every value of every variable is one the program can have; the content is one
\* the type has room for.
TypeOK ==
    /\ carrier \in CarrierTypes
    /\ content.side \in {"value", "error"}
    /\ content.at \in DOMAIN carrier[content.side].list
    /\ content.member \in Types \cup {Unit}
    /\ content.token \in PayloadsOf(content.member)
    /\ stage.verb \in {"none", "and_then", "or_else", "transform", "transform_error"}

\* The index of the live alternative names the union member that holds it, and
\* goes on doing so however many times the content is carried into a wider or
\* another list, where alternatives have other positions.
IndexNamesMember == Dispatched(carrier, content) = content.member

\* Grading never silently drops: once the side a bind carries is a copack, or some
\* branch of the callback has graded it, it is a copack in the result.  A bind that
\* crosses into a carrier without an error of its own kind drops a grade that is
\* empty, and no other.
Graded(which) == some_copack(carrier[which]) \/ \E t \in DOMAIN stage.fn : some_copack(stage.fn[t][which])
GradingNeverDrops ==
    [][/\ stage.verb = "and_then" /\ Graded("error") =>
              \/ some_copack(carrier'.error)
              \/ Alternatives(carrier.error) = {} /\ carrier'.error \in {None, NoError}
       /\ stage.verb = "or_else" /\ Graded("value") => some_copack(carrier'.value)]_vars

\* What the concept applicable_and_then promises of a callback: a result type is
\* only announced for a bind that compiles.
ApplicableBindsCompile ==
    Ready => \A fn \in [Alternatives(carrier.value) -> CarrierTypes] :
                 Exists(and_then_type(carrier, fn)) => and_then_compiles(carrier, fn)

\* The pipeline does what the algebra of grades says.
Forget(c) == [value |-> Alternatives(c.value), error |-> Alternatives(c.error)]
Forgotten == CASE stage.verb \in {"and_then", "or_else"} -> [t \in DOMAIN stage.fn |-> Forget(stage.fn[t])]
               [] stage.verb \in {"transform", "transform_error"} ->
                    [t \in DOMAIN stage.fn |-> Alternatives(stage.fn[t])]
               [] OTHER -> stage.fn
Live == [side |-> content.side, type |-> Dispatched(carrier, content), token |-> content.token]
Grades == INSTANCE GradedSpec WITH
             value <- Alternatives(carrier.value),
             error <- Alternatives(carrier.error),
             live <- Live,
             pending <- [verb |-> stage.verb, fn |-> Forgotten]
ImplementsGraded == Grades!Spec
=============================================================================
