--------------------------- MODULE Pipeline_proofs ---------------------------
(***************************************************************************)
(* Proofs about Pipeline, for any finite set of payload types and any      *)
(* tokens.                                                                 *)
(*                                                                         *)
(* The invariant says that the content is content of the carrier's type,   *)
(* and that a functor that waits to be applied was made for that type and  *)
(* compiles: with it, every result type holds all that may be put into it. *)
(***************************************************************************)
EXTENDS Pipeline, Carriers_proofs

StageFits ==
    /\ stage.verb \in {"none", "and_then", "or_else", "transform", "transform_error"}
    /\ stage.verb = "and_then" =>
          /\ stage.fn \in [Alternatives(carrier.value) -> CarrierTypes]
          /\ and_then_compiles(carrier, stage.fn)
    /\ stage.verb = "or_else" =>
          /\ stage.fn \in [Alternatives(carrier.error) -> FallibleTypes]
          /\ or_else_compiles(carrier, stage.fn)
    /\ stage.verb = "transform" =>
          /\ stage.fn \in [Alternatives(carrier.value) -> ValueSides]
          /\ mapped_side(carrier.value, stage.fn) # Absent
          /\ admits(carrier, mapped_side(carrier.value, stage.fn))
    /\ stage.verb = "transform_error" =>
          /\ ~some_optional(carrier)
          /\ stage.fn \in [Alternatives(carrier.error) -> PayloadSides]
          /\ mapped_side(carrier.error, stage.fn) # Absent

IInv == carrier \in CarrierTypes /\ Fits(carrier, content) /\ StageFits

\* With no functor waiting there is nothing to say of it.
LEMMA NoStageFits ==
    ASSUME stage' = NoStage
    PROVE  StageFits'
BY DEF NoStage, StageFits

\* A carrier that becomes one its content fits keeps the invariant.
LEMMA BecomeFits ==
    ASSUME NEW type \in CarrierTypes, NEW x, Fits(type, x), Become(type, x)
    PROVE  IInv'
<1>1. carrier' = type /\ content' = x /\ stage' = NoStage BY DEF Become
<1>2. Fits(carrier', content') BY <1>1
<1> QED BY <1>1, <1>2, NoStageFits DEF IInv, Fits

(***************************************************************************)
(* The binds.                                                              *)
(***************************************************************************)
Other(which) == IF which = "value" THEN "error" ELSE "value"

Same(x, y) == x.side = y.side /\ x.member = y.member /\ x.token = y.token

\* A bind into a type with room for all branches keeps the invariant, and leaves
\* in the carrier what the callback returned or what was carried past it.
LEMMA BindFits ==
    ASSUME IInv, NEW which \in {"value", "error"}, NEW type \in CarrierTypes,
           stage.fn \in [Alternatives(carrier[which]) -> CarrierTypes],
           Alternatives(carrier[Other(which)]) \subseteq Alternatives(type[Other(which)]),
           \A t \in Alternatives(carrier[which]) : \A w \in {"value", "error"} :
               Alternatives(stage.fn[t][w]) \subseteq Alternatives(type[w]),
           Bind(which, type)
    PROVE  /\ IInv' /\ carrier' = type
           /\ IF content.side = which
              THEN content'.member \in Alternatives(stage.fn[content.member][content'.side])
              ELSE Same(content', content)
<1>1. /\ Fits(carrier, content) /\ content.side \in {"value", "error"}
      /\ Dispatched(carrier, content) = content.member
      /\ content.member \in Alternatives(carrier[content.side])
    BY DispatchedHolds DEF IInv, Fits
<1>2. CASE content.side = which
    <2>1. CalledWith = stage.fn[content.member] /\ CalledWith \in CarrierTypes
        BY <1>1, <1>2 DEF CalledWith
    <2>2. PICK out \in Contents(CalledWith) : Become(type, Widen(out, CalledWith, type))
        BY <1>2 DEF Bind, Flatten
    <2>3. /\ Fits(CalledWith, out) /\ out.side \in {"value", "error"}
          /\ out.member \in Alternatives(CalledWith[out.side])
        BY <2>1, ContentsFit, DispatchedHolds DEF Fits
    <2>4. out.member \in Alternatives(type[out.side])
        BY <1>1, <1>2, <2>1, <2>3
    <2>5. /\ Fits(type, Widen(out, CalledWith, type))
          /\ Same(Widen(out, CalledWith, type), out)
        BY <2>3, <2>4, WidenFits DEF Same
    <2>6. carrier' = type /\ content' = Widen(out, CalledWith, type) BY <2>2 DEF Become
    <2> QED BY <1>2, <2>1, <2>2, <2>3, <2>5, <2>6, BecomeFits DEF Same
<1>3. CASE content.side # which
    <2>1. Become(type, Widen(content, carrier, type)) BY <1>3 DEF Bind, Carry
    <2>2. content.side = Other(which) BY <1>1, <1>3 DEF Other
    <2>3. content.member \in Alternatives(type[content.side]) BY <1>1, <2>2
    <2>4. /\ Fits(type, Widen(content, carrier, type))
          /\ Same(Widen(content, carrier, type), content)
        BY <1>1, <2>3, WidenFits DEF Same
    <2>5. carrier' = type /\ content' = Widen(content, carrier, type) BY <2>1 DEF Become
    <2> QED BY <1>3, <2>1, <2>4, <2>5, BecomeFits
<1> QED BY <1>2, <1>3

\* Every branch of a bind fits into its result type.
LEMMA BranchesUnited ==
    ASSUME NEW D, NEW fn \in [D -> CarrierTypes], NEW t \in D
    PROVE  /\ Alternatives(fn[t].value) \subseteq United(Values(fn))
           /\ Alternatives(fn[t].error) \subseteq United(Errors(fn))
BY DEF United, Values, Errors

\* What has no error side holds a value: the binds and maps of just and choice are
\* those of any carrier.
LEMMA TotalHoldsValue ==
    ASSUME IInv, some_total(carrier)
    PROVE  content.side = "value"
<1>1. Alternatives(carrier["error"]) = {} BY EmptySidesHold DEF some_total
<1>2. content.side \in {"value", "error"} /\ content.member \in Alternatives(carrier[content.side])
    BY DispatchedHolds DEF IInv, Fits
<1> QED BY <1>1, <1>2

\* and_then keeps the invariant: its result type has room for all branches.
LEMMA AndThenFits ==
    ASSUME IInv, AndThen \/ AndThenTotal
    PROVE  /\ IInv' /\ carrier' = and_then_type(carrier, stage.fn)
           /\ IF content.side = "value"
              THEN content'.member \in Alternatives(stage.fn[content.member][content'.side])
              ELSE Same(content', content)
<1> DEFINE type == and_then_type(carrier, stage.fn)
<1>1. /\ carrier \in CarrierTypes /\ stage.fn \in [Alternatives(carrier.value) -> CarrierTypes]
      /\ and_then_compiles(carrier, stage.fn) /\ Bind("value", type)
    BY TotalHoldsValue DEF IInv, StageFits, AndThen, AndThenTotal, Bind
<1>2. /\ type \in CarrierTypes
      /\ Alternatives(type.value) = United(Values(stage.fn))
      /\ Alternatives(type.error) = Alternatives(carrier.error) \cup United(Errors(stage.fn))
    BY <1>1, AndThenTypeHolds
<1>3. \A t \in Alternatives(carrier.value) : \A w \in {"value", "error"} :
          Alternatives(stage.fn[t][w]) \subseteq Alternatives(type[w])
    BY <1>1, <1>2, BranchesUnited
<1>4. Other("value") = "error" BY DEF Other
<1>5. Alternatives(carrier[Other("value")]) \subseteq Alternatives(type[Other("value")])
    BY <1>2, <1>4
<1> HIDE DEF type
<1> QED BY <1>1, <1>2, <1>3, <1>5, BindFits DEF type

\* or_else keeps the invariant: its result type has room for all branches.
LEMMA OrElseFits ==
    ASSUME IInv, OrElse
    PROVE  /\ IInv' /\ carrier' = or_else_type(carrier, stage.fn)
           /\ IF content.side = "error"
              THEN content'.member \in Alternatives(stage.fn[content.member][content'.side])
              ELSE Same(content', content)
<1> DEFINE type == or_else_type(carrier, stage.fn)
<1>1. /\ carrier \in CarrierTypes /\ stage.fn \in [Alternatives(carrier.error) -> FallibleTypes]
      /\ or_else_compiles(carrier, stage.fn) /\ Bind("error", type)
    BY DEF IInv, StageFits, OrElse
<1>2. stage.fn \in [Alternatives(carrier.error) -> CarrierTypes] BY <1>1 DEF FallibleTypes
<1>3. /\ type \in CarrierTypes
      /\ Alternatives(type.value) = Alternatives(carrier.value) \cup United(Values(stage.fn))
      /\ Alternatives(type.error) = United(Errors(stage.fn))
    BY <1>1, OrElseTypeHolds
<1>4. \A t \in Alternatives(carrier.error) : \A w \in {"value", "error"} :
          Alternatives(stage.fn[t][w]) \subseteq Alternatives(type[w])
    BY <1>2, <1>3, BranchesUnited
<1>5. Other("error") = "value" BY DEF Other
<1>6. Alternatives(carrier[Other("error")]) \subseteq Alternatives(type[Other("error")])
    BY <1>3, <1>5
<1> HIDE DEF type
<1> QED BY <1>1, <1>2, <1>3, <1>4, <1>6, BindFits DEF type

(***************************************************************************)
(* The maps.                                                               *)
(***************************************************************************)
LEMMA MapFits ==
    ASSUME IInv, NEW which \in {"value", "error"}, NEW type \in CarrierTypes,
           NEW R \in SUBSET Sides, stage.fn \in [Alternatives(carrier[which]) -> R],
           Alternatives(carrier[Other(which)]) \subseteq Alternatives(type[Other(which)]),
           Alternatives(type[which]) = United(Range(stage.fn)),
           Map(which, type)
    PROVE  /\ IInv' /\ carrier' = type
           /\ IF content.side = which
              THEN /\ content'.side = which
                   /\ content'.member \in Alternatives(stage.fn[content.member])
              ELSE Same(content', content)
<1>1. /\ Fits(carrier, content) /\ content.side \in {"value", "error"}
      /\ Dispatched(carrier, content) = content.member
      /\ content.member \in Alternatives(carrier[content.side])
      /\ carrier = [value |-> carrier.value, error |-> carrier.error]
    BY DispatchedHolds, CarrierFacts DEF IInv, Fits
<1>2. CASE content.side = which
    <2> DEFINE returned == [carrier EXCEPT ![which] = CalledWith]
    <2>1. CalledWith = stage.fn[content.member] /\ CalledWith \in Range(stage.fn)
        BY <1>1, <1>2 DEF CalledWith, Range
    <2>2. PICK out \in Holding(which, CalledWith) : Become(type, Widen(out, returned, type))
        BY <1>2 DEF Map, Wrap
    <2>3. returned[which] = CalledWith /\ CalledWith \in Sides BY <1>1, <2>1 DEF Range
    <2> HIDE DEF returned
    <2>4. Fits(returned, out) /\ out.side = which /\ out.member \in Alternatives(CalledWith)
        BY <2>2, <2>3, HoldingFits, DispatchedHolds
    <2>5. out.member \in Alternatives(type[out.side]) BY <2>1, <2>4 DEF United
    <2>6. /\ Fits(type, Widen(out, returned, type))
          /\ Same(Widen(out, returned, type), out)
        BY <2>4, <2>5, WidenFits DEF Same
    <2>7. carrier' = type /\ content' = Widen(out, returned, type) BY <2>2 DEF Become
    <2> QED BY <1>2, <2>1, <2>2, <2>4, <2>6, <2>7, BecomeFits DEF Same
<1>3. CASE content.side # which
    <2>1. Become(type, Widen(content, carrier, type)) BY <1>3 DEF Map, Carry
    <2>2. content.side = Other(which) BY <1>1, <1>3 DEF Other
    <2>3. content.member \in Alternatives(type[content.side]) BY <1>1, <2>2
    <2>4. /\ Fits(type, Widen(content, carrier, type))
          /\ Same(Widen(content, carrier, type), content)
        BY <1>1, <2>3, WidenFits DEF Same
    <2>5. carrier' = type /\ content' = Widen(content, carrier, type) BY <2>1 DEF Become
    <2> QED BY <1>3, <2>1, <2>4, <2>5, BecomeFits
<1> QED BY <1>2, <1>3

\* transform keeps the invariant.
LEMMA TransformFits ==
    ASSUME IInv, Transform \/ TransformTotal
    PROVE  /\ IInv' /\ carrier' = transform_type(carrier, stage.fn)
           /\ IF content.side = "value"
              THEN /\ content'.side = "value"
                   /\ content'.member \in Alternatives(stage.fn[content.member])
              ELSE Same(content', content)
<1> DEFINE type == transform_type(carrier, stage.fn)
<1>1. /\ carrier \in CarrierTypes /\ stage.fn \in [Alternatives(carrier.value) -> ValueSides]
      /\ mapped_side(carrier.value, stage.fn) # Absent
      /\ admits(carrier, mapped_side(carrier.value, stage.fn))
      /\ Map("value", type)
    BY TotalHoldsValue DEF IInv, StageFits, Transform, TransformTotal, Map
<1>2. /\ type \in CarrierTypes
      /\ Alternatives(type.value) = United(Range(stage.fn)) /\ type.error = carrier.error
    BY <1>1, TransformTypeHolds
<1>3. ValueSides \in SUBSET Sides BY CopacksAreSides
<1>4. Other("value") = "error" BY DEF Other
<1>5. Alternatives(carrier[Other("value")]) \subseteq Alternatives(type[Other("value")])
    BY <1>2, <1>4
<1> HIDE DEF type
<1> QED BY <1>1, <1>2, <1>3, <1>5, MapFits DEF type

\* transform_error keeps the invariant.
LEMMA TransformErrorFits ==
    ASSUME IInv, TransformError
    PROVE  /\ IInv' /\ carrier' = transform_error_type(carrier, stage.fn)
           /\ IF content.side = "error"
              THEN /\ content'.side = "error"
                   /\ content'.member \in Alternatives(stage.fn[content.member])
              ELSE Same(content', content)
<1> DEFINE type == transform_error_type(carrier, stage.fn)
<1>1. /\ carrier \in CarrierTypes /\ stage.fn \in [Alternatives(carrier.error) -> PayloadSides]
      /\ mapped_side(carrier.error, stage.fn) # Absent /\ Map("error", type)
    BY DEF IInv, StageFits, TransformError
<1>2. /\ type \in CarrierTypes
      /\ Alternatives(type.error) = United(Range(stage.fn)) /\ type.value = carrier.value
    BY <1>1, TransformErrorTypeHolds
<1>3. PayloadSides \in SUBSET Sides BY CopacksAreSides
<1>4. Other("error") = "value" BY DEF Other
<1>5. Alternatives(carrier[Other("error")]) \subseteq Alternatives(type[Other("error")])
    BY <1>2, <1>4
<1> HIDE DEF type
<1> QED BY <1>1, <1>2, <1>3, <1>5, MapFits DEF type

(***************************************************************************)
(* The other verbs and the lifts.                                          *)
(***************************************************************************)
LEMMA SwitchFits ==
    ASSUME IInv, NEW side \in {"value", "error"}, Switch(side)
    PROVE  /\ IInv' /\ carrier' = carrier
           /\ content'.side = side /\ content'.member \in Alternatives(carrier[side])
<1>1. PICK x \in Holding(side, carrier[side]) : Become(carrier, x) BY DEF Switch
<1>2. carrier \in CarrierTypes /\ carrier[side] \in Sides BY CarrierFacts DEF IInv
<1>3. Fits(carrier, x) /\ x.side = side /\ x.member \in Alternatives(carrier[side])
    BY <1>2, HoldingFits, DispatchedHolds
<1>4. carrier' = carrier /\ content' = x BY <1>1 DEF Become
<1> QED BY <1>1, <1>2, <1>3, <1>4, BecomeFits

\* A lift keeps the invariant: copack<T> has the alternative of T.
LEMMA LiftFits ==
    ASSUME IInv, NEW which \in {"value", "error"}, LiftSide(which)
    PROVE  /\ IInv' /\ Same(content', content)
           /\ Alternatives(carrier'.value) = Alternatives(carrier.value)
           /\ Alternatives(carrier'.error) = Alternatives(carrier.error)
<1> DEFINE type == [carrier EXCEPT ![which] = Lift(carrier[which])]
<1>1. /\ carrier[which].form = "plain" /\ ~some_total(carrier)
      /\ Become(type, Widen(content, carrier, type))
    BY DEF LiftSide
<1>2. carrier \in CarrierTypes /\ carrier[which] \in Sides BY CarrierFacts DEF IInv
<1>3. Alternatives(carrier[which]) \in SUBSET Types BY <1>1, <1>2, SideForms
<1>4. /\ Lift(carrier[which]) \in Copacks
      /\ Alternatives(Lift(carrier[which])) = Alternatives(carrier[which])
    BY <1>3, CopackHolds DEF Lift, Copacks
<1>5. type \in CarrierTypes
    BY <1>1, <1>2, <1>4, CarrierFacts, CopackForm, CopacksAreSides DEF CarrierTypes, admits, some_optional, some_total
<1>6. /\ Alternatives(type.value) = Alternatives(carrier.value)
      /\ Alternatives(type.error) = Alternatives(carrier.error)
    BY <1>2, <1>4, CarrierFacts
<1>7. Fits(carrier, content) /\ content.side \in {"value", "error"} BY DEF IInv, Fits
<1>8. content.member \in Alternatives(type[content.side]) BY <1>6, <1>7, DispatchedHolds
<1>9. carrier' = type /\ content' = Widen(content, carrier, type) BY <1>1 DEF Become
<1> HIDE DEF type
<1>10. Fits(type, Widen(content, carrier, type)) /\ Same(Widen(content, carrier, type), content)
    BY <1>7, <1>8, WidenFits DEF Same
<1> QED BY <1>1, <1>5, <1>6, <1>9, <1>10, BecomeFits

\* Making a functor that compiles keeps the invariant.
LEMMA MakeFits ==
    ASSUME IInv, MakeAndThen \/ MakeOrElse \/ MakeTransform \/ MakeTransformError
    PROVE  IInv'
<1>1. CASE MakeAndThen BY <1>1 DEF MakeAndThen, Make, IInv, StageFits, Fits
<1>2. CASE MakeOrElse BY <1>2 DEF MakeOrElse, Make, IInv, StageFits, Fits
<1>3. CASE MakeTransform BY <1>3 DEF MakeTransform, Make, IInv, StageFits, Fits, mapped_compiles
<1>4. CASE MakeTransformError
    BY <1>4 DEF MakeTransformError, Make, IInv, StageFits, Fits, mapped_compiles
<1> QED BY <1>1, <1>2, <1>3, <1>4

\* A step that changes nothing keeps the invariant.
LEMMA KeepFits == ASSUME IInv, Keep PROVE IInv'
BY DEF Keep, vars, IInv, StageFits, Fits

(***************************************************************************)
(* Invariance.                                                             *)
(***************************************************************************)
LEMMA InitFits == Init => IInv
BY ContentsFit DEF Init, IInv, StageFits, NoStage

\* The invariant is inductive.
LEMMA NextFits == IInv /\ [Next]_vars => IInv'
<1> SUFFICES ASSUME IInv, [Next]_vars PROVE IInv' OBVIOUS
<1>1. CASE MakeAndThen \/ MakeOrElse \/ MakeTransform \/ MakeTransformError BY <1>1, MakeFits
<1>2. CASE AndThen \/ AndThenTotal BY <1>2, AndThenFits
<1>3. CASE OrElse BY <1>3, OrElseFits
<1>4. CASE Transform \/ TransformTotal BY <1>4, TransformFits
<1>5. CASE TransformError BY <1>5, TransformErrorFits
<1>6. CASE Diverge BY <1>6, KeepFits DEF Diverge
<1>7. CASE Filter BY <1>7, KeepFits, SwitchFits DEF Filter
<1>8. CASE Fail BY <1>8, KeepFits, SwitchFits DEF Fail
<1>9. CASE Recover BY <1>9, KeepFits, SwitchFits DEF Recover
<1>10. CASE ValueOr BY <1>10, KeepFits, SwitchFits DEF ValueOr
<1>11. CASE CopackError BY <1>11, LiftFits DEF CopackError
<1>12. CASE CopackValue BY <1>12, LiftFits DEF CopackValue
<1>13. CASE UNCHANGED vars BY <1>13, KeepFits DEF Keep
<1> QED BY <1>1, <1>2, <1>3, <1>4, <1>5, <1>6, <1>7, <1>8, <1>9, <1>10, <1>11, <1>12, <1>13 DEF Next

\* At every moment of every pipeline the content is content of the type that the
\* compiler computed for the carrier, and a functor about to be applied compiles.
THEOREM Invariant == Spec => []IInv
BY InitFits, NextFits, PTL DEF Spec

\* Whatever verbs a carrier flows through, its type is one that may be named and
\* its content has a place in it.
THEOREM TypeCorrect == Spec => []TypeOK
<1>1. IInv => TypeOK BY DEF IInv, Fits, StageFits, TypeOK
<1> QED BY <1>1, Invariant, PTL

\* The index of a copack names the member that is live, after any sequence of
\* verbs, joins and lifts.
THEOREM IndexAlwaysNames == Spec => []IndexNamesMember
<1>1. IInv => IndexNamesMember BY DispatchedHolds DEF IInv, IndexNamesMember
<1> QED BY <1>1, Invariant, PTL

(***************************************************************************)
(* Grades.                                                                 *)
(***************************************************************************)
LEMMA CopackForIsCopack ==
    ASSUME NEW sides, copack_for(sides) # Absent
    PROVE  some_copack(copack_for(sides))
BY DEF copack_for, some_copack, Copack, Side

\* A graded join of a copack, or with a copack among the branches, is a copack where it exists.
LEMMA GradedJoinKeepsGrade ==
    ASSUME NEW own, NEW sides, graded_join(own, sides) # Absent,
           some_copack(own) \/ \E s \in sides : some_copack(s)
    PROVE  some_copack(graded_join(own, sides))
<1>1. CASE some_copack(own) BY <1>1, CopackForIsCopack DEF graded_join
<1>2. CASE ~some_copack(own)
    <2>1. graded_join(own, sides) = Lift(own) BY <1>2 DEF graded_join
    <2> QED BY <2>1 DEF some_copack, Lift, Copack, Side
<1> QED BY <1>1, <1>2

\* An error side that is graded, or that a branch grades, is a copack in the result of and_then.
LEMMA AndThenKeepsGrade ==
    ASSUME IInv, AndThen \/ AndThenTotal, Graded("error")
    PROVE  \/ some_copack(carrier'.error)
           \/ Alternatives(carrier.error) = {} /\ carrier'.error \in {None, NoError}
<1> DEFINE type == and_then_type(carrier, stage.fn)
<1>1. /\ carrier' = type /\ stage.fn \in [Alternatives(carrier.value) -> CarrierTypes]
      /\ and_then_compiles(carrier, stage.fn)
    BY AndThenFits DEF AndThen, AndThenTotal, IInv, StageFits
<1>2. some_copack(carrier.error) \/ \E s \in Errors(stage.fn) : some_copack(s)
    BY DEF Graded, Errors
<1>3. CASE some_empty_value(carrier)
    <2>1. type = carrier BY <1>3 DEF and_then_type
    <2>2. Alternatives(carrier.value) = {} BY <1>3 DEF some_empty_value, empty_copack
    <2>3. Errors(stage.fn) = {} BY <1>1, <2>2 DEF Errors
    <2> QED BY <1>1, <1>2, <2>1, <2>3
<1>4. CASE ~some_empty_value(carrier)
    <2>1. type.error = joined_error(carrier, stage.fn) /\ type.error # Absent
        BY <1>1, <1>4 DEF and_then_type, and_then_compiles, Exists
    <2>2. CASE some_identity(carrier) /\ Errors(stage.fn) \in {{None}, {NoError}}
        <3>1. type.error \in {None, NoError} BY <2>1, <2>2 DEF joined_error
        <3>2. Alternatives(carrier.error) = {}
            BY <2>2, EmptySidesHold DEF some_identity, some_total, some_empty_error, empty_copack
        <3> QED BY <1>1, <3>1, <3>2
    <2>3. CASE some_total(carrier)
        <3>1. ~some_copack(carrier.error) BY <2>3, EmptySidesHold DEF some_total, some_copack
        <3>2. Errors(stage.fn) = {type.error} \/ type.error \in Copacks
            BY <1>1, <1>4, <2>1, <2>3, JoinedErrorHolds DEF IInv
        <3>3. some_copack(type.error) BY <1>2, <3>1, <3>2, CopackForm DEF some_copack
        <3> QED BY <1>1, <3>3
    <2>4. CASE ~some_total(carrier) /\ ~(some_identity(carrier) /\ Errors(stage.fn) \in {{None}, {NoError}})
        <3>1. type.error = graded_join(carrier.error, Errors(stage.fn)) BY <2>1, <2>4 DEF joined_error
        <3> QED BY <1>1, <1>2, <2>1, <3>1, GradedJoinKeepsGrade
    <2> QED BY <2>2, <2>3, <2>4
<1> QED BY <1>3, <1>4

\* A value side that is graded, or that a branch grades, is a copack in the result of or_else.
LEMMA OrElseKeepsGrade ==
    ASSUME IInv, OrElse, Graded("value")
    PROVE  some_copack(carrier'.value)
<1> DEFINE type == or_else_type(carrier, stage.fn)
<1>1. /\ carrier' = type /\ stage.fn \in [Alternatives(carrier.error) -> FallibleTypes]
      /\ or_else_compiles(carrier, stage.fn)
    BY OrElseFits DEF OrElse, IInv, StageFits
<1>2. some_copack(carrier.value) \/ \E s \in Values(stage.fn) : some_copack(s)
    BY DEF Graded, Values
<1>3. CASE some_empty_error(carrier)
    <2>1. type = carrier BY <1>3 DEF or_else_type
    <2>2. Alternatives(carrier.error) = {} BY <1>3 DEF some_empty_error, empty_copack
    <2>3. Values(stage.fn) = {} BY <1>1, <2>2 DEF Values
    <2> QED BY <1>1, <1>2, <2>1, <2>3
<1>4. CASE ~some_empty_error(carrier)
    <2>1. type.value = graded_join(carrier.value, Values(stage.fn)) BY <1>4 DEF or_else_type
    <2>2. type.value # Absent BY <1>1 DEF or_else_compiles, Exists
    <2> QED BY <1>1, <1>2, <2>1, <2>2, GradedJoinKeepsGrade
<1> QED BY <1>3, <1>4

\* No bind ever turns a graded side back into a plain one, whichever of the three
\* tiers of graded_join answers.
THEOREM GradeIsKept == Spec => GradingNeverDrops
<1>1. IInv /\ [Next]_vars =>
        [/\ stage.verb = "and_then" /\ Graded("error") =>
               \/ some_copack(carrier'.error)
               \/ Alternatives(carrier.error) = {} /\ carrier'.error \in {None, NoError}
         /\ stage.verb = "or_else" /\ Graded("value") => some_copack(carrier'.value)]_vars
    <2> SUFFICES ASSUME IInv, Next, ~UNCHANGED vars
                 PROVE  /\ stage.verb = "and_then" /\ Graded("error") =>
                              \/ some_copack(carrier'.error)
                              \/ Alternatives(carrier.error) = {} /\ carrier'.error \in {None, NoError}
                        /\ stage.verb = "or_else" /\ Graded("value") => some_copack(carrier'.value)
        OBVIOUS
    <2>1. CASE stage.verb = "and_then"
        <3>1. AndThen \/ AndThenTotal
            BY <2>1 DEF Next, MakeAndThen, MakeOrElse, MakeTransform, MakeTransformError, Ready, NoStage,
               OrElse, Transform, TransformTotal, TransformError, Diverge, Keep, Filter, Fail, Recover, ValueOr,
               CopackError, CopackValue, LiftSide
        <3> QED BY <2>1, <3>1, AndThenKeepsGrade
    <2>2. CASE stage.verb = "or_else"
        <3>1. OrElse
            BY <2>2 DEF Next, MakeAndThen, MakeOrElse, MakeTransform, MakeTransformError, Ready, NoStage,
               AndThen, AndThenTotal, Transform, TransformTotal, TransformError, Diverge, Keep, Filter, Fail, Recover, ValueOr,
               CopackError, CopackValue, LiftSide
        <3> QED BY <2>2, <3>1, OrElseKeepsGrade
    <2> QED BY <2>1, <2>2
<1> QED BY <1>1, Invariant, PTL DEF Spec, GradingNeverDrops

(***************************************************************************)
(* The algebra.                                                            *)
(***************************************************************************)
LEMMA ForgottenIs ==
    /\ stage.verb \in {"and_then", "or_else"} =>
          Forgotten = [t \in DOMAIN stage.fn |-> Forget(stage.fn[t])]
    /\ stage.verb \in {"transform", "transform_error"} =>
          Forgotten = [t \in DOMAIN stage.fn |-> Alternatives(stage.fn[t])]
    /\ stage.verb = "none" => Forgotten = stage.fn
BY DEF Forgotten

\* Where no functor waits, none is pending in the abstract pipeline.
LEMMA NothingPending ==
    /\ stage = NoStage => [verb |-> stage.verb, fn |-> Forgotten] = Grades!Nothing
    /\ stage' = NoStage => [verb |-> stage.verb, fn |-> Forgotten]' = Grades!Nothing
BY DEF NoStage, Forgotten, Grades!Nothing

\* The alternatives of a side are types of the abstract universe.
LEMMA SideInUniverse ==
    ASSUME NEW s \in Sides
    PROVE  Alternatives(s) \in SUBSET Grades!Universe
BY SideForms DEF Grades!Universe, Grades!Unit, Unit

\* A carrier's two sets of alternatives are an abstract grade.
LEMMA ForgetGrades ==
    ASSUME NEW c \in CarrierTypes
    PROVE  /\ Alternatives(c.value) \in SUBSET Grades!Universe
           /\ Alternatives(c.error) \in SUBSET Grades!Universe
           /\ Forget(c) \in Grades!Grade
BY CarrierFacts, SideInUniverse DEF Forget, Grades!Grade

\* What is live is one of the outcomes of a set that holds it.
LEMMA LiveOutcome ==
    ASSUME NEW c, NEW x, Fits(c, x), NEW S, x.member \in S
    PROVE  [side |-> x.side, type |-> Dispatched(c, x), token |-> x.token] \in Grades!Outcomes(x.side, S)
<1>1. Dispatched(c, x) = x.member BY DispatchedHolds
<1>2. x.token \in Tokens \cup {Unit} BY DEF Fits, PayloadsOf
<1> QED BY <1>1, <1>2 DEF Grades!Outcomes, Grades!Payloads, Grades!Unit, Unit

\* Content with the same side, member and token is the same abstract content.
LEMMA SameLive ==
    ASSUME IInv, IInv', Same(content', content)
    PROVE  Live' = Live
<1>1. Fits(carrier, content) /\ Fits(carrier', content') BY DEF IInv, Fits
<1>2. Dispatched(carrier, content) = content.member /\ Dispatched(carrier', content') = content'.member
    BY <1>1, DispatchedHolds
<1> QED BY <1>2 DEF Live, Same

\* Initial states map to initial states.
LEMMA InitGraded == Init => Grades!Init
<1> SUFFICES ASSUME Init PROVE Grades!Init OBVIOUS
<1>1. carrier \in CarrierTypes /\ Fits(carrier, content) BY InitFits DEF IInv
<1>2. content.side \in {"value", "error"} /\ content.member \in Alternatives(carrier[content.side])
    BY <1>1, DispatchedHolds DEF Fits
<1>3. Live \in Grades!Outcomes(content.side, Alternatives(carrier[content.side]))
    BY <1>1, <1>2, LiveOutcome DEF Live
<1>4. [verb |-> stage.verb, fn |-> Forgotten] = Grades!Nothing BY NothingPending DEF Init
<1> QED BY <1>1, <1>2, <1>3, <1>4, ForgetGrades DEF Grades!Init

\* Making a functor is asking the callback.
LEMMA AskGraded ==
    ASSUME IInv, MakeAndThen \/ MakeOrElse \/ MakeTransform \/ MakeTransformError
    PROVE  Grades!Ask
<1> DEFINE pending == [verb |-> stage.verb, fn |-> Forgotten]
<1>1. /\ pending = Grades!Nothing
      /\ carrier' = carrier /\ content' = content /\ Live' = Live
    BY NothingPending DEF MakeAndThen, MakeOrElse, MakeTransform, MakeTransformError, Ready, Make, Live
<1>2. carrier \in CarrierTypes BY DEF IInv
<1>3. CASE MakeAndThen
    <2>1. PICK fn \in [Alternatives(carrier.value) -> CarrierTypes] :
              stage' = [verb |-> "and_then", fn |-> fn]
        BY <1>3 DEF MakeAndThen, Make
    <2>2. Forgotten' = [t \in DOMAIN fn |-> Forget(fn[t])] BY <2>1 DEF Forgotten
    <2>3. Forgotten' \in [Alternatives(carrier.value) -> Grades!Grade] BY <2>2, ForgetGrades
    <2>4. pending' \in [verb: {"and_then"}, fn: [Alternatives(carrier.value) -> Grades!Grade]]
        BY <2>1, <2>3
    <2> QED BY <1>1, <2>4 DEF Grades!Ask
<1>4. CASE MakeOrElse
    <2>1. PICK fn \in [Alternatives(carrier.error) -> CarrierTypes] :
              stage' = [verb |-> "or_else", fn |-> fn]
        BY <1>4 DEF MakeOrElse, Make, FallibleTypes
    <2>2. Forgotten' = [t \in DOMAIN fn |-> Forget(fn[t])] BY <2>1 DEF Forgotten
    <2>3. Forgotten' \in [Alternatives(carrier.error) -> Grades!Grade] BY <2>2, ForgetGrades
    <2>4. pending' \in [verb: {"or_else"}, fn: [Alternatives(carrier.error) -> Grades!Grade]]
        BY <2>1, <2>3
    <2> QED BY <1>1, <2>4 DEF Grades!Ask
<1>5. CASE MakeTransform
    <2>1. PICK fn \in [Alternatives(carrier.value) -> Sides] :
              stage' = [verb |-> "transform", fn |-> fn]
        BY <1>5, CopacksAreSides DEF MakeTransform, Make
    <2>2. Forgotten' = [t \in DOMAIN fn |-> Alternatives(fn[t])] BY <2>1 DEF Forgotten
    <2>3. Forgotten' \in [Alternatives(carrier.value) -> SUBSET Grades!Universe]
        BY <2>2, SideInUniverse
    <2>4. pending' \in [verb: {"transform"}, fn: [Alternatives(carrier.value) -> SUBSET Grades!Universe]]
        BY <2>1, <2>3
    <2> QED BY <1>1, <2>4 DEF Grades!Ask
<1>6. CASE MakeTransformError
    <2>1. PICK fn \in [Alternatives(carrier.error) -> Sides] :
              stage' = [verb |-> "transform_error", fn |-> fn]
        BY <1>6, CopacksAreSides DEF MakeTransformError, Make
    <2>2. Forgotten' = [t \in DOMAIN fn |-> Alternatives(fn[t])] BY <2>1 DEF Forgotten
    <2>3. Forgotten' \in [Alternatives(carrier.error) -> SUBSET Grades!Universe]
        BY <2>2, SideInUniverse
    <2>4. pending' \in [verb: {"transform_error"}, fn: [Alternatives(carrier.error) -> SUBSET Grades!Universe]]
        BY <2>1, <2>3
    <2> QED BY <1>1, <2>4 DEF Grades!Ask
<1> QED BY <1>3, <1>4, <1>5, <1>6

\* and_then maps to the abstract and_then.
LEMMA AndThenGraded ==
    ASSUME IInv, AndThen \/ AndThenTotal
    PROVE  Grades!AndThen
<1> DEFINE type == and_then_type(carrier, stage.fn)
<1>1. /\ carrier \in CarrierTypes /\ Fits(carrier, content)
      /\ stage.verb = "and_then" /\ stage.fn \in [Alternatives(carrier.value) -> CarrierTypes]
      /\ and_then_compiles(carrier, stage.fn)
    BY DEF IInv, StageFits, AndThen, AndThenTotal
<1>2. /\ IInv' /\ carrier' = type /\ Fits(carrier', content')
      /\ IF content.side = "value"
         THEN content'.member \in Alternatives(stage.fn[content.member][content'.side])
         ELSE Same(content', content)
    BY AndThenFits DEF IInv, Fits
<1>3. stage' = NoStage BY DEF AndThen, AndThenTotal, Bind, Flatten, Carry, Become
<1>4. Forgotten = [t \in Alternatives(carrier.value) |-> Forget(stage.fn[t])] BY <1>1, ForgottenIs
<1>5. [verb |-> stage.verb, fn |-> Forgotten]' = Grades!Nothing BY <1>3, NothingPending
<1>6. /\ Grades!ValuesOf(Forgotten) = United(Values(stage.fn))
      /\ Grades!ErrorsOf(Forgotten) = United(Errors(stage.fn))
    BY <1>1, <1>4 DEF Grades!ValuesOf, Grades!ErrorsOf, United, Values, Errors, Forget
<1>7. /\ Alternatives(carrier'.value) = United(Values(stage.fn))
      /\ Alternatives(carrier'.error) = Alternatives(carrier.error) \cup United(Errors(stage.fn))
    BY <1>1, <1>2, AndThenTypeHolds
<1>8. CASE content.side = "error"
    <2>1. Live' = Live BY <1>2, <1>8, SameLive
    <2> QED BY <1>1, <1>5, <1>6, <1>7, <1>8, <2>1 DEF Grades!AndThen, Live
<1>9. CASE content.side = "value"
    <2> DEFINE result == Grades!Result
    <2>1. content.member \in Alternatives(carrier.value) /\ Dispatched(carrier, content) = content.member
        BY <1>1, <1>9, DispatchedHolds
    <2>2. result = Forget(stage.fn[content.member]) BY <1>4, <2>1 DEF Grades!Result, Live
    <2>3. content'.side \in {"value", "error"} BY <1>2 DEF Fits
    <2>4. result[content'.side] = Alternatives(stage.fn[content.member][content'.side])
        BY <2>2, <2>3 DEF Forget
    <2>5. Live' \in Grades!Outcomes(content'.side, result[content'.side])
        BY <1>2, <1>9, <2>4, LiveOutcome DEF Live
    <2>6. Live' \in Grades!Outcomes("value", result.value) \cup Grades!Outcomes("error", result.error)
        BY <2>3, <2>5
    <2>7. Live.side = "value" BY <1>9 DEF Live
    <2> HIDE DEF result
    <2> QED BY <1>1, <1>5, <1>6, <1>7, <2>6, <2>7 DEF Grades!AndThen, result
<1>10. content.side \in {"value", "error"} BY <1>1 DEF Fits
<1> QED BY <1>8, <1>9, <1>10

\* or_else maps to the abstract or_else.
LEMMA OrElseGraded ==
    ASSUME IInv, OrElse
    PROVE  Grades!OrElse
<1> DEFINE type == or_else_type(carrier, stage.fn)
<1>1. /\ carrier \in CarrierTypes /\ Fits(carrier, content)
      /\ stage.verb = "or_else" /\ stage.fn \in [Alternatives(carrier.error) -> FallibleTypes]
      /\ or_else_compiles(carrier, stage.fn)
    BY DEF IInv, StageFits, OrElse
<1>2. /\ IInv' /\ carrier' = type /\ Fits(carrier', content')
      /\ IF content.side = "error"
         THEN content'.member \in Alternatives(stage.fn[content.member][content'.side])
         ELSE Same(content', content)
    BY OrElseFits DEF IInv, Fits
<1>3. stage' = NoStage BY DEF OrElse, Bind, Flatten, Carry, Become
<1>4. Forgotten = [t \in Alternatives(carrier.error) |-> Forget(stage.fn[t])] BY <1>1, ForgottenIs
<1>5. [verb |-> stage.verb, fn |-> Forgotten]' = Grades!Nothing BY <1>3, NothingPending
<1>6. /\ Grades!ValuesOf(Forgotten) = United(Values(stage.fn))
      /\ Grades!ErrorsOf(Forgotten) = United(Errors(stage.fn))
    BY <1>1, <1>4 DEF Grades!ValuesOf, Grades!ErrorsOf, United, Values, Errors, Forget
<1>7. /\ Alternatives(carrier'.value) = Alternatives(carrier.value) \cup United(Values(stage.fn))
      /\ Alternatives(carrier'.error) = United(Errors(stage.fn))
    BY <1>1, <1>2, OrElseTypeHolds
<1>8. CASE content.side = "value"
    <2>1. Live' = Live BY <1>2, <1>8, SameLive
    <2> QED BY <1>1, <1>5, <1>6, <1>7, <1>8, <2>1 DEF Grades!OrElse, Live
<1>9. CASE content.side = "error"
    <2> DEFINE result == Grades!Result
    <2>1. content.member \in Alternatives(carrier.error) /\ Dispatched(carrier, content) = content.member
        BY <1>1, <1>9, DispatchedHolds
    <2>2. result = Forget(stage.fn[content.member]) BY <1>4, <2>1 DEF Grades!Result, Live
    <2>3. content'.side \in {"value", "error"} BY <1>2 DEF Fits
    <2>4. result[content'.side] = Alternatives(stage.fn[content.member][content'.side])
        BY <2>2, <2>3 DEF Forget
    <2>5. Live' \in Grades!Outcomes(content'.side, result[content'.side])
        BY <1>2, <1>9, <2>4, LiveOutcome DEF Live
    <2>6. Live' \in Grades!Outcomes("value", result.value) \cup Grades!Outcomes("error", result.error)
        BY <2>3, <2>5
    <2>7. Live.side = "error" BY <1>9 DEF Live
    <2> HIDE DEF result
    <2> QED BY <1>1, <1>5, <1>6, <1>7, <2>6, <2>7 DEF Grades!OrElse, result
<1>10. content.side \in {"value", "error"} BY <1>1 DEF Fits
<1> QED BY <1>8, <1>9, <1>10

\* transform maps to the abstract transform.
LEMMA TransformGraded ==
    ASSUME IInv, Transform \/ TransformTotal
    PROVE  Grades!Transform
<1> DEFINE type == transform_type(carrier, stage.fn)
<1>1. /\ carrier \in CarrierTypes /\ Fits(carrier, content)
      /\ stage.verb = "transform" /\ stage.fn \in [Alternatives(carrier.value) -> ValueSides]
      /\ mapped_side(carrier.value, stage.fn) # Absent
      /\ admits(carrier, mapped_side(carrier.value, stage.fn))
    BY DEF IInv, StageFits, Transform, TransformTotal
<1>2. /\ IInv' /\ carrier' = type /\ Fits(carrier', content')
      /\ IF content.side = "value"
         THEN /\ content'.side = "value"
              /\ content'.member \in Alternatives(stage.fn[content.member])
         ELSE Same(content', content)
    BY TransformFits DEF IInv, Fits
<1>3. stage' = NoStage BY DEF Transform, TransformTotal, Map, Wrap, Carry, Become
<1>4. Forgotten = [t \in Alternatives(carrier.value) |-> Alternatives(stage.fn[t])] BY <1>1, ForgottenIs
<1>5. [verb |-> stage.verb, fn |-> Forgotten]' = Grades!Nothing BY <1>3, NothingPending
<1>6. Grades!United(Forgotten) = United(Range(stage.fn))
    BY <1>1, <1>4 DEF Grades!United, United, Range
<1>7. /\ Alternatives(carrier'.value) = United(Range(stage.fn))
      /\ carrier'.error = carrier.error
    BY <1>1, <1>2, TransformTypeHolds
<1>8. CASE content.side = "error"
    <2>1. Live' = Live BY <1>2, <1>8, SameLive
    <2> QED BY <1>1, <1>5, <1>6, <1>7, <1>8, <2>1 DEF Grades!Transform, Live
<1>9. CASE content.side = "value"
    <2> DEFINE result == Grades!Result
    <2>1. content.member \in Alternatives(carrier.value) /\ Dispatched(carrier, content) = content.member
        BY <1>1, <1>9, DispatchedHolds
    <2>2. result = Alternatives(stage.fn[content.member]) BY <1>4, <2>1 DEF Grades!Result, Live
    <2>3. Live' \in Grades!Outcomes("value", result) BY <1>2, <1>9, <2>2, LiveOutcome DEF Live
    <2>4. Live.side = "value" BY <1>9 DEF Live
    <2> HIDE DEF result
    <2> QED BY <1>1, <1>5, <1>6, <1>7, <2>3, <2>4 DEF Grades!Transform, result
<1>10. content.side \in {"value", "error"} BY <1>1 DEF Fits
<1> QED BY <1>8, <1>9, <1>10

\* transform_error maps to the abstract transform_error.
LEMMA TransformErrorGraded ==
    ASSUME IInv, TransformError
    PROVE  Grades!TransformError
<1> DEFINE type == transform_error_type(carrier, stage.fn)
           R == PayloadSides
<1>1. /\ carrier \in CarrierTypes /\ Fits(carrier, content)
      /\ stage.verb = "transform_error" /\ stage.fn \in [Alternatives(carrier.error) -> R]
      /\ mapped_side(carrier.error, stage.fn) # Absent
    BY DEF IInv, StageFits, TransformError
<1>2. /\ IInv' /\ carrier' = type /\ Fits(carrier', content')
      /\ IF content.side = "error"
         THEN /\ content'.side = "error"
              /\ content'.member \in Alternatives(stage.fn[content.member])
         ELSE Same(content', content)
    BY TransformErrorFits DEF IInv, Fits
<1>3. stage' = NoStage BY DEF TransformError, Map, Wrap, Carry, Become
<1>4. Forgotten = [t \in Alternatives(carrier.error) |-> Alternatives(stage.fn[t])] BY <1>1, ForgottenIs
<1>5. [verb |-> stage.verb, fn |-> Forgotten]' = Grades!Nothing BY <1>3, NothingPending
<1>6. Grades!United(Forgotten) = United(Range(stage.fn))
    BY <1>1, <1>4 DEF Grades!United, United, Range
<1>7. /\ Alternatives(carrier'.error) = United(Range(stage.fn))
      /\ carrier'.value = carrier.value
    BY <1>1, <1>2, TransformErrorTypeHolds
<1>8. CASE content.side = "value"
    <2>1. Live' = Live BY <1>2, <1>8, SameLive
    <2> QED BY <1>1, <1>5, <1>6, <1>7, <1>8, <2>1 DEF Grades!TransformError, Live
<1>9. CASE content.side = "error"
    <2> DEFINE result == Grades!Result
    <2>1. content.member \in Alternatives(carrier.error) /\ Dispatched(carrier, content) = content.member
        BY <1>1, <1>9, DispatchedHolds
    <2>2. result = Alternatives(stage.fn[content.member]) BY <1>4, <2>1 DEF Grades!Result, Live
    <2>3. Live' \in Grades!Outcomes("error", result) BY <1>2, <1>9, <2>2, LiveOutcome DEF Live
    <2>4. Live.side = "error" BY <1>9 DEF Live
    <2> HIDE DEF result
    <2> QED BY <1>1, <1>5, <1>6, <1>7, <2>3, <2>4 DEF Grades!TransformError, result
<1>10. content.side \in {"value", "error"} BY <1>1 DEF Fits
<1> QED BY <1>8, <1>9, <1>10

\* A change of side within one type maps to the abstract switch.
LEMMA SwitchGraded ==
    ASSUME IInv, Ready, NEW side \in {"value", "error"}, Switch(side), content.side = Other(side)
    PROVE  Grades!Switch
<1>1. IInv' /\ carrier' = carrier /\ content'.side = side /\ content'.member \in Alternatives(carrier[side])
    BY SwitchFits
<1>2. Fits(carrier', content') BY <1>1 DEF IInv, Fits
<1>3. Live' \in Grades!Outcomes(side, Alternatives(carrier[side])) BY <1>1, <1>2, LiveOutcome DEF Live
<1>4. stage = NoStage /\ stage' = NoStage BY DEF Ready, Switch, Become
<1>5. /\ [verb |-> stage.verb, fn |-> Forgotten] = Grades!Nothing
      /\ [verb |-> stage.verb, fn |-> Forgotten]' = Grades!Nothing
    BY <1>4, NothingPending
<1>6. Live.side = Other(side) BY DEF Live
<1> QED BY <1>1, <1>3, <1>5, <1>6 DEF Grades!Switch, Grades!Reject, Grades!Restore, Other

\* A step that changes nothing maps to a stutter.
LEMMA KeepGraded == Keep => UNCHANGED Grades!vars
BY DEF Keep, vars, Grades!vars, Live, Forgotten

\* A lift maps to a stutter: the algebra does not tell a plain side from its copack.
LEMMA LiftGraded ==
    ASSUME IInv, NEW which \in {"value", "error"}, LiftSide(which)
    PROVE  UNCHANGED Grades!vars
<1>1. /\ Live' = Live
      /\ Alternatives(carrier'.value) = Alternatives(carrier.value)
      /\ Alternatives(carrier'.error) = Alternatives(carrier.error)
    BY LiftFits, SameLive
<1>2. stage = NoStage /\ stage' = NoStage BY DEF LiftSide, Ready, Become
<1>3. [verb |-> stage.verb, fn |-> Forgotten]' = [verb |-> stage.verb, fn |-> Forgotten]
    BY <1>2, NothingPending
<1> QED BY <1>1, <1>3 DEF Grades!vars

\* Every step of the pipeline maps to an abstract step or to a stutter.
LEMMA NextGraded == IInv /\ [Next]_vars => [Grades!Next]_(Grades!vars)
<1> SUFFICES ASSUME IInv, [Next]_vars PROVE Grades!Next \/ UNCHANGED Grades!vars OBVIOUS
<1> USE DEF Grades!Next
<1>1. CASE MakeAndThen \/ MakeOrElse \/ MakeTransform \/ MakeTransformError BY <1>1, AskGraded
<1>2. CASE AndThen \/ AndThenTotal BY <1>2, AndThenGraded
<1>3. CASE OrElse BY <1>3, OrElseGraded
<1>4. CASE Transform \/ TransformTotal BY <1>4, TransformGraded
<1>5. CASE TransformError BY <1>5, TransformErrorGraded
<1>6. CASE Diverge BY <1>6, KeepGraded DEF Diverge
<1>7. CASE Filter BY <1>7, KeepGraded, SwitchGraded DEF Filter, Other
<1>8. CASE Fail BY <1>8, KeepGraded, SwitchGraded DEF Fail, Other
<1>9. CASE Recover BY <1>9, KeepGraded, SwitchGraded DEF Recover, Other
<1>10. CASE ValueOr BY <1>10, KeepGraded, SwitchGraded DEF ValueOr, Other
<1>11. CASE CopackError BY <1>11, LiftGraded DEF CopackError
<1>12. CASE CopackValue BY <1>12, LiftGraded DEF CopackValue
<1>13. CASE UNCHANGED vars BY <1>13, KeepGraded DEF Keep
<1> QED BY <1>1, <1>2, <1>3, <1>4, <1>5, <1>6, <1>7, <1>8, <1>9, <1>10, <1>11, <1>12, <1>13 DEF Next

\* The verbs as the headers compute them do to the two sides what the algebra of
\* sets says, whatever the alternatives, their order and the shapes of the sides.
THEOREM PipelineImplementsGraded == Spec => ImplementsGraded
BY Invariant, InitGraded, NextGraded, PTL DEF Spec, ImplementsGraded, Grades!Spec
=============================================================================
