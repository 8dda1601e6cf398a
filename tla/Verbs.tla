------------------------------- MODULE Verbs -------------------------------
(***************************************************************************)
(* What the compiler makes of a verb: the type of the result, and whether  *)
(* there is one.                                                           *)
(***************************************************************************)
EXTENDS Carriers

(***************************************************************************)
(* Result types.  fn is the function from alternatives to what the         *)
(* callback returns for them.  Over an uninhabited side it is empty, and   *)
(* the verb leaves the carrier as it is.                                   *)
(***************************************************************************)
Values(fn) == {fn[t].value : t \in DOMAIN fn}
Errors(fn) == {fn[t].error : t \in DOMAIN fn}
Heterogeneous(fn) == \E s, t \in DOMAIN fn : fn[s] # fn[t]

\* Mutant: branches that agree on their result are the result.
AndThenForgetsOwn(c, fn) ==
    IF some_empty_value(c) THEN c
    ELSE [value |-> list_join(Values(fn)),
          error |-> IF Heterogeneous(fn) THEN graded_join(c.error, Errors(fn)) ELSE list_join(Errors(fn))]

\* Branches without an error side agree, or are choices and have a superset.
SupersetJoins(fn) == Heterogeneous(fn) => \A v \in Values(fn) : some_copack(v)

\* The bind of an identity carrier follows the function: into optional, into just
\* and choice, and from those two into whatever type the branches agree on.
joined_error(c, fn) ==
    CASE some_identity(c) /\ Errors(fn) = {None} -> None
      [] some_identity(c) /\ Errors(fn) = {NoError} -> IF SupersetJoins(fn) THEN NoError ELSE Absent
      [] some_total(c) /\ Errors(fn) \notin {{None}, {NoError}} ->
            IF Heterogeneous(fn) THEN Absent ELSE CHOOSE e \in Errors(fn) : TRUE
      [] OTHER -> graded_join(c.error, Errors(fn))
and_then_type(c, fn) ==
    IF some_empty_value(c) THEN c
    ELSE [value |-> list_join(Values(fn)), error |-> joined_error(c, fn)]

\* Mutant: an error that was handled stays in the grade.
OrElseKeepsErrors(c, fn) ==
    IF some_empty_error(c) THEN c
    ELSE [value |-> graded_join(c.value, Values(fn)), error |-> graded_join(c.error, Errors(fn))]
or_else_type(c, fn) ==
    IF some_empty_error(c) THEN c
    ELSE [value |-> graded_join(c.value, Values(fn)), error |-> list_join(Errors(fn))]

\* A side mapped in place: a plain side becomes what the callback returns, a
\* copack side the copack of all it returns.
mapped_side(side, fn) == IF empty_copack(side) THEN side
                         ELSE IF some_copack(side) THEN copack_for(Range(fn))
                         ELSE list_join(Range(fn))

transform_type(c, fn) == [c EXCEPT !.value = mapped_side(c.value, fn)]
transform_error_type(c, fn) == [c EXCEPT !.error = mapped_side(c.error, fn)]

Exists(c) == Absent \notin {c.value, c.error}
EveryBranchConverts(fn, c) ==
    \A t \in DOMAIN fn : Converts(fn[t].value, c.value) /\ Converts(fn[t].error, c.error)

\* Branches that agree are passed through whole, branches that differ are
\* converted one by one.  So is every branch of an or_else that recovers from a
\* copack of errors into an optional; and optional's own or_else, whose one
\* branch meets its own value, joins only what equals it or starts from a copack.
and_then_compiles(c, fn) ==
    LET type == and_then_type(c, fn)
    IN  Exists(type) /\ (Heterogeneous(fn) => EveryBranchConverts(fn, type))
or_else_compiles(c, fn) ==
    LET type == or_else_type(c, fn)
        joins == some_copack(c.value) \/ type.value = c.value
        converts == Heterogeneous(fn) \/ (some_copack(c.error) /\ some_optional(type))
    IN  /\ Exists(type)
        /\ (some_optional(c) /\ some_optional(type)) => joins
        /\ converts => EveryBranchConverts(fn, type)
mapped_compiles(side, fn, to) ==
    to # Absent /\ (some_copack(side) => \A r \in Range(fn) : Converts(r, to))
=============================================================================
