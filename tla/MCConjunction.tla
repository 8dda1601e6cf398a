---------------------------- MODULE MCConjunction ----------------------------
(***************************************************************************)
(* Three operands.  The values are void, scalars, packs with and without   *)
(* fields and a copack that loses an alternative in every product; the     *)
(* errors agree, differ, are graded or absent.                             *)
(***************************************************************************)
EXTENDS Conjunction

A == Scalar(1)
B == Scalar(2)
Distinct == {A, Pack(<<1>>)}   \* until something is joined to them
TwoTypes == {1, 2}
Errors == {Plain(A), Plain(B), Copack({}), Copack({A})}

OperandTypes == {just(Void), just(Plain(Pack(<<>>))), just(Plain(B)), choice(Distinct)}
                \cup {optional(v) : v \in {Plain(A), Copack({}), Copack(Distinct)}}
                \cup {expected(v, e) : v \in {Void, Plain(A), Copack({}), Copack(Distinct)}, e \in Errors}
=============================================================================
