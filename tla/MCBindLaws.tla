----------------------------- MODULE MCBindLaws -----------------------------
(***************************************************************************)
(* Two payload types.  Any carrier is bound.  The branches have values and *)
(* errors that agree, that differ, that grade a plain side and that are    *)
(* empty, and there is one into each of optional, just and choice.         *)
(***************************************************************************)
EXTENDS Exceptions

TwoTypes == {1, 2}
OneToken == {1}
BranchTypes == [value: {Plain(1), Copack({1}), Copack({1, 2})},
                error: {Plain(1), Copack({}), Copack({1}), Copack({2})}]
               \cup {[value |-> Void, error |-> Copack({2})],
                     [value |-> Copack({}), error |-> Copack({1})],
                     [value |-> Plain(1), error |-> None],
                     [value |-> Plain(1), error |-> NoError],
                     [value |-> Copack({1, 2}), error |-> NoError]}
=============================================================================
