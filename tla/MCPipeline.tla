----------------------------- MODULE MCPipeline -----------------------------
(***************************************************************************)
(* Two payload types make four copacks, and with them every shape of side: *)
(* fifty-four carrier types.  The two tokens are interchangeable.          *)
(***************************************************************************)
EXTENDS Pipeline, TLC

CONSTANTS a, b

TwoTypes == {1, 2}
TwoTokens == {a, b}
Symmetry == Permutations(TwoTokens)
=============================================================================
