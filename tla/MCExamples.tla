----------------------------- MODULE MCExamples -----------------------------
(***************************************************************************)
(* The two example programs that compute, the Rational of the README and   *)
(* the calculator, for TLC: a run is a run of one of them, while the other *)
(* stays at a first state.                                                 *)
(*                                                                         *)
(* The calculator has a long of four bits, a double that is zero and one   *)
(* that is not, and tokens for the bounds of a long and one beyond.        *)
(***************************************************************************)
EXTENDS MCRational

CONSTANTS maximum, Doubles, ZeroDouble, Spelled, MaxDepth, MaxTokens, zero, other

\* No width of long makes LONG_MAX negative.
ASSUME CalculatorAssumption == maximum \in Nat /\ MaxTokens \in Nat

VARIABLES program, stack, acc, token, error, count

Calculator == INSTANCE Calculator

TwoDoubles == {zero, other}
Bounds == {-maximum - 1, -2, -1, 0, 2, maximum, maximum + 1}

calculatorVars == <<stack, acc, token, error, count>>
allVars == <<program, vars, calculatorVars>>

ExamplesInit == /\ program \in {"readme", "calculator"}
                /\ Init /\ Calculator!Init
                /\ program = "calculator" => {x, y} = {Error("NotANumber")}

Readme == program = "readme" /\ Next /\ UNCHANGED <<program, calculatorVars>>
Calculates == program = "calculator" /\ Calculator!Next /\ UNCHANGED <<program, vars>>

ExamplesNext == Readme \/ Calculates

ExamplesSpec == ExamplesInit /\ [][ExamplesNext]_allVars

\* Every variable of the calculator keeps its type (calculator.hpp: "a double
\* overflow ... is no number here", and no arm pushes one).
CalculatorTypeOK == Calculator!TypeOK

\* The guards of calculator.hpp's arms on longs are exact, and overflow nowhere
\* themselves.
ExactOrRefused == Calculator!ExactOrRefused

\* A token of the calculator replaces its operands by its results, or fails for
\* want of them.
OperandsOnly == Calculator!OperandsOnly
=============================================================================
