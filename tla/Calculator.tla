----------------------------- MODULE Calculator -----------------------------
(***************************************************************************)
(* The calculator example: a stack of Numbers, each a long or a double,    *)
(* and a loop that reads a line, folds its tokens over a copy of the stack *)
(* by and_then, and keeps the copy if no token failed.                     *)
(*                                                                         *)
(* long has the values minimum..maximum, and what does not fit overflows.  *)
(* Doubles are opaque: all that is said of their arithmetic is that it     *)
(* yields a finite double or overflows.                                    *)
(***************************************************************************)
EXTENDS Integers, SequencesExt

CONSTANTS maximum,    \* LONG_MAX
          Doubles,    \* the finite doubles,
          ZeroDouble, \* of which this one is zero
          Spelled,    \* the integers that tokens spell, some too large for a long
          MaxDepth,   \* bound: on the stack a line is evaluated on,
          MaxTokens   \* bound: and on the tokens of a line

VARIABLES stack,  \* what main keeps from line to line
          acc,    \* the stack that the fold hands from step to step
          token,  \* the token evaluated last, if any in this line
          error,  \* the error that stopped the fold, or "none"
          count   \* how many tokens were evaluated in this line

vars == <<stack, acc, token, error, count>>

minimum == -maximum - 1
Longs == minimum .. maximum
Long(n) == [type |-> "long", val |-> n]
Double(d) == [type |-> "double", val |-> d]
Number == [type: {"long"}, val: Longs] \cup [type: {"double"}, val: Doubles]
IsZero(n) == n \in {Long(0), Double(ZeroDouble)}

Arithmetic == {"Add", "Sub", "Mul", "Div", "Mod"}
argument_count(op) == IF op \in {"Dup", "Drop"} THEN 1 ELSE 2

ParseErrors == {"UnknownToken"}
StackErrors == {"NotEnoughOperands"}
MathErrors == {"DivisionByZero", "NotIntegral", "Overflow"}
Errors == ParseErrors \cup StackErrors \cup MathErrors

Fails(e) == [error |-> e, results |-> <<>>]
Pushes(s) == [error |-> "none", results |-> s]

(***************************************************************************)
(* Tokens.                                                                 *)
(***************************************************************************)
Operation(op) == [op |-> op, value |-> <<>>]
Integer(n) == [op |-> "integer", value |-> n]
Decimal(d) == [op |-> "decimal", value |-> d]
Bogus == [op |-> "bogus", value |-> <<>>]   \* also "inf", "nan" and "1e999"

Tokens == {Operation(op) : op \in Arithmetic \cup {"Swap", "Dup", "Drop"}}
          \cup {Integer(n) : n \in Spelled} \cup {Decimal(d) : d \in Doubles} \cup {Bogus}

\* The numbers a spelling may denote: an integer that is no long is the double
\* next to it, and never zero.
parse(t) == CASE t.op = "integer" -> IF t.value \in Longs THEN {Long(t.value)}
                                     ELSE {Double(d) : d \in Doubles \ {ZeroDouble}}
              [] t.op = "decimal" -> {Double(t.value)}
              [] OTHER -> {}

(***************************************************************************)
(* Arithmetic in long, where an expression that does not fit is undefined: *)
(* a test that needs one may say anything, and so may a result.            *)
(***************************************************************************)
Magnitude(n) == IF n < 0 THEN -n ELSE n
Sign(n) == IF n < 0 THEN -1 ELSE 1

\* The / and % of the language truncate towards zero.
Quotient(x, y) == Sign(x) * Sign(y) * (Magnitude(x) \div Magnitude(y))
Remainder(x, y) == x - y * Quotient(x, y)

Tested(bound, verdict) == IF bound \in Longs THEN {verdict} ELSE BOOLEAN

overflowsAdd(x, y) == IF y > 0 THEN Tested(maximum - y, x > maximum - y)
                      ELSE Tested(minimum - y, x < minimum - y)

overflowsSub(x, y) == IF y < 0 THEN Tested(maximum + y, x > maximum + y)
                      ELSE Tested(minimum + y, x < minimum + y)

\* Mutant: the bound for two factors that are not positive is divided by y.
overflowsMulByZero(x, y) ==
    IF x > 0 /\ y > 0 THEN Tested(Quotient(maximum, y), x > Quotient(maximum, y))
    ELSE IF x > 0 THEN Tested(Quotient(minimum, x), y < Quotient(minimum, x))
    ELSE IF y > 0 THEN Tested(Quotient(minimum, y), x < Quotient(minimum, y))
    ELSE IF y = 0 THEN {FALSE} ELSE Tested(Quotient(minimum, y), x < Quotient(minimum, y))

overflowsMul(x, y) ==
    IF x > 0 /\ y > 0 THEN Tested(Quotient(maximum, y), x > Quotient(maximum, y))
    ELSE IF x > 0 THEN Tested(Quotient(minimum, x), y < Quotient(minimum, x))
    ELSE IF y > 0 THEN Tested(Quotient(minimum, y), x < Quotient(minimum, y))
    ELSE IF x = 0 THEN {FALSE} ELSE Tested(Quotient(maximum, x), y < Quotient(maximum, x))

overflows(x, y, op) == CASE op = "Add" -> overflowsAdd(x, y) [] op = "Sub" -> overflowsSub(x, y)
                         [] op = "Mul" -> overflowsMul(x, y) [] OTHER -> {x = minimum /\ y = -1}

computed(x, y, op) == CASE op = "Add" -> x + y [] op = "Sub" -> x - y [] op = "Mul" -> x * y
                        [] op = "Div" -> Quotient(x, y) [] op = "Mod" -> Remainder(x, y)

OfLongs(x, y, op) ==
    IF op \in {"Div", "Mod"} /\ y = 0 THEN {Fails("DivisionByZero")}
    ELSE (IF TRUE \in overflows(x, y, op) THEN {Fails("Overflow")} ELSE {})
         \cup (IF FALSE \notin overflows(x, y, op) THEN {}
               ELSE IF computed(x, y, op) \in Longs THEN {Pushes(<<Long(computed(x, y, op))>>)}
               ELSE {Pushes(<<Long(n)>>) : n \in Longs})

\* Mutant: an infinity is a number.
PromotedUnchecked(x, y, op) ==
    CASE op = "Mod" -> {Fails("NotIntegral")}
      [] op = "Div" /\ IsZero(y) -> {Fails("DivisionByZero")}
      [] OTHER -> {Pushes(<<Double(d)>>) : d \in Doubles \cup {"infinity"}}

\* A double anywhere promotes; overload resolution finds no arm of Mod but the
\* one that refuses.
Promoted(x, y, op) ==
    CASE op = "Mod" -> {Fails("NotIntegral")}
      [] op = "Div" /\ IsZero(y) -> {Fails("DivisionByZero")}
      [] OTHER -> {Fails("Overflow")} \cup {Pushes(<<Double(d)>>) : d \in Doubles}

\* What the arm for these operands may return.
execute(op, args) ==
    CASE op = "Drop" -> {Pushes(<<>>)}
      [] op = "Dup" -> {Pushes(<<args[1], args[1]>>)}
      [] op = "Swap" -> {Pushes(<<args[2], args[1]>>)}
      [] OTHER -> IF \A i \in 1 .. 2 : args[i].type = "long"
                  THEN OfLongs(args[1].val, args[2].val, op)
                  ELSE Promoted(args[1], args[2], op)

(***************************************************************************)
(* step, evaluate and main.                                                *)
(***************************************************************************)
\* Mutant: an operand is read and left where it is.
popLeaves(s) == IF s = <<>> THEN [number |-> <<>>, rest |-> s]
                ELSE [number |-> <<Last(s)>>, rest |-> s]

pop(s) == IF s = <<>> THEN [number |-> <<>>, rest |-> s]
          ELSE [number |-> <<Last(s)>>, rest |-> Front(s)]

\* The operands, those there are: the right one is popped first.
Popped(s, n) == LET rhs == pop(s)
                    lhs == pop(rhs.rest)
                IN  CASE n = 0 -> [operands |-> <<>>, rest |-> s]
                      [] n = 1 -> [operands |-> rhs.number, rest |-> rhs.rest]
                      [] n = 2 -> [operands |-> lhs.number \o rhs.number, rest |-> lhs.rest]

Takes(t) == IF t.op \in {"integer", "decimal", "bogus"} THEN 0 ELSE argument_count(t.op)

\* What one token may bring about, given its operands.
step(t, operands) ==
    CASE t.op = "bogus" -> {Fails("UnknownToken")}
      [] t.op \in {"integer", "decimal"} -> {Pushes(<<n>>) : n \in parse(t)}
      [] OTHER -> IF Len(operands) < Takes(t) THEN {Fails("NotEnoughOperands")}
                  ELSE execute(t.op, operands)

NoToken == Operation("none")

Init == /\ stack = <<>> /\ acc = <<>>
        /\ token = NoToken /\ error = "none" /\ count = 0

\* One round of the fold; an error ends it, and and_then skips the rest.
Evaluate(t) == /\ error = "none" /\ count < MaxTokens
               /\ LET popped == Popped(acc, Takes(t))
                  IN  \E r \in step(t, popped.operands) :
                         error' = r.error /\ acc' = popped.rest \o r.results
               /\ Len(acc') <= MaxDepth
               /\ token' = t /\ count' = count + 1
               /\ UNCHANGED stack

\* The end of the line, reached or skipped to: main keeps the result, or reports.
EndLine == /\ count > 0
           /\ stack' = IF error = "none" THEN acc ELSE stack
           /\ acc' = stack'
           /\ token' = NoToken /\ error' = "none" /\ count' = 0

Next == EndLine \/ \E t \in Tokens : Evaluate(t)

Spec == Init /\ [][Next]_vars

(***************************************************************************)
(* Properties.                                                             *)
(***************************************************************************)
\* Every variable keeps its type: a double that is not finite never reaches the
\* stack, nor a long out of range.
TypeOK == /\ stack \in Seq(Number) /\ acc \in Seq(Number)
          /\ token \in Tokens \cup {NoToken}
          /\ error \in Errors \cup {"none"}
          /\ count \in 0 .. MaxTokens

Evaluated == count' = count + 1
OnLongs == /\ Evaluated /\ token'.op \in Arithmetic /\ Len(acc) >= 2
           /\ {acc[Len(acc) - 1].type, Last(acc).type} = {"long"}

\* v is x op y in the integers: the quotient and the remainder as the language
\* defines them, by x = y * quotient + remainder and their signs.
Solves(x, y, op, v) ==
    CASE op = "Add" -> v = x + y
      [] op = "Sub" -> v + y = x
      [] op = "Mul" -> v = x * y
      [] op = "Div" -> Magnitude(x - y * v) < Magnitude(y) /\ (x - y * v) * x >= 0
      [] op = "Mod" -> Magnitude(v) < Magnitude(y) /\ v * x >= 0 /\ (x - v) % Magnitude(y) = 0

\* On two longs the guards are exact, with no expression of theirs overflowing:
\* a number that comes out is the result in the integers, Overflow comes out only
\* where that does not fit (for Mod: where the quotient does not, and the
\* language gives the remainder no meaning), DivisionByZero only of a zero.
Deserved ==
    OnLongs =>
       LET op == token'.op
           x == acc[Len(acc) - 1].val
           y == Last(acc).val
       IN  CASE error' = "none" -> Last(acc').type = "long" /\ Solves(x, y, op, Last(acc').val)
             [] error' = "Overflow" ->
                   ~\E v \in Longs : Solves(x, y, IF op = "Mod" THEN "Div" ELSE op, v)
             [] error' = "DivisionByZero" -> op \in {"Div", "Mod"} /\ y = 0
             [] OTHER -> FALSE

ExactOrRefused == [][Deserved]_vars

\* How many numbers a token leaves on the stack beyond those it found there.
Effect(op) == CASE op \in Arithmetic \cup {"Drop"} -> -1 [] op = "Swap" -> 0 [] OTHER -> 1

\* A token that succeeds puts its results in the place of its operands and leaves
\* what is below them alone; one with too few operands fails, and only it does,
\* although a pop that fails comes after one that did not.
Replaces ==
    Evaluated =>
       /\ error' = "none" => /\ Len(acc') = Len(acc) + Effect(token'.op)
                             /\ \A i \in 1 .. Len(acc) - Takes(token') : acc'[i] = acc[i]
       /\ error' = "NotEnoughOperands" <=> Len(acc) < Takes(token')

OperandsOnly == [][Replaces]_vars
=============================================================================
