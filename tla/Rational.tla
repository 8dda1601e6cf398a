------------------------------ MODULE Rational ------------------------------
(***************************************************************************)
(* The Rational of the README: a reduced pair of int, computed in long     *)
(* long, whose only constructor refuses what it cannot represent.          *)
(*                                                                         *)
(* int has the values -Half..Half - 1, and long long has twice its bits.   *)
(***************************************************************************)
EXTENDS Integers

CONSTANTS Half,          \* 2^31
          Numbers,       \* the pairs a program makes a Rational from
          gcd(_, _)      \* std::gcd

Ints == -Half .. Half - 1
LongMin == -2 * Half * Half
Longs == LongMin .. -LongMin - 1

ASSUME WidthAssumption == Half \in Nat \ {0} /\ Numbers \subseteq Longs \X Longs

\* What the standard says of std::gcd, whose precondition is that both
\* magnitudes are representable.
ASSUME GcdAssumption ==
    \A n, d \in Longs \ {LongMin} :
        d # 0 => /\ gcd(n, d) \in Nat \ {0}
                 /\ n % gcd(n, d) = 0 /\ d % gcd(n, d) = 0
                 /\ \A k \in 1 .. -LongMin : n % k = 0 /\ d % k = 0 => k <= gcd(n, d)

VARIABLES x, y,   \* two operands
          op,     \* the operation that was evaluated, if any
          result  \* and its result

vars == <<x, y, op, result>>

(***************************************************************************)
(* expected<Rational, copack_for<DivByZero, NotANumber, Overflow>>.        *)
(***************************************************************************)
Value(n, d) == [kind |-> "value", num |-> n, den |-> d]
Error(e) == [kind |-> e]
Values == [kind: {"value"}, num: Ints, den: Ints]
Errors == [kind: {"DivByZero", "NotANumber", "Overflow"}]
has_value(r) == r.kind = "value"

\* Signed overflow is undefined: anything may come out of an expression one of
\* whose terms does not fit.
Computed(terms, value) == IF terms \cup {value} \subseteq Longs THEN {value} ELSE Longs

\* Mutant: the sign stays where it was.
LowestKeepsSign(n, d) == [num |-> n \div gcd(n, d), den |-> d \div gcd(n, d)]
lowest(n, d) ==
    LET sign == IF d < 0 THEN -1 ELSE 1
    IN  [num |-> sign * (n \div gcd(n, d)), den |-> sign * (d \div gcd(n, d))]

\* Mutants: a denominator is never too large; the largest one is refused.
AnyDenominator(r) == r.num \in Ints
LargestRefused(r) == r.num \in Ints /\ r.den < Half - 1
representable(r) == r.num \in Ints /\ r.den < Half

make(n, d) ==
    IF d = 0 THEN Error("DivByZero")
    ELSE IF LongMin \in {n, d} THEN Error("Overflow")
    ELSE IF representable(lowest(n, d)) THEN Value(lowest(n, d).num, lowest(n, d).den)
    ELSE Error("Overflow")

neg(r) == make(-r.num, r.den)
inv(r) == make(r.den, r.num)

\* Mutant: n_ * other.d_ is computed in int.
AddInInt(r, s) ==
    IF {r.num * s.den, s.num * r.den} \subseteq Ints
    THEN {make(r.num * s.den + s.num * r.den, r.den * s.den)}
    ELSE {make(n, r.den * s.den) : n \in Longs}

\* The results an operation may have: one, unless an expression overflows.
add(r, s) ==
    {make(n, d) : n \in Computed({r.num * s.den, s.num * r.den}, r.num * s.den + s.num * r.den),
                  d \in Computed({}, r.den * s.den)}
mul(r, s) == {make(n, d) : n \in Computed({}, r.num * s.num), d \in Computed({}, r.den * s.den)}
sub(r, s) == IF has_value(neg(s)) THEN add(r, neg(s)) ELSE {neg(s)}
div(r, s) == IF has_value(inv(s)) THEN mul(r, inv(s)) ELSE {inv(s)}

Operations == {"Add", "Sub", "Mul", "Div"}
apply(o, r, s) == CASE o = "Add" -> add(r, s) [] o = "Sub" -> sub(r, s)
                    [] o = "Mul" -> mul(r, s) [] o = "Div" -> div(r, s)

\* The operands are joined by &, which keeps the leftmost error.
evaluate(o, r, s) == IF ~has_value(r) THEN {r} ELSE IF ~has_value(s) THEN {s} ELSE apply(o, r, s)

(***************************************************************************)
(* A program that makes operands, evaluates, and goes on with the result.  *)
(***************************************************************************)
Nothing == Error("nothing")
Made == {make(p[1], p[2]) : p \in Numbers}
Parsed == Made \cup {Error("NotANumber")}

Init == /\ x \in Parsed /\ y \in Parsed
        /\ op = "none" /\ result = Nothing

Evaluate == /\ op = "none"
            /\ op' \in Operations
            /\ result' \in evaluate(op', x, y)
            /\ UNCHANGED <<x, y>>

Replace(r, s) == /\ op # "none"
                 /\ x' = r /\ y' = s
                 /\ op' = "none" /\ result' = Nothing

GoOn == Replace(result, y)
GoOnRight == Replace(x, result)

Next == Evaluate \/ GoOn \/ GoOnRight

Spec == Init /\ [][Next]_vars

(***************************************************************************)
(* Properties.                                                             *)
(***************************************************************************)
\* Every variable keeps its type.
TypeOK ==
    /\ {x, y} \subseteq Values \cup Errors
    /\ op \in Operations \cup {"none"}
    /\ IF op = "none" THEN result = Nothing ELSE result \in Values \cup Errors

\* Every Rational is reduced and has a positive denominator, so that the
\* defaulted operator== compares numbers and not spellings.
Canonical ==
    \A r \in {x, y, result} :
        has_value(r) => /\ r.den > 0
                        /\ \A k \in 1 .. Half : r.num % k = 0 /\ r.den % k = 0 => k = 1

\* The result in numbers, as a fraction that need not be reduced or fit.
Num == CASE op = "Add" -> x.num * y.den + y.num * x.den [] op = "Sub" -> x.num * y.den - y.num * x.den
         [] op = "Mul" -> x.num * y.num [] op = "Div" -> x.num * y.den
Den == IF op = "Div" THEN x.den * y.num ELSE x.den * y.den
Answered == op # "none" /\ has_value(x) /\ has_value(y)

\* A value that comes out of an evaluation is the exact one, whatever was
\* multiplied on the way: no expression in long long overflows.
Exact == Answered /\ has_value(result) => Den # 0 /\ result.num * Den = Num * result.den

\* Overflow is the answer where no Rational is the result, and where none is the
\* negated or the inverted operand that sub and div make first; DivByZero only to a
\* division by zero.
Fits(n, d) == \E p \in Ints, q \in 1 .. Half - 1 : p * d = n * q
Deserved ==
    Answered =>
        CASE result.kind = "DivByZero" -> op = "Div" /\ y.num = 0
          [] result.kind = "Overflow" -> \/ ~Fits(Num, Den)
                                         \/ op = "Sub" /\ ~Fits(-y.num, y.den)
                                         \/ op = "Div" /\ ~Fits(y.den, y.num)
          [] OTHER -> has_value(result)
=============================================================================
