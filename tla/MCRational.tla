---------------------------- MODULE MCRational ----------------------------
(***************************************************************************)
(* An int of four bits and a long long of eight.  A program starts from    *)
(* the strings that name a pair of ints and from the extreme long longs.   *)
(***************************************************************************)
EXTENDS Rational

FourBits == -8 .. 7
Extremes == {-128, -127, 127}
Pairs == (FourBits \X FourBits) \cup (Extremes \X (Extremes \cup FourBits)) \cup (FourBits \X Extremes)

Magnitude(n) == IF n < 0 THEN -n ELSE n
CommonDivisors(n, d) == {k \in 1 .. Magnitude(d) : n % k = 0 /\ d % k = 0}
GreatestCommonDivisor(n, d) ==
    CHOOSE g \in CommonDivisors(n, d) : \A k \in CommonDivisors(n, d) : k <= g
=============================================================================
