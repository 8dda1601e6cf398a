-------------------------- MODULE Examples_proofs --------------------------
(***************************************************************************)
(* The example programs that compute.  For an int of any width, every      *)
(* Rational of the README is canonical, every value an evaluation returns  *)
(* is exact, and every refusal is deserved.  For a long of any width, the  *)
(* guards of the calculator's arms are exact and free of overflow, its     *)
(* stack holds numbers only, and a token touches its operands only.        *)
(***************************************************************************)
EXTENDS MCExamples, FiniteSetTheorems, SequenceTheorems, TLAPS

(***************************************************************************)
(* Arithmetic.                                                             *)
(***************************************************************************)
LEMMA Quotient ==
    ASSUME NEW a \in Int, NEW k \in Nat \ {0}, a % k = 0
    PROVE  a \div k \in Int /\ a = k * (a \div k)
OBVIOUS

LEMMA Multiple ==
    ASSUME NEW a \in Int, NEW q \in Int, NEW k \in Nat \ {0}, a = k * q
    PROVE  a % k = 0
<1>. DEFINE p == a \div k
            m == a % k
<1>1. p \in Int /\ m \in 0 .. k - 1 /\ a = k * p + m
  OBVIOUS
<1>. HIDE DEF p, m
<1>2. m = k * (q - p)
  BY <1>1
<1>3. q - p < 1
  <2>. SUFFICES ASSUME q - p >= 1 PROVE FALSE
    BY <1>1
  <2>1. k * (q - p) >= k
    BY <1>1
  <2>. QED BY <1>1, <1>2, <2>1
<1>4. q - p > -1
  <2>. SUFFICES ASSUME q - p <= -1 PROVE FALSE
    BY <1>1
  <2>1. k * (q - p) <= -k
    BY <1>1
  <2>. QED BY <1>1, <1>2, <2>1
<1>5. m = 0
  BY <1>1, <1>2, <1>3, <1>4
<1>. QED BY <1>5 DEF m

LEMMA Cancel ==
    ASSUME NEW a \in Int, a # 0, NEW b \in Int, NEW c \in Int, a * b = a * c
    PROVE  b = c
OBVIOUS

LEMMA NonZero ==
    ASSUME NEW a \in Int, a # 0, NEW b \in Int, b # 0
    PROVE  a * b # 0
OBVIOUS

LEMMA ProductBound ==
    ASSUME NEW A \in Nat, NEW B \in Nat, NEW a \in Int, NEW b \in Int,
           -A <= a, a <= A, -B <= b, b <= B
    PROVE  a * b \in Int /\ -(A * B) <= a * b /\ a * b <= A * B
<1>1. CASE a >= 0 /\ b >= 0
  BY <1>1
<1>2. CASE a >= 0 /\ b < 0
  <2>1. a * (-b) <= A * B /\ a * (-b) >= 0
    BY <1>2
  <2>. QED BY <2>1
<1>3. CASE a < 0 /\ b >= 0
  <2>1. (-a) * b <= A * B /\ (-a) * b >= 0
    BY <1>3
  <2>. QED BY <2>1
<1>4. CASE a < 0 /\ b < 0
  <2>1. (-a) * (-b) <= A * B /\ (-a) * (-b) >= 0
    BY <1>4
  <2>. QED BY <2>1
<1>. QED BY <1>1, <1>2, <1>3, <1>4

LEMMA Product == \A a, b \in Int : a * b \in Int
OBVIOUS

(***************************************************************************)
(* The least element of a set of naturals, and what it says of fractions.  *)
(***************************************************************************)
\* The initial segments of the naturals are well founded under inclusion.
LEMMA LeastNatural ==
    ASSUME NEW T \in SUBSET Nat, T # {}
    PROVE  \E m \in T : \A n \in T : m <= n
<1>. DEFINE Initial == {0 .. t : t \in T}
<1>1. Initial \subseteq FiniteSubsetsOf(Nat) /\ Initial # {}
  <2>1. ASSUME NEW t \in T PROVE 0 .. t \in SUBSET Nat /\ IsFiniteSet(0 .. t)
    BY FS_Interval
  <2>. QED BY <2>1 DEF FiniteSubsetsOf
<1>2. PICK s \in Initial : \A u \in Initial : <<u, s>> \notin StrictSubsetOrdering(Nat)
  <2>. HIDE DEF Initial
  <2>. QED BY <1>1, FS_StrictSubsetOrderingWellFounded, WFMin, Zenon
<1>3. PICK m \in T : s = 0 .. m
  OBVIOUS
<1>4. ASSUME NEW n \in T, n < m
      PROVE  FALSE
  <2>1. 0 .. n \in SUBSET Nat /\ 0 .. m \in SUBSET Nat
    OBVIOUS
  <2>2. 0 .. n \subseteq 0 .. m /\ m \in 0 .. m /\ m \notin 0 .. n
    BY <1>4
  <2>3. <<0 .. n, 0 .. m>> \in StrictSubsetOrdering(Nat)
    BY <2>1, <2>2, Zenon DEF StrictSubsetOrdering
  <2>. QED BY <1>2, <1>3, <2>3
<1>5. ASSUME NEW n \in T PROVE m <= n
  BY <1>4
<1>. QED BY <1>5

\* No spelling of a reduced fraction has a smaller denominator: the smallest one
\* divides every other.
LEMMA LeastDenominator ==
    ASSUME NEW n \in Int, NEW d \in Nat \ {0}, NEW p \in Int, NEW q \in Nat \ {0},
           \A k \in Nat \ {0} : n % k = 0 /\ d % k = 0 => k = 1,
           p * d = n * q
    PROVE  d <= q
<1>. DEFINE Of(e) == \E m \in Int : m * d = n * e
            T == {e \in Nat \ {0} : Of(e)}
<1>1. q \in T /\ d \in T
  OBVIOUS
<1>2. PICK e \in T : \A t \in T : e <= t
  <2>1. T \in SUBSET Nat /\ T # {}
    BY <1>1
  <2>. HIDE DEF T
  <2>. QED BY <2>1, LeastNatural
<1>3. PICK m \in Int : m * d = n * e
  BY <1>2
<1>4. e \in Nat \ {0} /\ e <= q
  BY <1>1, <1>2
<1>. DEFINE k == d \div e
            r == d % e
<1>5. k \in Int /\ r \in 0 .. e - 1 /\ d = e * k + r
  BY <1>4
<1>. HIDE DEF k, r
<1>6. (m * k) * d = n * (e * k)
  BY <1>3, <1>4, <1>5
<1>7. (n - m * k) * d = n * r
  <2>. DEFINE a == m * k
              b == e * k
  <2>1. a \in Int /\ b \in Int /\ a * d = n * b /\ r = d - b
    BY <1>4, <1>5, <1>6
  <2>. HIDE DEF a, b
  <2>2. (n - a) * d = n * (d - b)
    BY <2>1
  <2>. QED BY <2>1, <2>2 DEF a
<1>8. r = 0
  <2>. SUFFICES ASSUME r # 0 PROVE FALSE
    OBVIOUS
  <2>1. r \in Nat \ {0} /\ n - m * k \in Int /\ r < e
    BY <1>4, <1>5
  <2>2. Of(r)
    <3>. DEFINE w == n - m * k
    <3>1. w \in Int /\ w * d = n * r
      BY <1>7, <2>1
    <3>. HIDE DEF w
    <3>. QED BY <3>1
  <2>3. r \in T
    BY <2>1, <2>2
  <2>. HIDE DEF T
  <2>. QED BY <1>2, <1>4, <2>1, <2>3
<1>9. d = e * k /\ k \in Nat \ {0}
  <2>1. d = e * k
    BY <1>4, <1>5, <1>8
  <2>2. k >= 1
    <3>. SUFFICES ASSUME k <= 0 PROVE FALSE
      BY <1>5
    <3>1. e * k <= 0
      BY <1>4, <1>5
    <3>. QED BY <2>1, <3>1
  <2>. QED BY <2>1, <2>2, <1>5
<1>10. n = k * m
  <2>1. e * n = e * (k * m)
    BY <1>3, <1>4, <1>9
  <2>. DEFINE a == k * m
  <2>2. a \in Int /\ e \in Int /\ e # 0 /\ e * n = e * a
    BY <1>4, <1>5, <2>1
  <2>. HIDE DEF a
  <2>3. n = a
    BY <2>2, Cancel
  <2>. QED BY <2>3 DEF a
<1>11. n % k = 0 /\ d % k = 0
  <2>1. d = k * e /\ e \in Int
    BY <1>4, <1>9
  <2>. QED BY <1>9, <1>10, <2>1, Multiple
<1>12. k = 1
  BY <1>9, <1>11
<1>. QED BY <1>4, <1>9, <1>12

(***************************************************************************)
(* The range of long long.                                                 *)
(***************************************************************************)
LEMMA Width == /\ Half \in Nat /\ Half >= 1 /\ LongMin \in Int
               /\ Ints \subseteq Int /\ Longs \subseteq Int
               /\ Half <= Half * Half /\ LongMin = -(2 * (Half * Half))
               /\ \A n \in Int : n \in Longs <=> LongMin <= n /\ n <= -LongMin - 1
<1>1. Half \in Nat /\ Half >= 1
  BY WidthAssumption
<1>2. Half <= Half * Half
  BY <1>1
<1>3. LongMin = -(2 * (Half * Half))
  BY <1>1 DEF LongMin
<1>. QED BY <1>1, <1>2, <1>3 DEF Ints, Longs

LEMMA IntsAreLongs == ASSUME NEW n \in Int, -Half <= n, n <= Half PROVE n \in Longs \ {LongMin}
<1>. DEFINE square == Half * Half
<1>1. square \in Int /\ Half <= square /\ LongMin = -(2 * square) /\ Half \in Nat /\ Half >= 1
  BY Width
<1>. HIDE DEF square
<1>. QED BY <1>1, Width

\* What makes the computation of two products and their sum safe.
LEMMA ProductFits ==
    ASSUME NEW n \in Ints, NEW d \in 1 .. Half - 1
    PROVE  n * d \in Int /\ -(Half * Half) < n * d /\ n * d < Half * Half
<1>1. Half \in Nat /\ Half - 1 \in Nat /\ -Half <= n /\ n <= Half /\ n \in Int
  BY Width DEF Ints
<1>2. d \in Int /\ -(Half - 1) <= d /\ d <= Half - 1
  BY <1>1
<1>3. n * d \in Int /\ -(Half * (Half - 1)) <= n * d /\ n * d <= Half * (Half - 1)
  BY ProductBound, <1>1, <1>2
<1>4. Half * (Half - 1) = Half * Half - Half
  BY <1>1
<1>. QED BY <1>1, <1>3, <1>4, Width

LEMMA SquareFits ==
    ASSUME NEW n \in Ints, NEW m \in Ints
    PROVE  n * m \in Longs \ {LongMin}
<1>1. Half \in Nat /\ -Half <= n /\ n <= Half /\ n \in Int /\ -Half <= m /\ m <= Half /\ m \in Int
  BY Width DEF Ints
<1>2. n * m \in Int /\ -(Half * Half) <= n * m /\ n * m <= Half * Half
  BY ProductBound, <1>1
<1>3. LongMin < n * m /\ n * m <= -LongMin - 1
  <2>. DEFINE square == Half * Half
              product == n * m
  <2>1. square \in Int /\ 1 <= square /\ LongMin = -(2 * square) /\ product \in Int
        /\ -square <= product /\ product <= square
    BY Width, <1>2
  <2>. HIDE DEF square, product
  <2>2. LongMin < product /\ product <= -LongMin - 1
    BY <2>1
  <2>. QED BY <2>2 DEF product
<1>. DEFINE product == n * m
<1>. HIDE DEF product
<1>4. product \in Int /\ LongMin < product /\ product <= -LongMin - 1 => product \in Longs \ {LongMin}
  BY Width
<1>. QED BY <1>2, <1>3, <1>4 DEF product

LEMMA SumFits ==
    ASSUME NEW n \in Ints, NEW d \in 1 .. Half - 1, NEW m \in Ints, NEW e \in 1 .. Half - 1
    PROVE  /\ n * e \in Longs /\ m * d \in Longs
           /\ n * e + m * d \in Longs \ {LongMin} /\ d * e \in Longs \ {LongMin}
<1>. DEFINE square == Half * Half
            p == n * e
            q == m * d
<1>1. p \in Int /\ -square < p /\ p < square
  BY ProductFits
<1>2. q \in Int /\ -square < q /\ q < square
  BY ProductFits
<1>3. square \in Int /\ 1 <= square /\ LongMin = -(2 * square)
  BY Width
<1>4. d * e \in Longs \ {LongMin}
  BY SquareFits, Width DEF Ints
<1>. HIDE DEF square, p, q
<1>5. p \in Longs /\ q \in Longs /\ p + q \in Longs \ {LongMin}
  BY <1>1, <1>2, <1>3, Width
<1>. QED BY <1>4, <1>5 DEF p, q

(***************************************************************************)
(* make.                                                                   *)
(***************************************************************************)
Reduced(n, d) == \A k \in Nat \ {0} : n % k = 0 /\ d % k = 0 => k = 1
Denotes(r, n, d) == /\ r.num \in Ints /\ r.den \in 1 .. Half - 1 /\ Reduced(r.num, r.den)
                    /\ d # 0 /\ r.num * d = n * r.den
Outcome(r, n, d) == /\ r \in Values \cup Errors
                    /\ has_value(r) => Denotes(r, n, d)

LEMMA Shapes == /\ \A r \in Values : has_value(r) /\ r.num \in Ints /\ r.den \in Ints
                /\ \A r \in Errors : ~has_value(r)
                /\ \A n, d \in Ints : Value(n, d) \in Values /\ Value(n, d).num = n /\ Value(n, d).den = d
                /\ \A e \in {"DivByZero", "NotANumber", "Overflow"} : Error(e) \in Errors
                /\ ~has_value(Nothing)
BY DEF Values, Errors, has_value, Value, Error, Nothing

\* The greatest common divisor leaves nothing in common: a divisor of both
\* quotients would make it greater.
LEMMA QuotientsReduced ==
    ASSUME NEW n \in Longs \ {LongMin}, NEW d \in Longs \ {LongMin}, d # 0,
           NEW sign \in {-1, 1}, NEW num \in Int, NEW den \in Int,
           num = sign * (n \div gcd(n, d)), den = sign * (d \div gcd(n, d))
    PROVE  /\ num * d = n * den
           /\ Reduced(num, den)
<1>. DEFINE g == gcd(n, d)
<1>1. /\ g \in Nat \ {0} /\ n % g = 0 /\ d % g = 0
      /\ \A k \in 1 .. -LongMin : n % k = 0 /\ d % k = 0 => k <= g
  BY GcdAssumption
<1>2. n \in Int /\ d \in Int /\ LongMin \in Int /\ d <= -LongMin /\ -d <= -LongMin
  BY Width
<1>. HIDE DEF g
<1>3. /\ n \div g \in Int /\ n = g * (n \div g)
      /\ d \div g \in Int /\ d = g * (d \div g)
  BY <1>1, <1>2, Quotient
<1>4. n = g * (sign * num) /\ d = g * (sign * den)
  <2>1. num = sign * (n \div g) /\ den = sign * (d \div g)
    BY DEF g
  <2>. QED BY <2>1, <1>3
<1>5. num * d = n * den
  BY <1>1, <1>4
<1>6. ASSUME NEW k \in Nat \ {0}, num % k = 0, den % k = 0
      PROVE  k = 1
  <2>1. k \in Nat \ {0}
    OBVIOUS
  <2>2. PICK a \in Int : num = k * a
    BY <2>1, <1>6, Quotient
  <2>3. PICK b \in Int : den = k * b
    BY <2>1, <1>6, Quotient
  <2>. DEFINE h == g * k
              n1 == sign * a
              d1 == sign * b
  <2>4. h \in Nat \ {0} /\ n1 \in Int /\ d1 \in Int
    <3>1. h \in Int /\ h > 0
      BY <1>1, <2>1
    <3>. QED BY <3>1
  <2>5. n = h * n1 /\ d = h * d1
    BY <1>1, <1>4, <2>1, <2>2, <2>3
  <2>6. h <= -LongMin
    <3>. HIDE DEF h, d1
    <3>1. d1 # 0
      BY <2>4, <2>5
    <3>2. CASE d1 >= 1
      <4>1. h * d1 >= h
        BY <2>4, <3>2
      <4>. QED BY <4>1, <2>4, <2>5, <1>2
    <3>3. CASE d1 <= -1
      <4>1. h * d1 <= -h
        BY <2>4, <3>3
      <4>. QED BY <4>1, <2>4, <2>5, <1>2
    <3>. QED BY <3>1, <3>2, <3>3, <2>4
  <2>7. n % h = 0 /\ d % h = 0
    <3>. HIDE DEF h, n1, d1
    <3>. QED BY <2>4, <2>5, <1>2, Multiple
  <2>8. h <= g
    <3>. HIDE DEF h, n1, d1
    <3>1. h \in 1 .. -LongMin
      BY <1>2, <2>4, <2>6
    <3>. QED BY <1>1, <2>7, <3>1, Zenon
  <2>. QED BY <2>8, <2>1, <1>1
<1>. QED BY <1>5, <1>6 DEF Reduced

\* What the constructor reduces a fraction to.
LEMMA LowestTerms ==
    ASSUME NEW n \in Longs \ {LongMin}, NEW d \in Longs \ {LongMin}, d # 0
    PROVE  /\ lowest(n, d).num \in Int /\ lowest(n, d).den \in Nat \ {0}
           /\ lowest(n, d).num * d = n * lowest(n, d).den
           /\ Reduced(lowest(n, d).num, lowest(n, d).den)
<1>. DEFINE sign == IF d < 0 THEN -1 ELSE 1
            num == sign * (n \div gcd(n, d))
            den == sign * (d \div gcd(n, d))
<1>1. lowest(n, d).num = num /\ lowest(n, d).den = den
  BY DEF lowest
<1>2. n \in Int /\ d \in Int /\ sign \in {-1, 1} /\ gcd(n, d) \in Nat \ {0}
      /\ n % gcd(n, d) = 0 /\ d % gcd(n, d) = 0
  BY Width, GcdAssumption
<1>3. /\ n \div gcd(n, d) \in Int
      /\ d \div gcd(n, d) \in Int /\ d = gcd(n, d) * (d \div gcd(n, d))
  BY <1>2, Quotient
<1>4. num \in Int /\ den \in Int
  BY <1>2, <1>3
<1>5. den >= 1
  <2>. DEFINE g == gcd(n, d)
              q == d \div g
  <2>1. g \in Nat \ {0} /\ q \in Int /\ d = g * q
    BY <1>2, <1>3
  <2>. HIDE DEF g, q
  <2>2. IF d < 0 THEN q <= -1 ELSE q >= 1
    BY <1>2, <2>1
  <2>3. den = IF d < 0 THEN -q ELSE q
    BY <1>3 DEF g, q
  <2>. QED BY <2>1, <2>2, <2>3
<1>6. num * d = n * den /\ Reduced(num, den)
  <2>. HIDE DEF sign
  <2>. QED BY <1>2, <1>4, QuotientsReduced
<1>. HIDE DEF num, den
<1>. QED BY <1>1, <1>4, <1>5, <1>6

LEMMA MakeHolds ==
    ASSUME NEW n \in Longs, NEW d \in Longs
    PROVE  Outcome(make(n, d), n, d)
<1>1. CASE d = 0
  BY <1>1, Shapes DEF make, Outcome
<1>2. CASE d # 0 /\ LongMin \in {n, d}
  BY <1>2, Shapes DEF make, Outcome
<1>3. CASE d # 0 /\ LongMin \notin {n, d}
  <2>. DEFINE num == lowest(n, d).num
              den == lowest(n, d).den
              r == make(n, d)
  <2>1. r = IF num \in Ints /\ den < Half THEN Value(num, den) ELSE Error("Overflow")
    BY <1>3 DEF make, representable
  <2>2. num \in Int /\ den \in Nat \ {0} /\ num * d = n * den /\ Reduced(num, den)
    BY <1>3, LowestTerms
  <2>. HIDE DEF num, den, r
  <2>3. CASE num \in Ints /\ den < Half
    <3>1. den \in 1 .. Half - 1 /\ den \in Ints
      BY <2>2, <2>3, Width DEF Ints
    <3>2. r \in Values /\ r.num = num /\ r.den = den
      BY <2>1, <2>3, <3>1, Shapes
    <3>3. Denotes(r, n, d)
      BY <3>1, <3>2, <2>2, <2>3, <1>3 DEF Denotes
    <3>4. Outcome(r, n, d)
      BY <3>2, <3>3 DEF Outcome
    <3>. QED BY <3>4 DEF r
  <2>4. CASE ~(num \in Ints /\ den < Half)
    <3>1. Outcome(r, n, d)
      BY <2>1, <2>4, Shapes DEF Outcome
    <3>. QED BY <3>1 DEF r
  <2>. QED BY <2>3, <2>4
<1>. QED BY <1>1, <1>2, <1>3

(***************************************************************************)
(* What make refuses.                                                      *)
(***************************************************************************)
Owed(r, n, d) == /\ r.kind \in {"value", "DivByZero", "Overflow"}
                 /\ r.kind = "DivByZero" => d = 0
                 /\ r.kind = "Overflow" => ~Fits(n, d)

\* Another spelling of a fraction that fits is at least as large, and fits.
LEMMA ReducedFits ==
    ASSUME NEW num \in Int, NEW den \in Nat \ {0}, Reduced(num, den), Fits(num, den)
    PROVE  num \in Ints /\ den < Half
<1>1. PICK p \in Ints, q \in 1 .. Half - 1 : p * den = num * q
  BY DEF Fits
<1>2. p \in Int /\ -Half <= p /\ p <= Half - 1 /\ q \in Nat \ {0} /\ q < Half
      /\ Half \in Nat /\ Half >= 1
  BY Width DEF Ints
<1>3. den <= q
  BY <1>1, <1>2, LeastDenominator DEF Reduced
<1>4. num <= Half - 1
  <2>. SUFFICES ASSUME num >= Half PROVE FALSE
    BY <1>2
  <2>1. num * q > p * q
    BY <1>2
  <2>2. p > 0
    <3>. SUFFICES ASSUME p <= 0 PROVE FALSE
      BY <1>2
    <3>1. p * den <= 0 /\ num * q > 0
      BY <1>2
    <3>. QED BY <1>1, <3>1
  <2>3. p * den <= p * q
    BY <1>2, <1>3, <2>2
  <2>. DEFINE a == num * q
              b == p * q
              c == p * den
  <2>4. a \in Int /\ b \in Int /\ c \in Int /\ a > b /\ c <= b /\ c = a
    BY <1>1, <1>2, <2>1, <2>3
  <2>. HIDE DEF a, b, c
  <2>. QED BY <2>4
<1>5. num >= -Half
  <2>. SUFFICES ASSUME num < -Half PROVE FALSE
    BY <1>2
  <2>1. num * q < p * q
    BY <1>2
  <2>2. p < 0
    <3>. SUFFICES ASSUME p >= 0 PROVE FALSE
      BY <1>2
    <3>1. p * den >= 0 /\ num * q < 0
      BY <1>2
    <3>. QED BY <1>1, <3>1
  <2>3. p * den >= p * q
    BY <1>2, <1>3, <2>2
  <2>. DEFINE a == num * q
              b == p * q
              c == p * den
  <2>4. a \in Int /\ b \in Int /\ c \in Int /\ a < b /\ c >= b /\ c = a
    BY <1>1, <1>2, <2>1, <2>3
  <2>. HIDE DEF a, b, c
  <2>. QED BY <2>4
<1>. QED BY <1>2, <1>3, <1>4, <1>5 DEF Ints

\* Whether a fraction fits does not depend on how it is spelled.
LEMMA FitsSame ==
    ASSUME NEW n \in Int, NEW d \in Int, d # 0, NEW m \in Int, NEW e \in Int,
           m * d = n * e, Fits(n, d)
    PROVE  Fits(m, e)
<1>1. PICK p \in Ints, q \in 1 .. Half - 1 : p * d = n * q
  BY DEF Fits
<1>2. p \in Int /\ q \in Int
  BY Width
<1>. DEFINE left == p * e
            right == m * q
<1>3. left \in Int /\ right \in Int
  BY <1>2
<1>4. d * left = (p * d) * e
  BY <1>2
<1>5. d * right = (m * d) * q
  BY <1>2
<1>6. (n * q) * e = (n * e) * q
  BY <1>2
<1>7. d * left = d * right
  BY <1>1, <1>4, <1>5, <1>6
<1>. HIDE DEF left, right
<1>8. left = right
  BY <1>3, <1>7, Cancel
<1>9. p * e = m * q
  BY <1>8 DEF left, right
<1>. QED BY <1>9 DEF Fits

LEMMA MakeOwed ==
    ASSUME NEW n \in Longs \ {LongMin}, NEW d \in Longs \ {LongMin}
    PROVE  Owed(make(n, d), n, d)
<1>1. CASE d = 0
  BY <1>1 DEF make, Owed, Error
<1>2. CASE d # 0
  <2>. DEFINE num == lowest(n, d).num
              den == lowest(n, d).den
              r == make(n, d)
  <2>1. r = IF num \in Ints /\ den < Half THEN Value(num, den) ELSE Error("Overflow")
    BY <1>2 DEF make, representable
  <2>2. num \in Int /\ den \in Nat \ {0} /\ num * d = n * den /\ Reduced(num, den)
    BY <1>2, LowestTerms
  <2>. HIDE DEF num, den, r
  <2>3. ASSUME Fits(n, d) PROVE num \in Ints /\ den < Half
    <3>1. n \in Int /\ d \in Int
      BY Width
    <3>2. Fits(num, den)
      BY <1>2, <2>2, <2>3, <3>1, FitsSame
    <3>. QED BY <2>2, <3>2, ReducedFits
  <2>4. Owed(r, n, d)
    BY <2>1, <2>3 DEF Owed, Value, Error
  <2>. QED BY <2>4 DEF r
<1>. QED BY <1>1, <1>2

(***************************************************************************)
(* The operations.                                                         *)
(***************************************************************************)
IsRational(r) == /\ r \in Values /\ r.den \in 1 .. Half - 1 /\ Reduced(r.num, r.den)
IsResult(r) == r \in Values \cup Errors /\ (has_value(r) => IsRational(r))

LEMMA Parts == ASSUME NEW r, IsRational(r)
               PROVE  /\ r.num \in Ints /\ r.num \in Int /\ -Half <= r.num /\ r.num <= Half
                      /\ r.den \in 1 .. Half - 1 /\ r.den \in Int /\ r.den > 0 /\ r.den \in Ints
                      /\ {r.num, -r.num, r.den} \subseteq Longs \ {LongMin}
<1>1. r.num \in Ints /\ r.den \in 1 .. Half - 1
  BY Shapes DEF IsRational
<1>2. /\ r.num \in Int /\ -Half <= r.num /\ r.num <= Half
      /\ r.den \in Int /\ r.den > 0 /\ r.den < Half /\ r.den \in Ints
  BY <1>1, Width DEF Ints
<1>3. {r.num, -r.num, r.den} \subseteq Longs \ {LongMin}
  BY <1>2, Width, IntsAreLongs
<1>. QED BY <1>1, <1>2, <1>3

LEMMA OutcomeIsResult ==
    ASSUME NEW r, NEW n, NEW d, Outcome(r, n, d)
    PROVE  IsResult(r)
BY Shapes DEF Outcome, Denotes, IsResult, IsRational

LEMMA AddHolds ==
    ASSUME NEW r, NEW s, IsRational(r), IsRational(s), NEW t \in add(r, s)
    PROVE  /\ Outcome(t, r.num * s.den + s.num * r.den, r.den * s.den)
           /\ Owed(t, r.num * s.den + s.num * r.den, r.den * s.den)
<1>1. /\ r.num * s.den \in Longs /\ s.num * r.den \in Longs
      /\ r.num * s.den + s.num * r.den \in Longs \ {LongMin} /\ r.den * s.den \in Longs \ {LongMin}
  BY Parts, SumFits
<1>2. t = make(r.num * s.den + s.num * r.den, r.den * s.den)
  BY <1>1 DEF add, Computed
<1>. QED BY <1>1, <1>2, MakeHolds, MakeOwed

LEMMA MulHolds ==
    ASSUME NEW r, NEW s, IsRational(r), IsRational(s), NEW t \in mul(r, s)
    PROVE  /\ Outcome(t, r.num * s.num, r.den * s.den)
           /\ Owed(t, r.num * s.num, r.den * s.den)
<1>1. r.num * s.num \in Longs \ {LongMin} /\ r.den * s.den \in Longs \ {LongMin}
  BY Parts, SquareFits
<1>2. t = make(r.num * s.num, r.den * s.den)
  BY <1>1 DEF mul, Computed
<1>. QED BY <1>1, <1>2, MakeHolds, MakeOwed

LEMMA NegHolds ==
    ASSUME NEW s, IsRational(s)
    PROVE  Outcome(neg(s), -s.num, s.den) /\ Owed(neg(s), -s.num, s.den)
BY Parts, MakeHolds, MakeOwed DEF neg

LEMMA InvHolds ==
    ASSUME NEW s, IsRational(s)
    PROVE  Outcome(inv(s), s.den, s.num) /\ Owed(inv(s), s.den, s.num)
BY Parts, MakeHolds, MakeOwed DEF inv

\* An operand replaced by its negation or its inverse: the detour does not show.
SameFraction(tn, td, n, d) == tn * d = n * td

LEMMA ExactDifference ==
    ASSUME NEW rn \in Int, NEW rd \in Int, NEW sn \in Int, NEW sd \in Int,
           NEW yn \in Int, NEW yd \in Int, NEW tn \in Int, NEW td \in Int, yd # 0,
           SameFraction(yn, yd, -sn, sd), SameFraction(tn, td, rn * yd + yn * rd, rd * yd)
    PROVE  SameFraction(tn, td, rn * sd - sn * rd, rd * sd)
<1>. USE DEF SameFraction
<1>. DEFINE left == tn * (rd * sd)
            right == (rn * sd - sn * rd) * td
<1>1. left \in Int /\ right \in Int
  OBVIOUS
<1>2. yd * left = (tn * (rd * yd)) * sd
  OBVIOUS
<1>3. yd * right = ((rn * yd) * sd + ((-sn) * yd) * rd) * td
  OBVIOUS
<1>4. ((rn * yd) * sd + (yn * sd) * rd) * td = ((rn * yd + yn * rd) * td) * sd
  OBVIOUS
<1>5. yd * left = yd * right
  BY <1>2, <1>3, <1>4
<1>. HIDE DEF left, right
<1>6. left = right
  BY <1>1, <1>5, Cancel
<1>. QED BY <1>6 DEF left, right

LEMMA ExactQuotient ==
    ASSUME NEW rn \in Int, NEW rd \in Int, NEW sn \in Int, NEW sd \in Int,
           NEW yn \in Int, NEW yd \in Int, NEW tn \in Int, NEW td \in Int, yd # 0,
           SameFraction(yn, yd, sd, sn), SameFraction(tn, td, rn * yn, rd * yd)
    PROVE  SameFraction(tn, td, rn * sd, rd * sn)
<1>. USE DEF SameFraction
<1>. DEFINE left == tn * (rd * sn)
            right == (rn * sd) * td
<1>1. left \in Int /\ right \in Int
  OBVIOUS
<1>2. yd * left = (tn * (rd * yd)) * sn
  OBVIOUS
<1>3. yd * right = (rn * (sd * yd)) * td
  OBVIOUS
<1>4. (rn * (yn * sn)) * td = ((rn * yn) * td) * sn
  OBVIOUS
<1>5. yd * left = yd * right
  BY <1>2, <1>3, <1>4
<1>. HIDE DEF left, right
<1>6. left = right
  BY <1>1, <1>5, Cancel
<1>. QED BY <1>6 DEF left, right

LEMMA DenotesFraction ==
    ASSUME NEW r, NEW n, NEW d, Outcome(r, n, d), has_value(r)
    PROVE  r.num \in Int /\ r.den \in Int /\ SameFraction(r.num, r.den, n, d)
<1>1. Denotes(r, n, d)
  BY DEF Outcome
<1>2. r.num \in Ints /\ r.den \in 1 .. Half - 1
  BY <1>1 DEF Denotes
<1>3. SameFraction(r.num, r.den, n, d)
  BY <1>1, Zenon DEF Denotes, SameFraction
<1>4. r.num \in Int /\ r.den \in Int
  BY <1>2, WidthAssumption DEF Ints
<1>. QED BY <1>3, <1>4

LEMMA SubHolds ==
    ASSUME NEW r, NEW s, IsRational(r), IsRational(s), NEW t \in sub(r, s)
    PROVE  /\ IsResult(t)
           /\ has_value(t) => t.num * (r.den * s.den) = (r.num * s.den - s.num * r.den) * t.den
<1>1. Outcome(neg(s), -s.num, s.den)
  BY NegHolds
<1>2. CASE ~has_value(neg(s))
  <2>1. t = neg(s)
    BY <1>2 DEF sub
  <2>. QED BY <2>1, <1>1, <1>2, OutcomeIsResult
<1>3. CASE has_value(neg(s))
  <2>. DEFINE y1 == neg(s)
  <2>1. IsRational(y1) /\ y1.num * s.den = (-s.num) * y1.den
    BY <1>1, <1>3, OutcomeIsResult DEF IsResult, Outcome, Denotes
  <2>2. t \in add(r, y1)
    BY <1>3 DEF sub
  <2>. HIDE DEF y1
  <2>3. Outcome(t, r.num * y1.den + y1.num * r.den, r.den * y1.den)
    BY <2>1, <2>2, AddHolds
  <2>4. ASSUME has_value(t)
        PROVE  t.num * (r.den * s.den) = (r.num * s.den - s.num * r.den) * t.den
    <3>1. /\ t.num \in Int /\ t.den \in Int
          /\ SameFraction(t.num, t.den, r.num * y1.den + y1.num * r.den, r.den * y1.den)
      BY <2>3, <2>4, DenotesFraction
    <3>2. SameFraction(y1.num, y1.den, -s.num, s.den)
      BY <2>1 DEF SameFraction
    <3>3. /\ r.num \in Int /\ r.den \in Int /\ s.num \in Int /\ s.den \in Int
          /\ y1.num \in Int /\ y1.den \in Int /\ y1.den # 0
      BY <2>1, Parts
    <3>4. SameFraction(t.num, t.den, r.num * s.den - s.num * r.den, r.den * s.den)
      BY <3>1, <3>2, <3>3, ExactDifference
    <3>. QED BY <3>4 DEF SameFraction
  <2>. QED BY <2>3, <2>4, OutcomeIsResult
<1>. QED BY <1>2, <1>3

LEMMA DivHolds ==
    ASSUME NEW r, NEW s, IsRational(r), IsRational(s), NEW t \in div(r, s)
    PROVE  /\ IsResult(t)
           /\ has_value(t) => s.num # 0 /\ t.num * (r.den * s.num) = (r.num * s.den) * t.den
<1>1. Outcome(inv(s), s.den, s.num)
  BY InvHolds
<1>2. CASE ~has_value(inv(s))
  <2>1. t = inv(s)
    BY <1>2 DEF div
  <2>. QED BY <2>1, <1>1, <1>2, OutcomeIsResult
<1>3. CASE has_value(inv(s))
  <2>. DEFINE y1 == inv(s)
  <2>1. IsRational(y1) /\ s.num # 0 /\ y1.num * s.num = s.den * y1.den
    BY <1>1, <1>3, OutcomeIsResult DEF IsResult, Outcome, Denotes
  <2>2. t \in mul(r, y1)
    BY <1>3 DEF div
  <2>. HIDE DEF y1
  <2>3. Outcome(t, r.num * y1.num, r.den * y1.den)
    BY <2>1, <2>2, MulHolds
  <2>4. ASSUME has_value(t)
        PROVE  t.num * (r.den * s.num) = (r.num * s.den) * t.den
    <3>1. t.num \in Int /\ t.den \in Int /\ SameFraction(t.num, t.den, r.num * y1.num, r.den * y1.den)
      BY <2>3, <2>4, DenotesFraction
    <3>2. SameFraction(y1.num, y1.den, s.den, s.num)
      BY <2>1 DEF SameFraction
    <3>3. /\ r.num \in Int /\ r.den \in Int /\ s.num \in Int /\ s.den \in Int
          /\ y1.num \in Int /\ y1.den \in Int /\ y1.den # 0
      BY <2>1, Parts
    <3>4. SameFraction(t.num, t.den, r.num * s.den, r.den * s.num)
      BY <3>1, <3>2, <3>3, ExactQuotient
    <3>. QED BY <3>4 DEF SameFraction
  <2>. QED BY <2>1, <2>3, <2>4, OutcomeIsResult
<1>. QED BY <1>2, <1>3

\* What sub and div refuse, they refuse for the result or for the operand they
\* make first.
LEMMA SubOwed ==
    ASSUME NEW r, NEW s, IsRational(r), IsRational(s), NEW t \in sub(r, s)
    PROVE  /\ t.kind \in {"value", "Overflow"}
           /\ t.kind = "Overflow" => \/ ~Fits(r.num * s.den - s.num * r.den, r.den * s.den)
                                     \/ ~Fits(-s.num, s.den)
<1>1. Outcome(neg(s), -s.num, s.den) /\ Owed(neg(s), -s.num, s.den)
  BY NegHolds
<1>2. s.den # 0
  BY Parts
<1>3. CASE ~has_value(neg(s))
  <2>1. t = neg(s)
    BY <1>3 DEF sub
  <2>. QED BY <2>1, <1>1, <1>2, <1>3 DEF Owed, has_value
<1>4. CASE has_value(neg(s))
  <2>. DEFINE y1 == neg(s)
              n1 == r.num * y1.den + y1.num * r.den
              d1 == r.den * y1.den
              n == r.num * s.den - s.num * r.den
              d == r.den * s.den
  <2>1. IsRational(y1)
    BY <1>1, <1>4, OutcomeIsResult DEF IsResult
  <2>2. SameFraction(y1.num, y1.den, -s.num, s.den)
    BY <1>1, <1>4, DenotesFraction
  <2>3. Owed(t, n1, d1)
    <3>1. t \in add(r, y1)
      BY <1>4 DEF sub
    <3>. HIDE DEF y1
    <3>. QED BY <2>1, <3>1, AddHolds
  <2>. HIDE DEF y1
  <2>4. /\ r.num \in Int /\ r.den \in Int /\ s.num \in Int /\ s.den \in Int
        /\ y1.num \in Int /\ y1.den \in Int /\ r.den > 0 /\ s.den > 0 /\ y1.den > 0
    BY <2>1, Parts
  <2>5. n1 \in Int /\ d1 \in Int /\ n \in Int /\ d \in Int /\ d # 0 /\ d1 # 0
    BY <2>4
  <2>6. SameFraction(n1, d1, n, d)
    <3>1. SameFraction(n1, d1, n1, d1)
      BY DEF SameFraction
    <3>2. y1.den # 0
      BY <2>4
    <3>3. \A a, b \in Int : SameFraction(a, b, n1, d1) => SameFraction(a, b, n, d)
      BY <2>2, <2>4, <3>2, ExactDifference
    <3>. HIDE DEF n1, d1, n, d
    <3>. QED BY <2>5, <3>1, <3>3
  <2>. HIDE DEF n1, d1, n, d
  <2>7. Fits(n, d) => Fits(n1, d1)
    BY <2>5, <2>6, FitsSame DEF SameFraction
  <2>8. t.kind \in {"value", "Overflow"} /\ (t.kind = "Overflow" => ~Fits(n, d))
    BY <2>3, <2>5, <2>7 DEF Owed
  <2>. QED BY <2>8 DEF n, d
<1>. QED BY <1>3, <1>4

LEMMA DivOwed ==
    ASSUME NEW r, NEW s, IsRational(r), IsRational(s), NEW t \in div(r, s)
    PROVE  /\ t.kind \in {"value", "DivByZero", "Overflow"}
           /\ t.kind = "DivByZero" => s.num = 0
           /\ t.kind = "Overflow" => ~Fits(r.num * s.den, r.den * s.num) \/ ~Fits(s.den, s.num)
<1>1. Outcome(inv(s), s.den, s.num) /\ Owed(inv(s), s.den, s.num)
  BY InvHolds
<1>2. CASE ~has_value(inv(s))
  <2>1. t = inv(s)
    BY <1>2 DEF div
  <2>. QED BY <2>1, <1>1, <1>2 DEF Owed, has_value
<1>3. CASE has_value(inv(s))
  <2>. DEFINE y1 == inv(s)
              n1 == r.num * y1.num
              d1 == r.den * y1.den
              n == r.num * s.den
              d == r.den * s.num
  <2>1. IsRational(y1) /\ s.num # 0
    BY <1>1, <1>3, OutcomeIsResult DEF IsResult, Outcome, Denotes
  <2>2. SameFraction(y1.num, y1.den, s.den, s.num)
    BY <1>1, <1>3, DenotesFraction
  <2>3. Owed(t, n1, d1)
    <3>1. t \in mul(r, y1)
      BY <1>3 DEF div
    <3>. HIDE DEF y1
    <3>. QED BY <2>1, <3>1, MulHolds
  <2>. HIDE DEF y1
  <2>4. /\ r.num \in Int /\ r.den \in Int /\ s.num \in Int /\ s.den \in Int
        /\ y1.num \in Int /\ y1.den \in Int /\ r.den > 0 /\ s.num # 0 /\ y1.den > 0
    BY <2>1, Parts
  <2>5. n1 \in Int /\ d1 \in Int /\ n \in Int /\ d \in Int /\ d # 0 /\ d1 # 0
    <3>1. n1 \in Int /\ d1 \in Int /\ n \in Int /\ d \in Int
      BY <2>4
    <3>2. r.den # 0 /\ y1.den # 0
      BY <2>4
    <3>3. d # 0 /\ d1 # 0
      BY <2>4, <3>2, NonZero
    <3>. HIDE DEF n1, d1, n, d
    <3>. QED BY <3>1, <3>3
  <2>6. SameFraction(n1, d1, n, d)
    <3>1. SameFraction(n1, d1, n1, d1)
      BY DEF SameFraction
    <3>2. y1.den # 0
      BY <2>4
    <3>3. \A a, b \in Int : SameFraction(a, b, n1, d1) => SameFraction(a, b, n, d)
      BY <2>2, <2>4, <3>2, ExactQuotient
    <3>. HIDE DEF n1, d1, n, d
    <3>. QED BY <2>5, <3>1, <3>3
  <2>. HIDE DEF n1, d1, n, d
  <2>7. Fits(n, d) => Fits(n1, d1)
    BY <2>5, <2>6, FitsSame DEF SameFraction
  <2>8. t.kind \in {"value", "Overflow"} /\ (t.kind = "Overflow" => ~Fits(n, d))
    BY <2>3, <2>5, <2>7 DEF Owed
  <2>. QED BY <2>8 DEF n, d
<1>. QED BY <1>2, <1>3

(***************************************************************************)
(* The specification.                                                      *)
(***************************************************************************)
IInv == /\ TypeOK
        /\ IsResult(x) /\ IsResult(y) /\ (op # "none" => IsResult(result))
        /\ Exact /\ Deserved

LEMMA MadeIsResult == ASSUME NEW r \in Parsed PROVE IsResult(r)
<1>1. CASE r \in Made
  <2>1. PICK p \in Numbers : r = make(p[1], p[2])
    BY <1>1 DEF Made
  <2>2. p[1] \in Longs /\ p[2] \in Longs
    BY WidthAssumption
  <2>. QED BY <2>1, <2>2, MakeHolds, OutcomeIsResult
<1>2. CASE r = Error("NotANumber")
  BY <1>2, Shapes DEF IsResult
<1>. QED BY <1>1, <1>2 DEF Parsed

\* What one application answers, and the fraction it stands for.
LEMMA EvaluateHolds ==
    ASSUME IsResult(x), IsResult(y), op' \in Operations, x' = x, y' = y,
           result' \in evaluate(op', x, y)
    PROVE  IsResult(result') /\ Exact' /\ Deserved'
<1>1. CASE ~has_value(x) \/ ~has_value(y)
  BY <1>1 DEF evaluate, Exact, Deserved, Answered
<1>2. CASE has_value(x) /\ has_value(y)
  <2>1. IsRational(x) /\ IsRational(y)
    BY <1>2 DEF IsResult
  <2>2. result' \in apply(op', x, y)
    BY <1>2 DEF evaluate
  <2>3. /\ x.num \in Int /\ x.den \in Int /\ x.den > 0
        /\ y.num \in Int /\ y.den \in Int /\ y.den > 0
    BY <2>1, Parts
  <2>4. x.den * y.den # 0 /\ (y.num # 0 => x.den * y.num # 0)
    BY <2>3
  <2>5. CASE op' = "Add"
    <3>1. /\ Outcome(result', x.num * y.den + y.num * x.den, x.den * y.den)
          /\ Owed(result', x.num * y.den + y.num * x.den, x.den * y.den)
      BY <2>1, <2>2, <2>5, AddHolds DEF apply
    <3>2. IsResult(result')
      BY <3>1, OutcomeIsResult
    <3>3. Num' = x.num * y.den + y.num * x.den /\ Den' = x.den * y.den
      BY <2>5 DEF Num, Den
    <3>4. Deserved'
      <4>1. (result').kind = "DivByZero" => FALSE
        BY <3>1, <2>4 DEF Owed
      <4>2. (result').kind = "Overflow" => ~Fits(Num, Den)'
        BY <3>1, <3>3 DEF Owed, Fits
      <4>. QED BY <3>1, <4>1, <4>2 DEF Deserved, Owed, has_value
    <3>5. Exact'
      BY <3>1, <3>3, <2>4, DenotesFraction DEF Exact, SameFraction
    <3>. QED BY <3>2, <3>4, <3>5
  <2>6. CASE op' = "Mul"
    <3>1. Outcome(result', x.num * y.num, x.den * y.den) /\ Owed(result', x.num * y.num, x.den * y.den)
      BY <2>1, <2>2, <2>6, MulHolds DEF apply
    <3>2. IsResult(result')
      BY <3>1, OutcomeIsResult
    <3>3. Num' = x.num * y.num /\ Den' = x.den * y.den
      BY <2>6 DEF Num, Den
    <3>4. Deserved'
      <4>1. (result').kind = "DivByZero" => FALSE
        BY <3>1, <2>4 DEF Owed
      <4>2. (result').kind = "Overflow" => ~Fits(Num, Den)'
        BY <3>1, <3>3 DEF Owed, Fits
      <4>. QED BY <3>1, <4>1, <4>2 DEF Deserved, Owed, has_value
    <3>5. Exact'
      BY <3>1, <3>3, <2>4, DenotesFraction DEF Exact, SameFraction
    <3>. QED BY <3>2, <3>4, <3>5
  <2>7. CASE op' = "Sub"
    <3>1. result' \in sub(x, y)
      BY <2>2, <2>7 DEF apply
    <3>2. Num' = x.num * y.den - y.num * x.den /\ Den' = x.den * y.den
      BY <2>7 DEF Num, Den
    <3>3. IsResult(result') /\ Exact'
      BY <3>1, <3>2, <2>1, <2>4, SubHolds DEF Exact
    <3>4. /\ (result').kind \in {"value", "Overflow"}
          /\ (result').kind = "Overflow" => \/ ~Fits(x.num * y.den - y.num * x.den, x.den * y.den)
                                           \/ ~Fits(-y.num, y.den)
      BY <2>1, <3>1, SubOwed
    <3>5. (result').kind = "Overflow" => ~Fits(Num, Den)' \/ ~Fits(-y.num, y.den)'
      BY <3>2, <3>4 DEF Fits
    <3>6. Deserved'
      BY <2>7, <3>4, <3>5 DEF Deserved, has_value
    <3>. QED BY <3>3, <3>6
  <2>8. CASE op' = "Div"
    <3>1. result' \in div(x, y)
      BY <2>2, <2>8 DEF apply
    <3>2. Num' = x.num * y.den /\ Den' = x.den * y.num
      BY <2>8 DEF Num, Den
    <3>3. IsResult(result') /\ Exact'
      BY <3>1, <3>2, <2>1, <2>4, DivHolds DEF Exact
    <3>4. /\ (result').kind \in {"value", "DivByZero", "Overflow"}
          /\ (result').kind = "DivByZero" => y.num = 0
          /\ (result').kind = "Overflow" => \/ ~Fits(x.num * y.den, x.den * y.num)
                                           \/ ~Fits(y.den, y.num)
      BY <2>1, <3>1, DivOwed
    <3>5. (result').kind = "Overflow" => ~Fits(Num, Den)' \/ ~Fits(y.den, y.num)'
      BY <3>2, <3>4 DEF Fits
    <3>6. Deserved'
      BY <2>8, <3>4, <3>5 DEF Deserved, has_value
    <3>. QED BY <3>3, <3>6
  <2>. QED BY <2>5, <2>6, <2>7, <2>8 DEF Operations
<1>. QED BY <1>1, <1>2

LEMMA InitEstablishes == Init => IInv
<1>. SUFFICES ASSUME Init PROVE IInv
  OBVIOUS
<1>1. IsResult(x) /\ IsResult(y)
  BY MadeIsResult DEF Init
<1>2. op = "none" /\ result = Nothing
  BY DEF Init
<1>. QED BY <1>1, <1>2 DEF IInv, TypeOK, Exact, Deserved, Answered, IsResult

LEMMA NextKeeps == IInv /\ [Next]_vars => IInv'
<1>. SUFFICES ASSUME IInv, [Next]_vars PROVE IInv'
  OBVIOUS
<1>1. CASE Evaluate
  <2>1. /\ op' \in Operations /\ op' # "none" /\ x' = x /\ y' = y
        /\ result' \in evaluate(op', x, y)
    BY <1>1 DEF Evaluate, Operations
  <2>2. IsResult(result') /\ Exact' /\ Deserved'
    BY <2>1, EvaluateHolds DEF IInv
  <2>3. IsResult(x)' /\ IsResult(y)' /\ IsResult(result)'
    BY <2>1, <2>2 DEF IInv
  <2>. QED BY <2>1, <2>2, <2>3 DEF IInv, TypeOK, IsResult
<1>2. CASE GoOn
  <2>1. x' = result /\ y' = y /\ op # "none" /\ op' = "none" /\ result' = Nothing
    BY <1>2 DEF GoOn, Replace
  <2>2. IsResult(x') /\ IsResult(y')
    BY <2>1 DEF IInv
  <2>. QED BY <2>1, <2>2 DEF IInv, TypeOK, Exact, Deserved, Answered, IsResult
<1>3. CASE GoOnRight
  <2>1. x' = x /\ y' = result /\ op # "none" /\ op' = "none" /\ result' = Nothing
    BY <1>3 DEF GoOnRight, Replace
  <2>2. IsResult(x') /\ IsResult(y')
    BY <2>1 DEF IInv
  <2>. QED BY <2>1, <2>2 DEF IInv, TypeOK, Exact, Deserved, Answered, IsResult
<1>4. CASE UNCHANGED vars
  BY <1>4 DEF vars, IInv, TypeOK, IsResult, Exact, Deserved, Answered, Num, Den
<1>. QED BY <1>1, <1>2, <1>3, <1>4 DEF Next

\* The inductive invariant: what either operand and the result hold was made by
\* make, and the result is that of the operation.
THEOREM Invariant == Spec => []IInv
BY InitEstablishes, NextKeeps, PTL DEF Spec

\* Every number stays within int, and every error is one the type names.
THEOREM TypeCorrect == Spec => []TypeOK
<1>1. IInv => TypeOK
  BY DEF IInv
<1>. QED BY <1>1, Invariant, PTL

\* make is the only way to a Rational and lets none through that is not reduced
\* and positive in the denominator, for an int of any width.
THEOREM CanonicalAlways == Spec => []Canonical
<1>1. IInv => Canonical
  <2>. SUFFICES ASSUME IInv, NEW r \in {x, y, result}, has_value(r)
                PROVE  r.den > 0 /\ \A k \in 1 .. Half : r.num % k = 0 /\ r.den % k = 0 => k = 1
    BY DEF Canonical
  <2>1. IsResult(r)
    BY Shapes DEF IInv, TypeOK
  <2>2. IsRational(r)
    BY <2>1 DEF IsResult
  <2>3. \A k \in 1 .. Half : k \in Nat \ {0}
    BY Width
  <2>. QED BY <2>2, <2>3, Parts DEF IsRational, Reduced
<1>. QED BY <1>1, Invariant, PTL

\* No evaluation overflows long long on its way, and the value that comes out is
\* the exact one, for an int of any width.
THEOREM ExactAlways == Spec => []Exact
<1>1. IInv => Exact
  BY DEF IInv
<1>. QED BY <1>1, Invariant, PTL

\* Overflow answers only what no Rational is, the result or the operand that sub
\* and div make first, and DivByZero only a division by zero, for an int of any
\* width: what reduction and the width refuse is beyond every spelling.
THEOREM DeservedAlways == Spec => []Deserved
<1>1. IInv => Deserved
  BY DEF IInv
<1>. QED BY <1>1, Invariant, PTL

(***************************************************************************)
(* The Rational within a run of either program.                            *)
(***************************************************************************)
\* What is proved of the Rational holds of every run of the examples.
THEOREM ExamplesIncludeReadme == ExamplesSpec => Spec
<1>1. ExamplesInit => Init
  BY DEF ExamplesInit
<1>2. [ExamplesNext]_allVars => [Next]_vars
  BY DEF ExamplesNext, Readme, Calculates, allVars, vars
<1>. QED BY <1>1, <1>2, PTL DEF ExamplesSpec, Spec

(***************************************************************************)
(* The calculator: arithmetic in long.                                     *)
(***************************************************************************)
LEMMA LongWidth ==
    /\ maximum \in Nat /\ MaxTokens \in Nat /\ Calculator!minimum = -maximum - 1
    /\ \A v : v \in Calculator!Longs <=> v \in Int /\ -maximum - 1 <= v /\ v <= maximum
BY CalculatorAssumption DEF Calculator!Longs, Calculator!minimum

LEMMA Growing ==
    ASSUME NEW a \in Int, NEW b \in Int, a <= b, NEW k \in Nat
    PROVE  a * k <= b * k
OBVIOUS

LEMMA DivisionWithRest ==
    ASSUME NEW n \in Int, NEW k \in Nat \ {0}
    PROVE  n \div k \in Int /\ n % k \in 0 .. k - 1 /\ n = k * (n \div k) + (n % k)
OBVIOUS

\* A factor is beyond a quotient where the product is beyond the dividend.
LEMMA BeyondQuotient ==
    ASSUME NEW n \in Nat, NEW k \in Nat \ {0}, NEW a \in Int
    PROVE  /\ n \div k \in Nat /\ n \div k <= n
           /\ (a > n \div k <=> a * k > n)
<1>. DEFINE q == n \div k
            m == n % k
<1>1. q \in Int /\ m \in 0 .. k - 1 /\ n = k * q + m
  BY DivisionWithRest
<1>. HIDE DEF q, m
<1>2. q >= 0
  <2>. SUFFICES ASSUME q <= -1 PROVE FALSE
    BY <1>1
  <2>1. q * k <= (-1) * k
    BY <1>1, Growing
  <2>. QED BY <1>1, <2>1
<1>3. q <= n
  <2>1. q * 1 <= q * k
    BY <1>1, <1>2
  <2>. QED BY <1>1, <2>1
<1>4. CASE a > q
  <2>1. (q + 1) * k <= a * k
    BY <1>1, <1>4, Growing
  <2>2. (q + 1) * k = q * k + k /\ q * k = k * q /\ a * k \in Int
    BY <1>1
  <2>3. a * k > n
    BY <1>1, <2>1, <2>2
  <2>. QED BY <1>2, <1>3, <1>4, <2>3, <1>1 DEF q
<1>5. CASE a <= q
  <2>1. a * k <= q * k
    BY <1>1, <1>5, Growing
  <2>2. ~(a * k > n)
    BY <1>1, <2>1
  <2>. QED BY <1>2, <1>3, <1>5, <2>2, <1>1 DEF q
<1>. QED BY <1>1, <1>4, <1>5

\* The quotient of the language, by the signs of its operands.
LEMMA QuotientBySigns ==
    ASSUME NEW a \in Int, NEW b \in Int, b # 0
    PROVE  /\ a >= 0 /\ b > 0 => Calculator!Quotient(a, b) = a \div b
           /\ a < 0 /\ b > 0 => Calculator!Quotient(a, b) = -((-a) \div b)
           /\ a >= 0 /\ b < 0 => Calculator!Quotient(a, b) = -(a \div (-b))
           /\ a < 0 /\ b < 0 => Calculator!Quotient(a, b) = (-a) \div (-b)
           /\ Calculator!Quotient(a, b) \in Int
BY DEF Calculator!Quotient, Calculator!Sign, Calculator!Magnitude

\* It truncates towards zero.
LEMMA Truncates ==
    ASSUME NEW a \in Int, NEW b \in Int, b # 0
    PROVE  /\ Calculator!Magnitude(a - b * Calculator!Quotient(a, b)) < Calculator!Magnitude(b)
           /\ (a - b * Calculator!Quotient(a, b)) * a >= 0
<1>. DEFINE A == Calculator!Magnitude(a)
            B == Calculator!Magnitude(b)
            q == A \div B
            m == A % B
            r == a - b * Calculator!Quotient(a, b)
<1>1. A = (IF a < 0 THEN -a ELSE a) /\ B = (IF b < 0 THEN -b ELSE b) /\ A \in Nat /\ B \in Nat \ {0}
  <2>. HIDE DEF q, m, r
  <2>1. A = (IF a < 0 THEN -a ELSE a) /\ B = (IF b < 0 THEN -b ELSE b)
    BY DEF Calculator!Magnitude
  <2>. HIDE DEF A, B
  <2>. QED BY <2>1
<1>2. q \in Int /\ m \in 0 .. B - 1 /\ A = B * q + m
  <2>. HIDE DEF A, B, r
  <2>1. A \in Int /\ B \in Nat \ {0}
    BY <1>1
  <2>. QED BY <2>1, DivisionWithRest
<1>3. Calculator!Quotient(a, b) = Calculator!Sign(a) * Calculator!Sign(b) * q
  BY DEF Calculator!Quotient
<1>4. r = IF a < 0 THEN -m ELSE m
  <2>. HIDE DEF A, B, q, m
  <2>1. CASE a >= 0 /\ b > 0
    <3>1. Calculator!Quotient(a, b) = q
      BY <1>2, <1>3, <2>1 DEF Calculator!Sign
    <3>. QED BY <1>1, <1>2, <3>1, <2>1
  <2>2. CASE a >= 0 /\ b < 0
    <3>1. Calculator!Quotient(a, b) = -q
      BY <1>2, <1>3, <2>2 DEF Calculator!Sign
    <3>2. b * (-q) = (-b) * q
      BY <1>2
    <3>. QED BY <1>1, <1>2, <3>1, <3>2, <2>2
  <2>3. CASE a < 0 /\ b > 0
    <3>1. Calculator!Quotient(a, b) = -q
      BY <1>2, <1>3, <2>3 DEF Calculator!Sign
    <3>2. b * (-q) = -(b * q)
      BY <1>2
    <3>. QED BY <1>1, <1>2, <3>1, <3>2, <2>3
  <2>4. CASE a < 0 /\ b < 0
    <3>1. Calculator!Quotient(a, b) = q
      BY <1>2, <1>3, <2>4 DEF Calculator!Sign
    <3>2. (-b) * q = -(b * q)
      BY <1>2
    <3>. QED BY <1>1, <1>2, <3>1, <3>2, <2>4
  <2>. QED BY <2>1, <2>2, <2>3, <2>4
<1>. HIDE DEF r, m, q
<1>5. Calculator!Magnitude(r) < B
  <2>1. r \in Int /\ Calculator!Magnitude(r) = m
    BY <1>1, <1>2, <1>4 DEF Calculator!Magnitude
  <2>. QED BY <1>2, <2>1, <1>1
<1>6. r * a >= 0
  <2>1. CASE a >= 0
    BY <1>2, <1>1, <1>4, <2>1
  <2>2. CASE a < 0
    <3>1. (-m) * a = m * (-a) /\ m * (-a) >= 0
      BY <1>1, <1>2, <2>2
    <3>. QED BY <1>4, <3>1, <2>2
  <2>. QED BY <2>1, <2>2
<1>. QED BY <1>5, <1>6 DEF r

(***************************************************************************)
(* What the guards of the arms on longs say, and that they say it without  *)
(* an overflow of their own.                                               *)
(***************************************************************************)
\* The integer whose range decides: for Mod, the quotient.
Decides(a, b, f) == Calculator!computed(a, b, IF f = "Mod" THEN "Div" ELSE f)

LEMMA TestedExactly ==
    ASSUME NEW bound \in Calculator!Longs, NEW verdict
    PROVE  Calculator!Tested(bound, verdict) = {verdict}
BY DEF Calculator!Tested

LEMMA AddExactly ==
    ASSUME NEW a \in Calculator!Longs, NEW b \in Calculator!Longs
    PROVE  Calculator!overflowsAdd(a, b) = {a + b \notin Calculator!Longs}
<1>. USE LongWidth
<1>1. CASE b > 0
  <2>1. maximum - b \in Calculator!Longs /\ (a > maximum - b <=> a + b \notin Calculator!Longs)
    BY <1>1
  <2>. QED BY <1>1, <2>1, TestedExactly DEF Calculator!overflowsAdd
<1>2. CASE ~(b > 0)
  <2>1. /\ Calculator!minimum - b \in Calculator!Longs
        /\ a < Calculator!minimum - b <=> a + b \notin Calculator!Longs
    BY <1>2
  <2>. QED BY <1>2, <2>1, TestedExactly DEF Calculator!overflowsAdd
<1>. QED BY <1>1, <1>2

LEMMA SubExactly ==
    ASSUME NEW a \in Calculator!Longs, NEW b \in Calculator!Longs
    PROVE  Calculator!overflowsSub(a, b) = {a - b \notin Calculator!Longs}
<1>. USE LongWidth
<1>1. CASE b < 0
  <2>1. maximum + b \in Calculator!Longs /\ (a > maximum + b <=> a - b \notin Calculator!Longs)
    BY <1>1
  <2>. QED BY <1>1, <2>1, TestedExactly DEF Calculator!overflowsSub
<1>2. CASE ~(b < 0)
  <2>1. /\ Calculator!minimum + b \in Calculator!Longs
        /\ a < Calculator!minimum + b <=> a - b \notin Calculator!Longs
    BY <1>2
  <2>. QED BY <1>2, <2>1, TestedExactly DEF Calculator!overflowsSub
<1>. QED BY <1>1, <1>2

LEMMA MulExactly ==
    ASSUME NEW a \in Calculator!Longs, NEW b \in Calculator!Longs
    PROVE  Calculator!overflowsMul(a, b) = {a * b \notin Calculator!Longs}
<1>1. a \in Int /\ b \in Int /\ a * b \in Int /\ maximum \in Nat
  BY LongWidth
<1>2. CASE a > 0 /\ b > 0
  <2>1. Calculator!Quotient(maximum, b) = maximum \div b
    BY <1>1, <1>2, QuotientBySigns
  <2>2. /\ maximum \div b \in Nat /\ maximum \div b <= maximum
        /\ a > maximum \div b <=> a * b > maximum
    BY <1>1, <1>2, BeyondQuotient
  <2>3. a * b >= 0
    BY <1>1, <1>2
  <2>4. /\ Calculator!Quotient(maximum, b) \in Calculator!Longs
        /\ a > Calculator!Quotient(maximum, b) <=> a * b \notin Calculator!Longs
    BY <1>1, <2>1, <2>2, <2>3, LongWidth
  <2>. QED BY <1>2, <2>4, TestedExactly DEF Calculator!overflowsMul
<1>3. CASE a > 0 /\ ~(b > 0)
  <2>1. Calculator!Quotient(Calculator!minimum, a) = -((maximum + 1) \div a)
    BY <1>1, <1>3, QuotientBySigns, LongWidth
  <2>2. /\ (maximum + 1) \div a \in Nat /\ (maximum + 1) \div a <= maximum + 1
        /\ -b > (maximum + 1) \div a <=> (-b) * a > maximum + 1
    BY <1>1, <1>3, BeyondQuotient
  <2>3. (-b) * a = -(a * b) /\ (-b) * a >= 0
    BY <1>1, <1>3
  <2>4. /\ Calculator!Quotient(Calculator!minimum, a) \in Calculator!Longs
        /\ b < Calculator!Quotient(Calculator!minimum, a) <=> a * b \notin Calculator!Longs
    BY <1>1, <2>1, <2>2, <2>3, LongWidth
  <2>. QED BY <1>3, <2>4, TestedExactly DEF Calculator!overflowsMul
<1>4. CASE ~(a > 0) /\ b > 0
  <2>1. Calculator!Quotient(Calculator!minimum, b) = -((maximum + 1) \div b)
    BY <1>1, <1>4, QuotientBySigns, LongWidth
  <2>2. /\ (maximum + 1) \div b \in Nat /\ (maximum + 1) \div b <= maximum + 1
        /\ -a > (maximum + 1) \div b <=> (-a) * b > maximum + 1
    BY <1>1, <1>4, BeyondQuotient
  <2>3. (-a) * b = -(a * b) /\ (-a) * b >= 0
    BY <1>1, <1>4
  <2>4. /\ Calculator!Quotient(Calculator!minimum, b) \in Calculator!Longs
        /\ a < Calculator!Quotient(Calculator!minimum, b) <=> a * b \notin Calculator!Longs
    BY <1>1, <2>1, <2>2, <2>3, LongWidth
  <2>. QED BY <1>4, <2>4, TestedExactly DEF Calculator!overflowsMul
<1>5. CASE a = 0 /\ ~(b > 0)
  <2>1. a * b = 0 /\ 0 \in Calculator!Longs
    BY <1>1, <1>5, LongWidth
  <2>2. ~(a > 0) /\ ~(b > 0) /\ (a * b \notin Calculator!Longs) = FALSE
    BY <1>5, <2>1
  <2>. QED BY <1>5, <2>2, Zenon DEF Calculator!overflowsMul
<1>6. CASE a < 0 /\ ~(b > 0)
  <2>1. Calculator!Quotient(maximum, a) = -(maximum \div (-a))
    BY <1>1, <1>6, QuotientBySigns
  <2>2. /\ maximum \div (-a) \in Nat /\ maximum \div (-a) <= maximum
        /\ -b > maximum \div (-a) <=> (-b) * (-a) > maximum
    BY <1>1, <1>6, BeyondQuotient
  <2>3. (-b) * (-a) = a * b /\ (-b) * (-a) >= 0
    BY <1>1, <1>6
  <2>4. /\ Calculator!Quotient(maximum, a) \in Calculator!Longs
        /\ b < Calculator!Quotient(maximum, a) <=> a * b \notin Calculator!Longs
    BY <1>1, <2>1, <2>2, <2>3, LongWidth
  <2>5. ~(a > 0) /\ ~(b > 0) /\ a # 0
    BY <1>1, <1>6
  <2>6. Calculator!overflowsMul(a, b) =
           Calculator!Tested(Calculator!Quotient(maximum, a), b < Calculator!Quotient(maximum, a))
    BY <2>5, Zenon DEF Calculator!overflowsMul
  <2>. QED BY <2>4, <2>6, TestedExactly
<1>. QED BY <1>1, <1>2, <1>3, <1>4, <1>5, <1>6

\* A quotient of two longs is one, but for the least by -1.
LEMMA QuotientFits ==
    ASSUME NEW a \in Calculator!Longs, NEW b \in Calculator!Longs, b # 0
    PROVE  Calculator!Quotient(a, b) \notin Calculator!Longs <=> a = Calculator!minimum /\ b = -1
<1>1. a \in Int /\ b \in Int /\ maximum \in Nat /\ Calculator!minimum = -maximum - 1
  BY LongWidth
<1>2. CASE a >= 0 /\ b > 0
  <2>1. a \div b \in Nat /\ a \div b <= a
    BY <1>1, <1>2, BeyondQuotient
  <2>2. Calculator!Quotient(a, b) = a \div b
    BY <1>1, <1>2, QuotientBySigns
  <2>. QED BY <1>1, <1>2, <2>1, <2>2, LongWidth
<1>3. CASE a >= 0 /\ b < 0
  <2>1. a \div (-b) \in Nat /\ a \div (-b) <= a
    BY <1>1, <1>3, BeyondQuotient
  <2>2. Calculator!Quotient(a, b) = -(a \div (-b))
    BY <1>1, <1>3, QuotientBySigns
  <2>. QED BY <1>1, <1>3, <2>1, <2>2, LongWidth
<1>4. CASE a < 0 /\ b > 0
  <2>1. (-a) \div b \in Nat /\ (-a) \div b <= -a
    BY <1>1, <1>4, BeyondQuotient
  <2>2. Calculator!Quotient(a, b) = -((-a) \div b)
    BY <1>1, <1>4, QuotientBySigns
  <2>. QED BY <1>1, <1>4, <2>1, <2>2, LongWidth
<1>5. CASE a < 0 /\ b < 0
  <2>1. Calculator!Quotient(a, b) = (-a) \div (-b)
    BY <1>1, <1>5, QuotientBySigns
  <2>2. (-a) \div (-b) \in Nat /\ ((maximum + 1) > (-a) \div (-b) <=> (maximum + 1) * (-b) > -a)
    BY <1>1, <1>5, BeyondQuotient
  <2>3. CASE b = -1
    BY <1>1, <1>5, <2>1, <2>2, <2>3, LongWidth
  <2>4. CASE b < -1
    <3>1. 2 * (maximum + 1) <= (-b) * (maximum + 1)
      BY <1>1, <2>4, Growing
    <3>2. (-b) * (maximum + 1) = (maximum + 1) * (-b)
      BY <1>1
    <3>3. (maximum + 1) * (-b) > -a
      BY <1>1, <1>5, <3>1, <3>2, LongWidth
    <3>. QED BY <1>1, <2>1, <2>2, <2>4, <3>3, LongWidth
  <2>. QED BY <1>1, <1>5, <2>3, <2>4
<1>. QED BY <1>1, <1>2, <1>3, <1>4, <1>5

LEMMA GuardsExactly ==
    ASSUME NEW a \in Calculator!Longs, NEW b \in Calculator!Longs, NEW f \in Calculator!Arithmetic,
           f \in {"Div", "Mod"} => b # 0
    PROVE  /\ Calculator!overflows(a, b, f) = {Decides(a, b, f) \notin Calculator!Longs}
           /\ Decides(a, b, f) \in Int
<1>1. a \in Int /\ b \in Int
  BY LongWidth
<1>2. CASE f = "Add"
  BY <1>1, <1>2, AddExactly DEF Calculator!overflows, Decides, Calculator!computed
<1>3. CASE f = "Sub"
  BY <1>1, <1>3, SubExactly DEF Calculator!overflows, Decides, Calculator!computed
<1>4. CASE f = "Mul"
  BY <1>1, <1>4, MulExactly DEF Calculator!overflows, Decides, Calculator!computed
<1>5. CASE f \in {"Div", "Mod"}
  <2>1. Decides(a, b, f) = Calculator!Quotient(a, b)
    BY <1>5 DEF Decides, Calculator!computed
  <2>2. Calculator!overflows(a, b, f) = {a = Calculator!minimum /\ b = -1}
    BY <1>5 DEF Calculator!overflows
  <2>3. Calculator!Quotient(a, b) \in Int
    BY <1>1, <1>5, QuotientBySigns
  <2>4. (a = Calculator!minimum /\ b = -1) <=> Calculator!Quotient(a, b) \notin Calculator!Longs
    BY <1>5, QuotientFits
  <2>. QED BY <2>1, <2>2, <2>3, <2>4
<1>. QED BY <1>2, <1>3, <1>4, <1>5 DEF Calculator!Arithmetic

\* Where the guard lets the computation go on, it fits and it is the result.
LEMMA ComputedSolves ==
    ASSUME NEW a \in Calculator!Longs, NEW b \in Calculator!Longs, NEW f \in Calculator!Arithmetic,
           f \in {"Div", "Mod"} => b # 0, Decides(a, b, f) \in Calculator!Longs
    PROVE  /\ Calculator!computed(a, b, f) \in Calculator!Longs
           /\ Calculator!Solves(a, b, f, Calculator!computed(a, b, f))
<1>1. a \in Int /\ b \in Int /\ maximum \in Nat
  BY LongWidth
<1>2. CASE f \in {"Add", "Sub", "Mul"}
  <2>1. Calculator!computed(a, b, f) \in Calculator!Longs
    BY <1>2 DEF Decides
  <2>2. CASE f = "Add"
    BY <1>1, <2>1, <2>2 DEF Calculator!Solves, Calculator!computed
  <2>3. CASE f = "Sub"
    BY <1>1, <2>1, <2>3 DEF Calculator!Solves, Calculator!computed
  <2>4. CASE f = "Mul"
    BY <1>1, <2>1, <2>4 DEF Calculator!Solves, Calculator!computed
  <2>. QED BY <1>2, <2>1, <2>2, <2>3, <2>4
<1>3. CASE f = "Div"
  <2>1. /\ Calculator!computed(a, b, f) = Calculator!Quotient(a, b)
        /\ Calculator!Quotient(a, b) \in Calculator!Longs
    BY <1>3 DEF Calculator!computed, Decides
  <2>. QED BY <1>1, <1>3, <2>1, Truncates DEF Calculator!Solves
<1>4. CASE f = "Mod"
  <2>. DEFINE q == Calculator!Quotient(a, b)
              v == Calculator!Remainder(a, b)
              B == Calculator!Magnitude(b)
  <2>1. Calculator!computed(a, b, f) = v
    BY <1>4 DEF Calculator!computed
  <2>2. q \in Int
    BY <1>1, <1>4, QuotientBySigns
  <2>3. v = a - b * q
    BY DEF Calculator!Remainder
  <2>4. Calculator!Magnitude(v) < B /\ v * a >= 0
    BY <1>1, <1>4, <2>3, Truncates
  <2>5. B \in Nat \ {0} /\ B <= maximum + 1 /\ (B = b \/ B = -b)
    BY <1>1, <1>4, LongWidth DEF Calculator!Magnitude
  <2>. HIDE DEF q, v, B
  <2>6. v \in Int /\ a - v = b * q
    BY <1>1, <2>2, <2>3
  <2>7. v \in Calculator!Longs
    BY <1>1, <2>4, <2>5, <2>6, LongWidth DEF Calculator!Magnitude
  <2>8. (a - v) % B = 0
    <3>1. CASE B = b
      BY <1>1, <2>2, <2>5, <2>6, <3>1, Multiple
    <3>2. CASE B = -b
      <4>1. a - v = B * (-q)
        BY <1>1, <2>2, <2>5, <2>6, <3>2
      <4>2. a - v \in Int /\ -q \in Int
        BY <1>1, <2>2, <2>6
      <4>. HIDE DEF v
      <4>. QED BY <2>5, <4>1, <4>2, Multiple
    <3>. QED BY <2>5, <3>1, <3>2
  <2>. QED BY <1>4, <2>1, <2>4, <2>7, <2>8 DEF Calculator!Solves, B
<1>. QED BY <1>2, <1>3, <1>4 DEF Calculator!Arithmetic

\* Where it does not, no long is the result.
LEMMA RefusedUnsolvable ==
    ASSUME NEW a \in Calculator!Longs, NEW b \in Calculator!Longs, NEW f \in Calculator!Arithmetic,
           f \in {"Div", "Mod"} => b # 0, Decides(a, b, f) \notin Calculator!Longs,
           NEW v \in Calculator!Longs
    PROVE  ~Calculator!Solves(a, b, IF f = "Mod" THEN "Div" ELSE f, v)
<1>1. a \in Int /\ b \in Int /\ v \in Int /\ maximum \in Nat
  BY LongWidth
<1>2. CASE f = "Add"
  BY <1>1, <1>2 DEF Calculator!Solves, Decides, Calculator!computed
<1>3. CASE f = "Sub"
  <2>1. a - b \notin Calculator!Longs
    BY <1>3 DEF Decides, Calculator!computed
  <2>2. v + b # a
    BY <1>1, <2>1
  <2>. QED BY <1>3, <2>2 DEF Calculator!Solves
<1>4. CASE f = "Mul"
  BY <1>1, <1>4 DEF Calculator!Solves, Decides, Calculator!computed
<1>5. CASE f \in {"Div", "Mod"}
  <2>1. Calculator!Quotient(a, b) \notin Calculator!Longs
    BY <1>5 DEF Decides, Calculator!computed
  <2>2. a = -maximum - 1 /\ b = -1
    BY <1>5, <2>1, QuotientFits, LongWidth
  <2>3. v <= maximum
    BY LongWidth
  <2>. DEFINE rest == a - b * v
  <2>4. rest = v - maximum - 1
    <3>1. b * v = -v
      BY <1>1, <2>2
    <3>. QED BY <1>1, <2>2, <3>1
  <2>5. Calculator!Magnitude(b) = 1 /\ Calculator!Magnitude(rest) >= 1
    <3>. HIDE DEF rest
    <3>1. \A n \in Int : n + 1 = 0 => Calculator!Magnitude(n) = 1
      BY DEF Calculator!Magnitude
    <3>2. rest \in Int /\ rest <= -1
      BY <1>1, <2>3, <2>4
    <3>3. rest < 0 /\ -rest >= 1
      BY <3>2
    <3>4. b \in Int /\ b + 1 = 0
      BY <1>1, <2>2
    <3>. QED BY <3>1, <3>3, <3>4 DEF Calculator!Magnitude
  <2>6. ~Calculator!Solves(a, b, "Div", v)
    <3>1. Calculator!Solves(a, b, "Div", v) => Calculator!Magnitude(rest) < Calculator!Magnitude(b)
      BY DEF Calculator!Solves
    <3>2. Calculator!Magnitude(rest) \in Int
      <4>1. rest \in Int
        BY <1>1, <2>4
      <4>. HIDE DEF rest
      <4>. QED BY <4>1 DEF Calculator!Magnitude
    <3>. HIDE DEF rest
    <3>. QED BY <2>5, <3>1, <3>2
  <2>. QED BY <1>5, <2>6
<1>. QED BY <1>2, <1>3, <1>4, <1>5 DEF Calculator!Arithmetic

\* What an arm on longs returns is the result, or a refusal that is deserved.
LEMMA LongArm ==
    ASSUME NEW a \in Calculator!Longs, NEW b \in Calculator!Longs, NEW f \in Calculator!Arithmetic,
           NEW r \in Calculator!OfLongs(a, b, f)
    PROVE  \/ /\ r = Calculator!Fails("DivisionByZero")
              /\ f \in {"Div", "Mod"} /\ b = 0
           \/ /\ r = Calculator!Fails("Overflow")
              /\ ~\E v \in Calculator!Longs : Calculator!Solves(a, b, IF f = "Mod" THEN "Div" ELSE f, v)
           \/ \E v \in Calculator!Longs :
                 r = Calculator!Pushes(<<Calculator!Long(v)>>) /\ Calculator!Solves(a, b, f, v)
<1>1. CASE f \in {"Div", "Mod"} /\ b = 0
  BY <1>1 DEF Calculator!OfLongs
<1>2. CASE ~(f \in {"Div", "Mod"} /\ b = 0)
  <2>. DEFINE W == Calculator!overflows(a, b, f)
              c == Calculator!computed(a, b, f)
  <2>1. W = {Decides(a, b, f) \notin Calculator!Longs}
    BY <1>2, GuardsExactly
  <2>2. r \in (IF TRUE \in W THEN {Calculator!Fails("Overflow")} ELSE {})
              \cup (IF FALSE \notin W THEN {}
                    ELSE IF c \in Calculator!Longs THEN {Calculator!Pushes(<<Calculator!Long(c)>>)}
                    ELSE {Calculator!Pushes(<<Calculator!Long(n)>>) : n \in Calculator!Longs})
    BY <1>2, Zenon DEF Calculator!OfLongs
  <2>3. CASE Decides(a, b, f) \in Calculator!Longs
    <3>1. c \in Calculator!Longs /\ Calculator!Solves(a, b, f, c)
      BY <1>2, <2>3, ComputedSolves
    <3>2. W = {FALSE}
      BY <2>1, <2>3
    <3>. HIDE DEF W, c
    <3>3. r = Calculator!Pushes(<<Calculator!Long(c)>>)
      BY <2>2, <3>1, <3>2
    <3>. QED BY <3>1, <3>3
  <2>4. CASE Decides(a, b, f) \notin Calculator!Longs
    <3>1. W = {TRUE}
      BY <2>1, <2>4
    <3>. HIDE DEF W, c
    <3>2. r = Calculator!Fails("Overflow")
      BY <2>2, <3>1
    <3>. QED BY <1>2, <2>4, <3>2, RefusedUnsolvable
  <2>. QED BY <2>3, <2>4
<1>. QED BY <1>1, <1>2

(***************************************************************************)
(* The calculator: the stack.                                              *)
(***************************************************************************)
LEMMA NumberShapes == /\ \A v \in Calculator!Longs : Calculator!Long(v) \in Calculator!Number
                  /\ \A d \in Doubles : Calculator!Double(d) \in Calculator!Number
BY DEF Calculator!Number, Calculator!Long, Calculator!Double

LEMMA LongNumbers == \A n \in Calculator!Number : n.type = "long" => n.val \in Calculator!Longs
BY DEF Calculator!Number

LEMMA Answers == /\ \A e : Calculator!Fails(e).error = e /\ Calculator!Fails(e).results = <<>>
                 /\ \A s : Calculator!Pushes(s).error = "none" /\ Calculator!Pushes(s).results = s
BY DEF Calculator!Fails, Calculator!Pushes

\* The operands are the top of a stack, in its order, and the rest is what is
\* below them.
TopOf(S, s, n, operands, rest) ==
    /\ operands \in Seq(S) /\ rest \in Seq(S)
    /\ Len(operands) = (IF Len(s) < n THEN Len(s) ELSE n)
    /\ Len(rest) = Len(s) - Len(operands)
    /\ \A i \in 1 .. Len(rest) : rest[i] = s[i]
    /\ \A i \in 1 .. Len(operands) : operands[i] = s[Len(rest) + i]

LEMMA NonePopped ==
    ASSUME NEW S, NEW s \in Seq(S)
    PROVE  TopOf(S, s, 0, <<>>, s)
BY DEF TopOf

LEMMA OnePopped ==
    ASSUME NEW S, NEW s \in Seq(S), NEW number, NEW rest,
           s = <<>> => number = <<>> /\ rest = s,
           s # <<>> => number = <<s[Len(s)]>> /\ rest = SubSeq(s, 1, Len(s) - 1)
    PROVE  TopOf(S, s, 1, number, rest)
<1>1. Len(s) \in Nat /\ (s = <<>> <=> Len(s) = 0)
  OBVIOUS
<1>2. CASE s = <<>>
  <2>1. number = <<>> /\ rest = s
    BY <1>2
  <2>2. <<>> \in Seq(S) /\ Len(<<>>) = 0
    OBVIOUS
  <2>. QED BY <1>1, <1>2, <2>1, <2>2 DEF TopOf
<1>3. CASE s # <<>>
  <2>. DEFINE front == SubSeq(s, 1, Len(s) - 1)
              top == <<s[Len(s)]>>
  <2>1. Len(s) \in Nat \ {0} /\ s[Len(s)] \in S
    BY <1>3
  <2>2. \A i \in 1 .. Len(s) - 1 : s[i] \in S
    BY <2>1
  <2>3. /\ front \in Seq(S)
        /\ Len(front) = IF 1 <= Len(s) - 1 THEN Len(s) - 1 - 1 + 1 ELSE 0
        /\ \A i \in 1 .. Len(s) - 1 - 1 + 1 : front[i] = s[1 + i - 1]
    BY <2>1, <2>2, SubSeqProperties
  <2>4. top \in Seq(S) /\ Len(top) = 1 /\ top[1] = s[Len(s)]
    BY <2>1
  <2>5. number = top /\ rest = front
    BY <1>3
  <2>. HIDE DEF front, top
  <2>6. Len(front) = Len(s) - 1 /\ \A i \in 1 .. Len(front) : front[i] = s[i]
    BY <2>1, <2>3
  <2>7. Len(top) = (IF Len(s) < 1 THEN Len(s) ELSE 1) /\ Len(front) = Len(s) - Len(top)
    BY <2>1, <2>4, <2>6
  <2>8. \A i \in 1 .. Len(top) : top[i] = s[Len(front) + i]
    BY <2>1, <2>4, <2>6
  <2>. QED BY <2>3, <2>4, <2>5, <2>6, <2>7, <2>8, Zenon DEF TopOf
<1>. QED BY <1>2, <1>3

LEMMA TwoPopped ==
    ASSUME NEW S, NEW s \in Seq(S), NEW rhs, NEW m, NEW lhs, NEW below,
           TopOf(S, s, 1, rhs, m), TopOf(S, m, 1, lhs, below)
    PROVE  TopOf(S, s, 2, lhs \o rhs, below)
<1>. DEFINE both == lhs \o rhs
<1>1. rhs \in Seq(S) /\ m \in Seq(S) /\ lhs \in Seq(S) /\ below \in Seq(S)
  BY DEF TopOf
<1>2. /\ Len(rhs) = (IF Len(s) < 1 THEN Len(s) ELSE 1) /\ Len(m) = Len(s) - Len(rhs)
      /\ Len(lhs) = (IF Len(m) < 1 THEN Len(m) ELSE 1) /\ Len(below) = Len(m) - Len(lhs)
  BY DEF TopOf
<1>3. \A i \in 1 .. Len(m) : m[i] = s[i]
  BY DEF TopOf
<1>4. \A i \in 1 .. Len(rhs) : rhs[i] = s[Len(m) + i]
  BY DEF TopOf
<1>5. \A i \in 1 .. Len(below) : below[i] = m[i]
  BY DEF TopOf
<1>6. \A i \in 1 .. Len(lhs) : lhs[i] = m[Len(below) + i]
  BY DEF TopOf
<1>7. both \in Seq(S) /\ Len(both) = Len(lhs) + Len(rhs)
  BY <1>1, ConcatProperties
<1>8. \A i \in 1 .. Len(lhs) + Len(rhs) :
         both[i] = IF i <= Len(lhs) THEN lhs[i] ELSE rhs[i - Len(lhs)]
  BY <1>1, ConcatProperties
<1>. HIDE DEF both
<1>9. Len(s) \in Nat
  OBVIOUS
<1>10. /\ Len(rhs) \in Nat /\ Len(m) \in Nat /\ Len(m) = Len(s) - Len(rhs)
       /\ Len(lhs) \in Nat /\ Len(below) \in Nat /\ Len(below) = Len(m) - Len(lhs)
  <2>1. Len(rhs) \in Nat /\ Len(m) \in Nat /\ Len(lhs) \in Nat /\ Len(below) \in Nat
    BY <1>1, LenProperties
  <2>. QED BY <1>2, <2>1
<1>11. Len(both) = IF Len(s) < 2 THEN Len(s) ELSE 2
  <2>1. Len(s) = 0 => Len(both) = 0
    BY <1>2, <1>7, <1>9
  <2>2. Len(s) = 1 => Len(both) = 1
    BY <1>2, <1>7, <1>9
  <2>3. ASSUME Len(s) >= 2 PROVE Len(both) = 2
    <3>1. Len(rhs) = 1
      BY <1>2, <1>9, <2>3
    <3>2. Len(m) >= 1
      BY <1>9, <1>10, <2>3, <3>1
    <3>3. Len(lhs) = 1
      BY <1>2, <1>10, <3>2
    <3>. QED BY <1>7, <3>1, <3>3
  <2>4. \A a, b \in Nat : (a = 0 => b = 0) /\ (a = 1 => b = 1) /\ (a >= 2 => b = 2)
                             => b = IF a < 2 THEN a ELSE 2
    OBVIOUS
  <2>5. Len(both) \in Nat
    BY <1>7, LenProperties
  <2>. QED BY <1>9, <2>1, <2>2, <2>3, <2>4, <2>5
<1>12. Len(below) = Len(s) - Len(both)
  BY <1>7, <1>9, <1>10
<1>13. ASSUME NEW i \in 1 .. Len(below) PROVE below[i] = s[i]
  <2>1. i \in 1 .. Len(m)
    BY <1>10
  <2>. QED BY <1>3, <1>5, <2>1
<1>14. ASSUME NEW i \in 1 .. Len(both) PROVE both[i] = s[Len(below) + i]
  <2>1. i \in Int /\ 1 <= i /\ i <= Len(lhs) + Len(rhs) /\ i \in 1 .. Len(lhs) + Len(rhs)
    BY <1>7, <1>10
  <2>2. CASE i <= Len(lhs)
    <3>1. i \in 1 .. Len(lhs) /\ Len(below) + i \in 1 .. Len(m)
      BY <1>10, <2>1, <2>2
    <3>2. both[i] = lhs[i]
      BY <1>8, <2>1, <2>2
    <3>. QED BY <1>3, <1>6, <3>1, <3>2
  <2>3. CASE ~(i <= Len(lhs))
    <3>. DEFINE j == i - Len(lhs)
    <3>1. j \in 1 .. Len(rhs) /\ Len(m) + j = Len(below) + i
      BY <1>10, <2>1, <2>3
    <3>2. both[i] = rhs[j]
      BY <1>8, <2>1, <2>3
    <3>. HIDE DEF j
    <3>. QED BY <1>4, <3>1, <3>2
  <2>. QED BY <2>2, <2>3
<1>15. TopOf(S, s, 2, both, below)
  BY <1>1, <1>7, <1>11, <1>12, <1>13, <1>14 DEF TopOf
<1>. QED BY <1>15 DEF both

LEMMA PopParts ==
    ASSUME NEW S, NEW s \in Seq(S)
    PROVE  TopOf(S, s, 1, Calculator!pop(s).number, Calculator!pop(s).rest)
<1>. DEFINE number == Calculator!pop(s).number
            rest == Calculator!pop(s).rest
<1>1. s = <<>> => number = <<>> /\ rest = s
  BY DEF Calculator!pop
<1>2. s # <<>> => number = <<s[Len(s)]>> /\ rest = SubSeq(s, 1, Len(s) - 1)
  BY DEF Calculator!pop, Calculator!Last, Calculator!Front
<1>. HIDE DEF number, rest
<1>3. TopOf(S, s, 1, number, rest)
  BY <1>1, <1>2, OnePopped
<1>. QED BY <1>3 DEF number, rest

LEMMA PoppedParts ==
    ASSUME NEW S, NEW s \in Seq(S), NEW n \in 0 .. 2
    PROVE  TopOf(S, s, n, Calculator!Popped(s, n).operands, Calculator!Popped(s, n).rest)
<1>. DEFINE rhs == Calculator!pop(s).number
            m == Calculator!pop(s).rest
            lhs == Calculator!pop(m).number
            below == Calculator!pop(m).rest
            both == lhs \o rhs
<1>1. /\ n = 0 => Calculator!Popped(s, n) = [operands |-> <<>>, rest |-> s]
      /\ n = 1 => Calculator!Popped(s, n) = [operands |-> rhs, rest |-> m]
  BY DEF Calculator!Popped
<1>2. n = 2 => Calculator!Popped(s, n) = [operands |-> both, rest |-> below]
  <2>. SUFFICES ASSUME n = 2 PROVE Calculator!Popped(s, n) = [operands |-> both, rest |-> below]
    OBVIOUS
  <2>1. n # 0 /\ n # 1
    OBVIOUS
  <2>. QED BY <2>1, Zenon DEF Calculator!Popped
<1>3. TopOf(S, s, 1, rhs, m) /\ m \in Seq(S)
  BY PopParts DEF TopOf
<1>4. TopOf(S, m, 1, lhs, below)
  BY <1>3, PopParts
<1>5. TopOf(S, s, 2, both, below)
  <2>. HIDE DEF rhs, m, lhs, below
  <2>. QED BY <1>3, <1>4, TwoPopped
<1>6. TopOf(S, s, 0, <<>>, s)
  BY NonePopped
<1>. HIDE DEF rhs, m, lhs, below, both
<1>. QED BY <1>1, <1>2, <1>3, <1>5, <1>6

Operators == Calculator!Arithmetic \cup {"Swap", "Dup", "Drop"}

LEMMA TokenShapes ==
    ASSUME NEW t \in Calculator!Tokens
    PROVE  \/ t.op \in Operators
           \/ t.op = "integer"
           \/ t.op = "decimal" /\ t.value \in Doubles
           \/ t.op = "bogus"
BY DEF Calculator!Tokens, Operators, Calculator!Operation, Calculator!Integer,
       Calculator!Decimal, Calculator!Bogus

\* What an arm is given and what it may return.
AnswersWith(r, size) ==
    /\ r.error \in Calculator!Errors \cup {"none"} /\ r.error # "NotEnoughOperands"
    /\ r.results \in Seq(Calculator!Number)
    /\ r.error = "none" => Len(r.results) = size

LEMMA FailureAnswers ==
    ASSUME NEW e \in Calculator!Errors, e # "NotEnoughOperands", NEW size
    PROVE  AnswersWith(Calculator!Fails(e), size)
BY DEF AnswersWith, Calculator!Fails, Calculator!Errors, Calculator!ParseErrors, Calculator!StackErrors,
       Calculator!MathErrors

LEMMA SuccessAnswers ==
    ASSUME NEW s \in Seq(Calculator!Number)
    PROVE  AnswersWith(Calculator!Pushes(s), Len(s))
BY DEF AnswersWith, Calculator!Pushes

LEMMA ErrorNames == {"UnknownToken", "DivisionByZero", "NotIntegral", "Overflow"}
                       \subseteq Calculator!Errors \ {"NotEnoughOperands"}
BY DEF Calculator!Errors, Calculator!ParseErrors, Calculator!StackErrors, Calculator!MathErrors

LEMMA PushedOne ==
    ASSUME NEW n \in Calculator!Number
    PROVE  AnswersWith(Calculator!Pushes(<<n>>), 1)
<1>1. <<n>> \in Seq(Calculator!Number) /\ Len(<<n>>) = 1
  OBVIOUS
<1>. QED BY <1>1, SuccessAnswers

LEMMA ExecuteAnswers ==
    ASSUME NEW f \in Operators, NEW args \in Seq(Calculator!Number),
           Len(args) = Calculator!argument_count(f), NEW r \in Calculator!execute(f, args)
    PROVE  AnswersWith(r, Calculator!argument_count(f) + Calculator!Effect(f))
<1>1. CASE f = "Drop"
  <2>1. r = Calculator!Pushes(<<>>)
    BY <1>1 DEF Calculator!execute
  <2>2. <<>> \in Seq(Calculator!Number) /\ Len(<<>>) = 0
    OBVIOUS
  <2>3. Calculator!argument_count(f) + Calculator!Effect(f) = 0
    BY <1>1 DEF Calculator!argument_count, Calculator!Effect
  <2>. QED BY <2>1, <2>2, <2>3, SuccessAnswers
<1>2. CASE f = "Dup"
  <2>1. r = Calculator!Pushes(<<args[1], args[1]>>)
    BY <1>2 DEF Calculator!execute
  <2>2. Len(args) = 1
    BY <1>2 DEF Calculator!argument_count
  <2>3. <<args[1], args[1]>> \in Seq(Calculator!Number) /\ Len(<<args[1], args[1]>>) = 2
    BY <2>2
  <2>4. Calculator!argument_count(f) + Calculator!Effect(f) = 2
    BY <1>2 DEF Calculator!argument_count, Calculator!Effect, Calculator!Arithmetic
  <2>. QED BY <2>1, <2>3, <2>4, SuccessAnswers
<1>3. CASE f = "Swap"
  <2>1. r = Calculator!Pushes(<<args[2], args[1]>>)
    BY <1>3 DEF Calculator!execute
  <2>2. Len(args) = 2
    BY <1>3 DEF Calculator!argument_count
  <2>3. <<args[2], args[1]>> \in Seq(Calculator!Number) /\ Len(<<args[2], args[1]>>) = 2
    BY <2>2
  <2>4. Calculator!argument_count(f) + Calculator!Effect(f) = 2
    BY <1>3 DEF Calculator!argument_count, Calculator!Effect, Calculator!Arithmetic
  <2>. QED BY <2>1, <2>3, <2>4, SuccessAnswers
<1>4. CASE f \in Calculator!Arithmetic
  <2>1. /\ f \notin {"Drop", "Dup", "Swap"} /\ Calculator!argument_count(f) = 2
        /\ Calculator!argument_count(f) + Calculator!Effect(f) = 1
    BY <1>4 DEF Calculator!Arithmetic, Calculator!argument_count, Calculator!Effect
  <2>2. args[1] \in Calculator!Number /\ args[2] \in Calculator!Number
    BY <2>1
  <2>. DEFINE onLongs == \A i \in 1 .. 2 : args[i].type = "long"
              a == args[1].val
              b == args[2].val
  <2>3. r \in IF onLongs THEN Calculator!OfLongs(a, b, f) ELSE Calculator!Promoted(args[1], args[2], f)
    BY <2>1, Zenon DEF Calculator!execute
  <2>4. CASE onLongs
    <3>1. args[1].type = "long" /\ args[2].type = "long"
      BY <2>4
    <3>2. a \in Calculator!Longs /\ b \in Calculator!Longs
      <4>1. \A n \in Calculator!Number : n.type = "long" => n.val \in Calculator!Longs
        BY LongNumbers, Zenon
      <4>. QED BY <2>2, <3>1, <4>1, Zenon
    <3>3. r \in Calculator!OfLongs(a, b, f)
      BY <2>3, <2>4
    <3>. HIDE DEF a, b, onLongs
    <3>4. \/ r = Calculator!Fails("DivisionByZero")
          \/ r = Calculator!Fails("Overflow")
          \/ \E v \in Calculator!Longs : r = Calculator!Pushes(<<Calculator!Long(v)>>)
      BY <1>4, <3>2, <3>3, LongArm
    <3>5. ASSUME NEW v \in Calculator!Longs PROVE AnswersWith(Calculator!Pushes(<<Calculator!Long(v)>>), 1)
      BY NumberShapes, PushedOne
    <3>. QED BY <2>1, <3>4, <3>5, FailureAnswers, ErrorNames
  <2>5. CASE ~onLongs
    <3>1. r \in Calculator!Promoted(args[1], args[2], f)
      BY <2>3, <2>5
    <3>2. \/ r \in {Calculator!Fails("NotIntegral"), Calculator!Fails("DivisionByZero"),
                    Calculator!Fails("Overflow")}
          \/ \E d \in Doubles : r = Calculator!Pushes(<<Calculator!Double(d)>>)
      BY <3>1 DEF Calculator!Promoted
    <3>3. ASSUME NEW d \in Doubles PROVE AnswersWith(Calculator!Pushes(<<Calculator!Double(d)>>), 1)
      BY NumberShapes, PushedOne
    <3>. QED BY <2>1, <3>2, <3>3, FailureAnswers, ErrorNames
  <2>. QED BY <2>4, <2>5
<1>. QED BY <1>1, <1>2, <1>3, <1>4 DEF Operators

LEMMA TakesAtMostTwo ==
    ASSUME NEW t \in Calculator!Tokens
    PROVE  Calculator!Takes(t) \in 0 .. 2 /\ Calculator!Effect(t.op) \in Int
BY DEF Calculator!Takes, Calculator!argument_count, Calculator!Effect

LEMMA StepAnswers ==
    ASSUME NEW t \in Calculator!Tokens, NEW operands \in Seq(Calculator!Number),
           Len(operands) <= Calculator!Takes(t), NEW r \in Calculator!step(t, operands)
    PROVE  /\ Len(operands) = Calculator!Takes(t) =>
                 AnswersWith(r, Calculator!Takes(t) + Calculator!Effect(t.op))
           /\ Len(operands) < Calculator!Takes(t) => r = Calculator!Fails("NotEnoughOperands")
<1>1. CASE t.op = "bogus"
  <2>1. Calculator!Takes(t) = 0 /\ r = Calculator!Fails("UnknownToken")
    BY <1>1 DEF Calculator!Takes, Calculator!step
  <2>2. Len(operands) \in Nat
    OBVIOUS
  <2>. QED BY <2>1, <2>2, FailureAnswers, ErrorNames
<1>2. CASE t.op \in {"integer", "decimal"}
  <2>1. Calculator!Takes(t) = 0 /\ Calculator!Effect(t.op) = 1
    BY <1>2 DEF Calculator!Takes, Calculator!Effect, Calculator!Arithmetic
  <2>2. \E n \in Calculator!parse(t) : r = Calculator!Pushes(<<n>>)
    BY <1>2 DEF Calculator!step
  <2>3. Calculator!parse(t) \subseteq Calculator!Number
    <3>1. CASE t.op = "integer"
      BY <3>1, NumberShapes DEF Calculator!parse
    <3>2. CASE t.op = "decimal"
      <4>1. t.value \in Doubles
        BY <3>2, TokenShapes DEF Operators, Calculator!Arithmetic
      <4>. QED BY <3>2, <4>1, NumberShapes DEF Calculator!parse
    <3>. QED BY <1>2, <3>1, <3>2
  <2>4. Len(operands) \in Nat /\ Calculator!Takes(t) + Calculator!Effect(t.op) = 1
    BY <2>1
  <2>5. AnswersWith(r, 1)
    BY <2>2, <2>3, PushedOne
  <2>. QED BY <2>1, <2>4, <2>5
<1>3. CASE t.op \in Operators
  <2>1. /\ t.op \notin {"integer", "decimal", "bogus"}
        /\ Calculator!Takes(t) = Calculator!argument_count(t.op)
    BY <1>3 DEF Operators, Calculator!Arithmetic, Calculator!Takes
  <2>2. r \in IF Len(operands) < Calculator!Takes(t) THEN {Calculator!Fails("NotEnoughOperands")}
              ELSE Calculator!execute(t.op, operands)
    BY <2>1, Zenon DEF Calculator!step
  <2>3. CASE Len(operands) < Calculator!Takes(t)
    BY <2>2, <2>3, TakesAtMostTwo
  <2>4. CASE Len(operands) = Calculator!Takes(t)
    <3>1. r \in Calculator!execute(t.op, operands)
      BY <2>2, <2>4, TakesAtMostTwo
    <3>2. AnswersWith(r, Calculator!argument_count(t.op) + Calculator!Effect(t.op))
      BY <1>3, <2>1, <2>4, <3>1, ExecuteAnswers
    <3>. QED BY <2>1, <2>4, <3>2, TakesAtMostTwo
  <2>. QED BY <2>3, <2>4, TakesAtMostTwo
<1>. QED BY <1>1, <1>2, <1>3, TokenShapes

(***************************************************************************)
(* The calculator: its steps.                                              *)
(***************************************************************************)
\* One round of the fold, seen from its operands.
LEMMA EvaluateParts ==
    ASSUME Calculator!TypeOK, NEW t \in Calculator!Tokens, Calculator!Evaluate(t)
    PROVE  \E operands, rest, r :
              /\ TopOf(Calculator!Number, acc, Calculator!Takes(t), operands, rest)
              /\ r \in Calculator!step(t, operands)
              /\ error' = r.error /\ acc' = rest \o r.results
              /\ token' = t /\ count' = count + 1 /\ stack' = stack /\ count < MaxTokens
<1>. DEFINE popped == Calculator!Popped(acc, Calculator!Takes(t))
<1>1. PICK r \in Calculator!step(t, popped.operands) : error' = r.error /\ acc' = popped.rest \o r.results
  BY DEF Calculator!Evaluate
<1>2. token' = t /\ count' = count + 1 /\ stack' = stack /\ count < MaxTokens
  BY DEF Calculator!Evaluate
<1>3. TopOf(Calculator!Number, acc, Calculator!Takes(t), popped.operands, popped.rest)
  BY PoppedParts, TakesAtMostTwo DEF Calculator!TypeOK
<1>. HIDE DEF popped
<1>. QED BY <1>1, <1>2, <1>3, Zenon

LEMMA EvaluationHolds ==
    ASSUME Calculator!TypeOK, NEW t \in Calculator!Tokens, Calculator!Evaluate(t)
    PROVE  /\ Calculator!TypeOK'
           /\ error' = "none" =>
                 /\ Len(acc') = Len(acc) + Calculator!Effect(t.op)
                 /\ \A i \in 1 .. Len(acc) - Calculator!Takes(t) : acc'[i] = acc[i]
           /\ error' = "NotEnoughOperands" <=> Len(acc) < Calculator!Takes(t)
<1>1. PICK operands, rest, r :
         /\ TopOf(Calculator!Number, acc, Calculator!Takes(t), operands, rest)
         /\ r \in Calculator!step(t, operands)
         /\ error' = r.error /\ acc' = rest \o r.results
         /\ token' = t /\ count' = count + 1 /\ stack' = stack /\ count < MaxTokens
  BY EvaluateParts, Zenon
<1>. DEFINE n == Calculator!Takes(t)
            e == Calculator!Effect(t.op)
<1>2. n \in 0 .. 2 /\ e \in Int
  BY TakesAtMostTwo
<1>3. /\ acc \in Seq(Calculator!Number) /\ stack \in Seq(Calculator!Number)
      /\ count \in Nat /\ MaxTokens \in Nat /\ Len(acc) \in Nat
  BY LongWidth DEF Calculator!TypeOK
<1>4. /\ operands \in Seq(Calculator!Number) /\ rest \in Seq(Calculator!Number)
      /\ Len(operands) = (IF Len(acc) < n THEN Len(acc) ELSE n)
      /\ Len(rest) = Len(acc) - Len(operands)
      /\ \A i \in 1 .. Len(rest) : rest[i] = acc[i]
  BY <1>1 DEF TopOf
<1>5. /\ Len(operands) = n => AnswersWith(r, n + e)
      /\ Len(operands) < n => r = Calculator!Fails("NotEnoughOperands")
  <2>1. Len(operands) <= n
    BY <1>2, <1>3, <1>4
  <2>. QED BY <1>1, <1>4, <2>1, StepAnswers
<1>6. CASE Len(acc) < n
  <2>1. Len(operands) < n
    BY <1>2, <1>3, <1>4, <1>6
  <2>2. r.error = "NotEnoughOperands" /\ r.results = <<>>
    BY <1>5, <2>1, Answers
  <2>3. acc' = rest
    BY <1>1, <1>4, <2>2, ConcatEmptySeq
  <2>4. error' \in Calculator!Errors \cup {"none"} /\ error' # "none" /\ error' = "NotEnoughOperands"
    BY <1>1, <2>2 DEF Calculator!Errors, Calculator!StackErrors
  <2>5. Calculator!TypeOK'
    BY <1>1, <1>3, <1>4, <2>3, <2>4 DEF Calculator!TypeOK
  <2>. QED BY <1>6, <2>4, <2>5
<1>7. CASE ~(Len(acc) < n)
  <2>1. Len(operands) = n /\ Len(rest) = Len(acc) - n
    BY <1>2, <1>3, <1>4, <1>7
  <2>2. /\ r.error \in Calculator!Errors \cup {"none"} /\ r.error # "NotEnoughOperands"
        /\ r.results \in Seq(Calculator!Number)
        /\ r.error = "none" => Len(r.results) = n + e
    BY <1>5, <2>1 DEF AnswersWith
  <2>. DEFINE results == r.results
  <2>3. /\ acc' \in Seq(Calculator!Number) /\ Len(acc') = Len(rest) + Len(results)
        /\ \A i \in 1 .. Len(rest) + Len(results) :
              acc'[i] = IF i <= Len(rest) THEN rest[i] ELSE results[i - Len(rest)]
    <3>1. results \in Seq(Calculator!Number) /\ acc' = rest \o results
      BY <1>1, <2>2
    <3>. HIDE DEF results
    <3>. QED BY <1>4, <3>1, ConcatProperties
  <2>4. Calculator!TypeOK'
    BY <1>1, <1>3, <2>2, <2>3 DEF Calculator!TypeOK
  <2>5. ASSUME error' = "none"
        PROVE  /\ Len(acc') = Len(acc) + e
               /\ \A i \in 1 .. Len(acc) - n : acc'[i] = acc[i]
    <3>1. Len(results) = n + e
      BY <1>1, <2>2, <2>5
    <3>. HIDE DEF results, n, e
    <3>2. Len(acc') = Len(acc) + e
      BY <1>2, <1>3, <2>1, <2>3, <3>1
    <3>3. ASSUME NEW i \in 1 .. Len(acc) - n PROVE acc'[i] = acc[i]
      <4>1. i \in 1 .. Len(rest) /\ i <= Len(rest) /\ Len(rest) \in Nat
        BY <2>1, <1>4
      <4>2. Len(results) \in Nat
        BY <2>2, LenProperties DEF results
      <4>3. i \in 1 .. Len(rest) + Len(results)
        BY <4>1, <4>2
      <4>. QED BY <1>4, <2>3, <4>1, <4>3
    <3>. QED BY <3>2, <3>3
  <2>. QED BY <1>1, <1>7, <2>2, <2>4, <2>5
<1>. QED BY <1>6, <1>7

LEMMA EndLineHolds ==
    ASSUME Calculator!TypeOK, Calculator!EndLine
    PROVE  Calculator!TypeOK' /\ ~(count' = count + 1)
<1>1. count \in Nat /\ MaxTokens \in Nat
  BY LongWidth DEF Calculator!TypeOK
<1>2. count' = 0 /\ token' = Calculator!NoToken /\ error' = "none" /\ stack' \in {acc, stack} /\ acc' = stack'
  BY DEF Calculator!EndLine
<1>. QED BY <1>1, <1>2 DEF Calculator!TypeOK

\* What a round leaves of two longs is their result, or a refusal deserved.
LEMMA OnLongsHolds ==
    ASSUME Calculator!TypeOK, NEW t \in Calculator!Tokens, Calculator!Evaluate(t), Calculator!OnLongs
    PROVE  Calculator!Deserved
<1>1. PICK operands, rest, r :
         /\ TopOf(Calculator!Number, acc, Calculator!Takes(t), operands, rest)
         /\ r \in Calculator!step(t, operands)
         /\ error' = r.error /\ acc' = rest \o r.results
         /\ token' = t /\ count' = count + 1 /\ stack' = stack /\ count < MaxTokens
  BY EvaluateParts, Zenon
<1>. DEFINE f == t.op
            a == acc[Len(acc) - 1].val
            b == Calculator!Last(acc).val
<1>2. /\ f \in Calculator!Arithmetic /\ Len(acc) >= 2 /\ token' = t
      /\ acc[Len(acc) - 1].type = "long" /\ Calculator!Last(acc).type = "long"
  BY <1>1 DEF Calculator!OnLongs
<1>3. Calculator!Takes(t) = 2 /\ f \notin {"integer", "decimal", "bogus", "Drop", "Dup", "Swap"}
  BY <1>2 DEF Calculator!Takes, Calculator!argument_count, Calculator!Arithmetic
<1>4. acc \in Seq(Calculator!Number) /\ Len(acc) \in Nat
  BY DEF Calculator!TypeOK
<1>5. /\ operands \in Seq(Calculator!Number) /\ rest \in Seq(Calculator!Number)
      /\ Len(operands) = 2 /\ Len(rest) = Len(acc) - 2
      /\ operands[1] = acc[Len(acc) - 1] /\ operands[2] = Calculator!Last(acc)
  <2>1. /\ operands \in Seq(Calculator!Number) /\ rest \in Seq(Calculator!Number)
        /\ Len(operands) = 2 /\ Len(rest) = Len(acc) - 2
    BY <1>1, <1>2, <1>3, <1>4 DEF TopOf
  <2>2. \A i \in 1 .. 2 : operands[i] = acc[Len(rest) + i]
    BY <1>1, <2>1 DEF TopOf
  <2>3. operands[1] = acc[Len(acc) - 1] /\ operands[2] = acc[Len(acc)]
    BY <1>4, <2>1, <2>2
  <2>4. Calculator!Last(acc) = acc[Len(acc)]
    BY DEF Calculator!Last
  <2>. QED BY <2>1, <2>3, <2>4
<1>6. a \in Calculator!Longs /\ b \in Calculator!Longs
  <2>1. \A n \in Calculator!Number : n.type = "long" => n.val \in Calculator!Longs
    BY LongNumbers, Zenon
  <2>2. acc[Len(acc) - 1] \in Calculator!Number /\ Calculator!Last(acc) \in Calculator!Number
    BY <1>2, <1>4 DEF Calculator!Last
  <2>. QED BY <1>2, <2>1, <2>2, Zenon
<1>7. r \in Calculator!OfLongs(a, b, f)
  <2>1. r \in IF Len(operands) < Calculator!Takes(t) THEN {Calculator!Fails("NotEnoughOperands")}
              ELSE Calculator!execute(f, operands)
    BY <1>1, <1>3, Zenon DEF Calculator!step
  <2>2. r \in Calculator!execute(f, operands)
    BY <1>3, <1>5, <2>1
  <2>3. \A i \in 1 .. 2 : operands[i].type = "long"
    BY <1>2, <1>5
  <2>4. r \in Calculator!OfLongs(operands[1].val, operands[2].val, f)
    BY <1>3, <2>2, <2>3, Zenon DEF Calculator!execute
  <2>. QED BY <1>5, <2>4
<1>8. \/ r = Calculator!Fails("DivisionByZero") /\ f \in {"Div", "Mod"} /\ b = 0
      \/ /\ r = Calculator!Fails("Overflow")
         /\ ~\E v \in Calculator!Longs : Calculator!Solves(a, b, IF f = "Mod" THEN "Div" ELSE f, v)
      \/ \E v \in Calculator!Longs :
            r = Calculator!Pushes(<<Calculator!Long(v)>>) /\ Calculator!Solves(a, b, f, v)
  <2>. HIDE DEF a, b, f
  <2>. QED BY <1>2, <1>6, <1>7, LongArm DEF f
<1>. HIDE DEF a, b, f
<1>9. CASE r = Calculator!Fails("DivisionByZero") /\ f \in {"Div", "Mod"} /\ b = 0
  <2>1. error' = "DivisionByZero" /\ error' \notin {"none", "Overflow"}
    BY <1>1, <1>9, Answers
  <2>. QED BY <1>1, <1>9, <2>1 DEF a, b, f, Calculator!Deserved
<1>10. CASE /\ r = Calculator!Fails("Overflow")
            /\ ~\E v \in Calculator!Longs : Calculator!Solves(a, b, IF f = "Mod" THEN "Div" ELSE f, v)
  <2>1. error' = "Overflow" /\ error' # "none"
    BY <1>1, <1>10, Answers
  <2>. QED BY <1>1, <1>10, <2>1, Zenon DEF a, b, f, Calculator!Deserved
<1>11. CASE \E v \in Calculator!Longs :
               r = Calculator!Pushes(<<Calculator!Long(v)>>) /\ Calculator!Solves(a, b, f, v)
  <2>1. PICK v \in Calculator!Longs :
                r = Calculator!Pushes(<<Calculator!Long(v)>>) /\ Calculator!Solves(a, b, f, v)
    BY <1>11
  <2>. DEFINE n == Calculator!Long(v)
  <2>2. error' = "none" /\ acc' = rest \o <<n>>
    BY <1>1, <2>1, Answers
  <2>3. n.type = "long" /\ n.val = v /\ n \in Calculator!Number
    BY NumberShapes DEF Calculator!Long
  <2>. HIDE DEF n
  <2>4. Calculator!Last(acc') = n
    <3>1. Len(rest \o <<n>>) = Len(rest) + 1 /\ (rest \o <<n>>)[Len(rest) + 1] = n
      BY <1>5, <2>3
    <3>. QED BY <2>2, <3>1 DEF Calculator!Last
  <2>. QED BY <1>1, <2>1, <2>2, <2>3, <2>4, Zenon DEF a, b, f, Calculator!Deserved
<1>. QED BY <1>8, <1>9, <1>10, <1>11

LEMMA CalculatorStarts == ExamplesInit => Calculator!TypeOK
<1>. SUFFICES ASSUME ExamplesInit PROVE Calculator!TypeOK
  OBVIOUS
<1>1. /\ stack = <<>> /\ acc = <<>> /\ token = Calculator!NoToken /\ error = "none" /\ count = 0
  BY DEF ExamplesInit, Calculator!Init
<1>2. <<>> \in Seq(Calculator!Number) /\ 0 \in 0 .. MaxTokens
  BY LongWidth
<1>. QED BY <1>1, <1>2 DEF Calculator!TypeOK

LEMMA ExamplesSteps ==
    [ExamplesNext]_allVars => \/ Calculator!EndLine
                              \/ \E t \in Calculator!Tokens : Calculator!Evaluate(t)
                              \/ UNCHANGED Calculator!vars
BY DEF ExamplesNext, Readme, Calculates, Calculator!Next, allVars, calculatorVars, Calculator!vars

LEMMA CalculatorKeeps == Calculator!TypeOK /\ [ExamplesNext]_allVars => Calculator!TypeOK'
<1>. SUFFICES ASSUME Calculator!TypeOK, [ExamplesNext]_allVars PROVE Calculator!TypeOK'
  OBVIOUS
<1>1. CASE Calculator!EndLine
  BY <1>1, EndLineHolds
<1>2. ASSUME NEW t \in Calculator!Tokens, Calculator!Evaluate(t) PROVE Calculator!TypeOK'
  BY <1>2, EvaluationHolds
<1>3. CASE UNCHANGED Calculator!vars
  BY <1>3 DEF Calculator!vars, Calculator!TypeOK
<1>. QED BY <1>1, <1>2, <1>3, ExamplesSteps

\* Every variable of the calculator keeps its type, for a long of any width: no
\* double that is not finite reaches the stack, and no long out of range.
THEOREM CalculatorTypeCorrect == ExamplesSpec => []CalculatorTypeOK
<1>1. ExamplesSpec => []Calculator!TypeOK
  BY CalculatorStarts, CalculatorKeeps, PTL DEF ExamplesSpec
<1>. QED BY <1>1, PTL DEF CalculatorTypeOK

\* On longs of any width the guards of the arms refuse exactly what does not fit,
\* and what they let through is the result in the integers.
THEOREM AlwaysExactOrRefused == ExamplesSpec => ExactOrRefused
<1>1. Calculator!TypeOK /\ [ExamplesNext]_allVars => [Calculator!Deserved]_(Calculator!vars)
  <2>. SUFFICES ASSUME Calculator!TypeOK, [ExamplesNext]_allVars, Calculator!OnLongs,
                       ~UNCHANGED Calculator!vars
                PROVE  Calculator!Deserved
    BY DEF Calculator!Deserved
  <2>1. ~Calculator!EndLine
    BY EndLineHolds DEF Calculator!OnLongs, Calculator!Evaluated
  <2>2. PICK t \in Calculator!Tokens : Calculator!Evaluate(t)
    BY <2>1, ExamplesSteps
  <2>. QED BY <2>2, OnLongsHolds
<1>2. ExamplesSpec => []Calculator!TypeOK
  BY CalculatorStarts, CalculatorKeeps, PTL DEF ExamplesSpec
<1>3. ExamplesSpec => [][Calculator!Deserved]_(Calculator!vars)
  BY <1>1, <1>2, PTL DEF ExamplesSpec
<1>. QED BY <1>3, PTL DEF ExactOrRefused, Calculator!ExactOrRefused

\* A token replaces its operands by its results and touches nothing below them,
\* and it is refused for want of operands exactly where they are wanting.
THEOREM TokensKeepToTheirOperands == ExamplesSpec => OperandsOnly
<1>1. Calculator!TypeOK /\ [ExamplesNext]_allVars => [Calculator!Replaces]_(Calculator!vars)
  <2>. SUFFICES ASSUME Calculator!TypeOK, [ExamplesNext]_allVars, Calculator!Evaluated,
                       ~UNCHANGED Calculator!vars
                PROVE  Calculator!Replaces
    BY DEF Calculator!Replaces
  <2>1. ~Calculator!EndLine
    BY EndLineHolds DEF Calculator!Evaluated
  <2>2. PICK t \in Calculator!Tokens : Calculator!Evaluate(t)
    BY <2>1, ExamplesSteps
  <2>3. token' = t
    BY <2>2 DEF Calculator!Evaluate
  <2>. QED BY <2>2, <2>3, EvaluationHolds, Zenon DEF Calculator!Replaces
<1>2. ExamplesSpec => []Calculator!TypeOK
  BY CalculatorStarts, CalculatorKeeps, PTL DEF ExamplesSpec
<1>3. ExamplesSpec => [][Calculator!Replaces]_(Calculator!vars)
  BY <1>1, <1>2, PTL DEF ExamplesSpec
<1>. QED BY <1>3, PTL DEF OperandsOnly, Calculator!OperandsOnly
=============================================================================
