------------------------------- MODULE Floats -------------------------------
(***************************************************************************)
(* The float64 of Go with Precision binary digits in place of 53.  A number*)
(* is a fraction in lowest terms over a power of two; over 0 it is +Inf,   *)
(* -Inf or, as 0 over 0, NaN, and then the rules of fractions give those   *)
(* of IEEE 754: x / 0 is infinite, 0 / 0 and 0 * Inf are NaN, and no       *)
(* comparison with NaN holds.  Exponents have no bounds, so numbers neither*)
(* overflow nor underflow, and there is one zero.                          *)
(***************************************************************************)
EXTENDS Integers

CONSTANT Precision

ASSUME PrecisionAssumption == Precision \in Nat \ {0, 1}

Whole(i) == [num |-> i, den |-> 1]

Zero == Whole(0)

IsFinite(x) == x.den # 0

IsNaN(x) == x.den = 0 /\ x.num = 0

Neg(x) == [x EXCEPT !.num = -@]

Less(x, y) ==
    \/ x.num * y.den < y.num * x.den
    \/ x.den = 0 /\ y.den = 0 /\ x.num < 0 /\ y.num > 0

\* Exact results, in no particular terms.
Sum(x, y) == [num |-> x.num * y.den + y.num * x.den, den |-> x.den * y.den]

Product(x, y) == [num |-> x.num * y.num, den |-> x.den * y.den]

Ratio(x, y) ==
    LET sign == IF y.num < 0 THEN -1 ELSE 1
    IN  [num |-> sign * x.num * y.den, den |-> sign * x.den * y.num]

----------------------------------------------------------------------------
\* The binary digits of a natural number.
width[n \in Nat] == IF n = 0 THEN 0 ELSE 1 + width[n \div 2]

\* n * 2^e, when that is more.
Up(n, e) == IF e > 0 THEN n * 2^e ELSE n

\* The e with 2^e <= n / d < 2^(e + 1).
Exponent(n, d) ==
    LET e == width[n] - width[d]
    IN  IF Up(n, -e) < Up(d, e) THEN e - 1 ELSE e

\* m * 2^e in lowest terms.
Scaled(m, e) ==
    IF e >= 0 THEN Whole(m * 2^e)
    ELSE LET k == CHOOSE k \in 0 .. -e : m % 2^k = 0 /\ (k = -e \/ m % 2^(k + 1) # 0)
         IN  [num |-> m \div 2^k, den |-> 2^(-e - k)]

\* n / d to the nearest whole number, halves to the even one.
Nearest(n, d) ==
    LET q == n \div d
        r == n % d
    IN  IF 2 * r > d \/ (2 * r = d /\ q % 2 = 1) THEN q + 1 ELSE q

RoundPositive(n, d) ==
    LET e == Exponent(n, d) - Precision + 1
    IN  Scaled(Nearest(Up(n, -e), Up(d, e)), e)

\* The number nearest to an exact result.
Round(x) ==
    IF x.den = 0 THEN [num |-> IF x.num > 0 THEN 1 ELSE IF x.num < 0 THEN -1 ELSE 0, den |-> 0]
    ELSE IF x.num = 0 THEN Zero
    ELSE IF x.num > 0 THEN RoundPositive(x.num, x.den)
    ELSE Neg(RoundPositive(-x.num, x.den))

IsFloat(x) == x.num \in Int /\ x.den \in Nat /\ Round(x) = x

----------------------------------------------------------------------------
Plus(x, y) == IF x = y /\ ~IsFinite(x) THEN x ELSE Round(Sum(x, y))

Minus(x, y) == Plus(x, Neg(y))

Times(x, y) == Round(Product(x, y))

Over(x, y) == Round(Ratio(x, y))

\* math.Min
Least(x, y) == IF IsNaN(x) \/ Less(x, y) THEN x ELSE y

\* math.Sqrt of a positive x: q * 2^e, the square of q nearest to x / 4^e.  No
\* x of Precision digits has its root half way between two numbers.
Sqrt(x) ==
    LET e == Exponent(x.num, x.den) \div 2 - Precision + 1
        Beyond(r) == Up(x.num, 2 - 2 * e) < r * r * Up(x.den, 2 * e - 2)
    IN  Scaled(CHOOSE q \in 2^(Precision - 1) .. 2^Precision : ~Beyond(2 * q - 1) /\ Beyond(2 * q + 1), e)

\* x + y loses something to rounding.
Inexact(x, y) == ~(IsFinite(x) /\ IsFinite(y)) \/ Less(Plus(x, y), Sum(x, y)) \/ Less(Sum(x, y), Plus(x, y))
=============================================================================
