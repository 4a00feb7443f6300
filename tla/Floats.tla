------------------------------- MODULE Floats -------------------------------
(***************************************************************************)
(* Java's float and int arithmetic, as far as OrderUtils uses it, on       *)
(* numbers that are not negative: operations round to nearest, ties to     *)
(* even, and a float prints as the shortest decimal that reads as it.      *)
(* A float is k * 2^e with 24 bits of k, the first of them set, or zero;   *)
(* it is between 10^-7 and 10^10, so its exponent is always in range.      *)
(***************************************************************************)
EXTENDS Integers

FloatZero == [k |-> 0, e |-> 0]
BitLength(n) == IF n = 0 THEN 0 ELSE CHOOSE b \in 1 .. 31 : n \div 2 ^ (b - 1) = 1

\* (q + rest / unit) * 2^e for a q of 24 bits.
Rounded(q, rest, unit, e) ==
    LET up == 2 * rest > unit \/ (2 * rest = unit /\ q % 2 = 1)
    IN  IF ~up THEN [k |-> q, e |-> e]
        ELSE IF q + 1 < 2 ^ 24 THEN [k |-> q + 1, e |-> e]
        ELSE [k |-> 2 ^ 23, e |-> e + 1]

\* The float nearest to (a / c) * 2^e, for 1 <= a / c < 2, by long division.
LongDivision(a, c, e) ==
    LET long[i \in 0 .. 23] ==
            IF i = 0 THEN <<1, a - c>>
            ELSE LET l == long[i - 1]
                 IN  <<2 * l[1] + (2 * l[2]) \div c, (2 * l[2]) % c>>
    IN  Rounded(long[23][1], long[23][2], c, e - 23)

\* The same for 1/2 < a / c < 2, and the float nearest to (n / d) * 2^e, for
\* n and d below 2^29, of which one is shifted to as many bits as the other.
Normalized(a, c, e) ==
    IF a < c THEN LongDivision(2 * a, c, e - 1) ELSE LongDivision(a, c, e)
Aligned(n, d, s, e) == Normalized(IF s > 0 THEN n * 2 ^ s ELSE n,
                                  IF s < 0 THEN d * 2 ^ (-s) ELSE d, e - s)
Quotient(n, d, e) ==
    IF n = 0 THEN FloatZero ELSE Aligned(n, d, BitLength(d) - BitLength(n), e)

\* An int becomes a float; ints have up to 31 bits.
FloatOf(n) ==
    IF n < 2 ^ 24 THEN Quotient(n, 1, 0)
    ELSE LET b == BitLength(n) - 24
         IN  Rounded(n \div 2 ^ b, n % 2 ^ b, 2 ^ b, b)

\* 48 bits of a product, in two halves.
Product(j, k) ==
    LET middle == (j \div 2 ^ 12) * (k % 2 ^ 12) + (j % 2 ^ 12) * (k \div 2 ^ 12)
        low == (j % 2 ^ 12) * (k % 2 ^ 12) + (middle % 2 ^ 12) * 2 ^ 12
    IN  [high |-> (j \div 2 ^ 12) * (k \div 2 ^ 12) + middle \div 2 ^ 12
                  + low \div 2 ^ 24,
         low |-> low % 2 ^ 24]

Times(x, y) ==
    LET p == Product(x.k, y.k) IN
    IF x.k = 0 \/ y.k = 0 THEN FloatZero
    ELSE IF p.high >= 2 ^ 23 THEN Rounded(p.high, p.low, 2 ^ 24, x.e + y.e + 24)
    ELSE Rounded(2 * p.high + p.low \div 2 ^ 23, p.low % 2 ^ 23, 2 ^ 23,
                 x.e + y.e + 23)
Over(x, y) == Quotient(x.k, y.k, x.e - y.e)
AtMost(x, y) == \/ x.k = 0
                \/ y.k # 0 /\ (x.e < y.e \/ (x.e = y.e /\ x.k <= y.k))

---------------------------------------------------------------------------
(* Math.floor, Math.ceil and Math.round.                                   *)

\* The whole part; what is smaller than 1 has an exponent below -23.
Whole(x) == IF x.e >= 0 THEN x.k * 2 ^ x.e
            ELSE IF x.e < -23 THEN 0 ELSE x.k \div 2 ^ (-x.e)
Integral(x) == x.e >= 0 \/ (x.e >= -23 /\ x.k % 2 ^ (-x.e) = 0)
Floor(x) == IF Integral(x) THEN x ELSE FloatOf(Whole(x))
Ceil(x) == IF Integral(x) THEN x ELSE FloatOf(Whole(x) + 1)

\* Halves are rounded up, and an int is at most MaxInt.
MaxInt == 2147483647
Round(x) ==
    IF x.e >= 8 THEN MaxInt
    ELSE IF x.e >= 0 THEN Whole(x)
    ELSE IF x.e < -24 THEN 0
    ELSE (x.k + 2 ^ (-x.e - 1)) \div 2 ^ (-x.e)

\* x * 10 as an int, of which there are 2^32.
TimesTen(x) ==
    LET low == (x % 2 ^ 16) * 10
        high == ((x \div 2 ^ 16) * 10 + low \div 2 ^ 16) % 2 ^ 16
    IN  (IF high >= 2 ^ 15 THEN high - 2 ^ 16 ELSE high) * 2 ^ 16
        + (low % 2 ^ 16)

---------------------------------------------------------------------------
(* Decimals: the literals of a program, and what String.valueOf prints.    *)

\* 10^d, which is a float for d up to 10, and m / 10^d.
TenTo(d) == [FloatOf(5 ^ d) EXCEPT !.e = @ + d]
Decimal(m, d) == IF d >= 0 THEN Quotient(m, 5 ^ d, -d)
                 ELSE Times(FloatOf(m), TenTo(-d))

\* x is the float nearest to a decimal with d digits behind the point, or
\* with -d zeros before it: one of those around x * 10^d.  From 2^25 on the
\* decimals are closer to each other than floats.
IsDecimalNear(x, d, scaled) ==
    \/ scaled.e >= 2
    \/ \E m \in Whole(scaled) - 1 .. Whole(scaled) + 2 : m >= 0 /\ Decimal(m, d) = x
IsDecimal(x, d) ==
    IsDecimalNear(x, d, IF d >= 0 THEN Times(x, TenTo(d)) ELSE Over(x, TenTo(-d)))
=============================================================================
