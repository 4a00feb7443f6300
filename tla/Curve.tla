------------------------------- MODULE Curve -------------------------------
(***************************************************************************)
(* A short Weierstrass curve y^2 = x^3 + B over the field of P elements,   *)
(* of prime order N < P < 2N, as secp256k1 is: the reference the native    *)
(* code is compared with.  Points are <<x, y>>, or the empty tuple for the *)
(* point at infinity; the group law is the textbook one.                   *)
(***************************************************************************)
EXTENDS Integers

CONSTANTS
    P,          \* the prime of the field, congruent to 3 modulo 4
    B,          \* CURVE_B
    G,          \* the generator
    N           \* the order of the group

ASSUME CurveAssumption ==
    /\ P \in Nat /\ N \in Nat /\ B \in 1 .. P - 1
    /\ P % 4 = 3 /\ 3 < N /\ N < P /\ P < 2 * N
    /\ G \in (0 .. P - 1) \X (0 .. P - 1)

Field   == 0 .. P - 1
Scalars == 0 .. N - 1

\* The inverses modulo P and modulo N; zero, as in the code, inverts to 0.
FieldInverse ==
    [a \in Field |-> IF a = 0 THEN 0
                     ELSE CHOOSE b \in Field : (a * b) % P = 1]
ScalarInverse ==
    [a \in Scalars |-> IF a = 0 THEN 0
                       ELSE CHOOSE b \in Scalars : (a * b) % N = 1]

Infinity == << >>
OnCurve(x, y) == (y * y) % P = (x * x * x + B) % P
Points == {Infinity} \cup {p \in Field \X Field : OnCurve(p[1], p[2])}

PointNeg(p) == IF p = Infinity THEN p ELSE <<p[1], (-p[2]) % P>>

PointAdd(p, q) ==
    CASE p = Infinity -> q
      [] q = Infinity -> p
      [] p # Infinity /\ q = PointNeg(p) -> Infinity
      [] OTHER ->
            LET slope == IF p = q
                         THEN 3 * p[1] * p[1] * FieldInverse[(2 * p[2]) % P]
                         ELSE (q[2] - p[2]) * FieldInverse[(q[1] - p[1]) % P]
                l == slope % P
                x == (l * l - p[1] - q[1]) % P
            IN  <<x, (l * (p[1] - x) - p[2]) % P>>

\* Times[k] is k*G (by halves, to keep the recursion shallow).
Times[k \in Scalars] ==
    IF k = 0 THEN Infinity
    ELSE LET half == Times[k \div 2]
             even == PointAdd(half, half)
         IN  IF k % 2 = 0 THEN even ELSE PointAdd(even, G)

\* The discrete logarithm of a point.
Log == [p \in Points |-> CHOOSE k \in Scalars : Times[k] = p]

\* P and N are prime: what is not zero has an inverse.
ASSUME PrimeAssumption ==
    /\ \A a \in 1 .. P - 1 : \E b \in Field : (a * b) % P = 1
    /\ \A a \in 1 .. N - 1 : \E b \in Scalars : (a * b) % N = 1

\* The points are a cyclic group of N elements, and G generates it.
ASSUME GeneratorAssumption ==
    /\ Points = {Times[k] : k \in Scalars}
    /\ \A j, k \in Scalars : Times[j] = Times[k] => j = k
    /\ \A j, k \in Scalars : PointAdd(Times[j], Times[k]) = Times[(j + k) % N]
=============================================================================
