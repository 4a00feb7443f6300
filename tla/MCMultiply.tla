----------------------------- MODULE MCMultiply -----------------------------
(***************************************************************************)
(* The curve y^2 = x^3 + 7 modulo 211 for TLC: 199 points, so scalars have *)
(* eight bits, and most 8-bit strings are scalars, as with secp256k1.      *)
(***************************************************************************)
EXTENDS Multiply

G199 == <<3, 33>>
TwoG == <<94, 112>>

\* A point, its negative, and none; in other Jacobian coordinates where a
\* caller can give them.
SomeTerms == {[p |-> << >>, z |-> 1], [p |-> <<147, 66>>, z |-> 3],
              [p |-> <<147, 145>>, z |-> 1]}
SomeScalars == {0, 1, 100, N - 1}
SomeGScalars == {NoScalar, 0, 57, N - 2}
SomeBlinds == {0, 1, 77, N - 1}
=============================================================================
