------------------------------ MODULE Jacobian ------------------------------
(***************************************************************************)
(* The group operations of group_impl.h.  A point is kept in Jacobian      *)
(* coordinates, [x, y, z, infinity] for the affine point (x/z^2, y/z^3).   *)
(***************************************************************************)
EXTENDS Curve

F(a) == a % P
Sqr(a) == F(a * a)

\* secp256k1_ge and secp256k1_gej.
Ge(x, y) == [x |-> x, y |-> y, infinity |-> FALSE]
Gej(x, y, z) == [x |-> x, y |-> y, z |-> z, infinity |-> FALSE]

GejSetInfinity == [x |-> 0, y |-> 0, z |-> 0, infinity |-> TRUE]
GejSetGe(a) == [x |-> a.x, y |-> a.y, z |-> 1, infinity |-> a.infinity]

GeSetGejZinv(a, zi) ==
    [x |-> F(a.x * Sqr(zi)), y |-> F(a.y * F(Sqr(zi) * zi)),
     infinity |-> a.infinity]

\* ge_set_gej rescales its argument to z = 1 in place, infinity or not;
\* ge_set_gej_var leaves an infinite one alone.
GejNormalize(a) ==
    LET g == GeSetGejZinv(a, FieldInverse[a.z]) IN GejSetGe(g)
GejNormalizeVar(a) == IF a.infinity THEN a ELSE GejNormalize(a)

\* Mutant: the negated y is not brought back into the field.
GejNegUnreduced(a) ==
    [x |-> a.x, y |-> -a.y, z |-> a.z, infinity |-> a.infinity]

\* Mutant: the same for affine points.
GeNegUnreduced(a) == [x |-> a.x, y |-> -a.y, infinity |-> a.infinity]

GeNeg(a) == [x |-> a.x, y |-> F(-a.y), infinity |-> a.infinity]
GejNeg(a) == [x |-> a.x, y |-> F(-a.y), z |-> a.z, infinity |-> a.infinity]

GejRescale(a, s) ==
    [x |-> F(a.x * Sqr(s)), y |-> F(F(a.y * Sqr(s)) * s), z |-> F(a.z * s),
     infinity |-> a.infinity]

\* What is left when only the flag is set.
Flagged(a) == [x |-> a.x, y |-> a.y, z |-> a.z, infinity |-> TRUE]

\* Doubling: {X', Y', Z'} = {9X^4 - 8XY^2, 3X^2(4XY^2 - X') - 8Y^4, 2YZ}.
GejDouble(a) ==
    LET t1 == F(3 * Sqr(a.x))
        t2 == Sqr(t1)
        t3 == F(2 * Sqr(a.y) * a.x)
        t4 == F(2 * Sqr(F(2 * Sqr(a.y))))
    IN  IF a.infinity THEN Flagged(a)
        ELSE Gej(F(t2 - 4 * t3), F(t1 * F(6 * t3 - t2) - t4),
                 F(2 * a.z * a.y))
DoubleRatio(a) == IF a.infinity THEN 1 ELSE F(2 * a.y)

\* The common tail of the additions: h and i are the differences of the x
\* and y coordinates over a common z, u1 and s1 those of a.
Chord(h, i, u1, s1, z) ==
    LET h2 == Sqr(h)
        h3 == F(h * h2)
        t  == F(u1 * h2)
        x  == F(Sqr(i) - h3 - 2 * t)
    IN  Gej(x, F(F((t - x) * i) - h3 * s1), z)

\* Mutant: equal points are not told from opposite ones.
AddFiniteNoDouble(a, az, b, bz, z) ==
    LET u1 == F(a.x * Sqr(bz))
        h  == F(b.x * Sqr(az) - u1)
        s1 == F(F(a.y * Sqr(bz)) * bz)
        i  == F(F(F(b.y * Sqr(az)) * az) - s1)
    IN  IF h # 0 THEN Chord(h, i, u1, s1, F(z * h))
        ELSE Flagged(a)

\* gej_add_var, gej_add_ge_var and gej_add_zinv_var after the cases of a
\* point at infinity: az is the z coordinate of a they compute with, bz and
\* z those of b and of a general result.
AddFinite(a, az, b, bz, z) ==
    LET u1 == F(a.x * Sqr(bz))
        u2 == F(b.x * Sqr(az))
        s1 == F(F(a.y * Sqr(bz)) * bz)
        s2 == F(F(b.y * Sqr(az)) * az)
        h  == F(u2 - u1)
        i  == F(s2 - s1)
    IN  CASE h # 0 -> Chord(h, i, u1, s1, F(z * h))
          [] h = 0 /\ i = 0 -> GejDouble(a)
          [] OTHER -> Flagged(a)

GejAddVar(a, b) ==
    CASE a.infinity -> b
      [] ~a.infinity /\ b.infinity -> a
      [] OTHER -> AddFinite(a, a.z, b, b.z, F(a.z * b.z))

GejAddGeVar(a, b) ==
    CASE a.infinity -> GejSetGe(b)
      [] ~a.infinity /\ b.infinity -> a
      [] OTHER -> AddFinite(a, a.z, b, 1, a.z)

\* b stands for the point with z coordinate 1/bzinv.
GejAddZinvVar(a, b, bzinv) ==
    CASE b.infinity -> a
      [] ~b.infinity /\ a.infinity -> GejSetGe(GeSetGejZinv(b, bzinv))
      [] OTHER -> AddFinite(a, F(a.z * bzinv), b, 1, a.z)

\* Mutant: no alternative for lambda = 0/0.
GejAddGeNoAlternative(a, b) ==
    LET u2 == F(b.x * Sqr(a.z))
        t  == F(a.x + u2)
        m  == F(a.y + F(F(b.y * Sqr(a.z)) * a.z))
        rr == F(Sqr(t) - a.x * u2)
        q  == F(Sqr(m) * t)
        x  == F(Sqr(rr) - q)
    IN  IF a.infinity THEN GejSetGe(b)
        ELSE [x |-> F(4 * x), z |-> F(2 * a.z * m), infinity |-> m = 0,
              y |-> F(-4 * (F((2 * x - q) * rr) + Sqr(Sqr(m))))]

\* gej_add_ge, the branch-free addition of a finite b: lambda = rr / m is
\* the unified formula for sums and doublings, replaced where it is 0/0.
GejAddGe(a, b) ==
    LET u2 == F(b.x * Sqr(a.z))
        s2 == F(F(b.y * Sqr(a.z)) * a.z)
        t  == F(a.x + u2)
        m  == F(a.y + s2)
        rr == F(Sqr(t) - a.x * u2)
        degenerate == m = 0 /\ rr = 0
        rrAlt == IF degenerate THEN F(2 * a.y) ELSE rr
        mAlt  == IF degenerate THEN F(a.x - u2) ELSE m
        n  == IF degenerate THEN m ELSE Sqr(Sqr(mAlt))
        q  == F(Sqr(mAlt) * t)
        z  == F(a.z * mAlt)
        x  == F(Sqr(rrAlt) - q)
        y  == F(-(F((2 * x - q) * rrAlt) + n))
    IN  IF a.infinity THEN GejSetGe(b)
        ELSE [x |-> F(4 * x), y |-> F(4 * y), z |-> F(2 * z),
              infinity |-> z = 0]

\* gej_eq_x_var: x is the affine x coordinate of a.
GejEqX(x, a) == F(Sqr(a.z) * x) = a.x

IsQuad(a) == \E y \in Field : Sqr(y) = F(a)
\* P is a prime that is 3 modulo 4: of a number and its negative one is a
\* square.
ASSUME SquareAssumption == \A a \in 1 .. P - 1 : IsQuad(a) <=> ~IsQuad(P - a)

GejHasQuadY(a) == ~a.infinity /\ IsQuad(a.y * a.z)

GejIsValid(a) ==
    /\ ~a.infinity
    /\ Sqr(a.y) = F(F(Sqr(a.x) * a.x) + B * F(Sqr(Sqr(a.z)) * Sqr(a.z)))

\* fe_sqrt is exponentiation by (P + 1) / 4, which yields the root that is
\* itself a square; ge_set_xquad fails if there is none, ge_set_xo_var then
\* takes the root of the parity asked for.
GeSetXquad(x) ==
    {Ge(x, y) : y \in {y \in Field : OnCurve(x, y) /\ IsQuad(y)}}
GeSetXo(x, odd) ==
    {IF a.y % 2 # odd THEN GeNeg(a) ELSE a :
        a \in GeSetXquad(x)}

\* Mutant: the doubling forgets to return its ratio.
AddRatioOne(a, b) ==
    LET h == F(b.x * Sqr(a.z) - F(a.x * Sqr(b.z))) IN
    IF b.infinity \/ h = 0 THEN 1 ELSE F(h * b.z)

\* The ratio the additions return for a finite a: the z coordinate is
\* multiplied by h and that of b in general, by twice y in a doubling.
AddRatio(a, b) ==
    LET h == F(b.x * Sqr(a.z) - F(a.x * Sqr(b.z))) IN
    CASE b.infinity -> 1
      [] ~b.infinity /\ h # 0 -> F(h * b.z)
      [] OTHER ->
            IF F(b.y * F(Sqr(a.z) * a.z)) = F(a.y * F(Sqr(b.z) * b.z))
            THEN DoubleRatio(a) ELSE 0

\* The affine operands, and the operand p rescaled to the z coordinate s.
ToGe(p) == IF p = Infinity THEN [x |-> 0, y |-> 0, infinity |-> TRUE]
           ELSE Ge(p[1], p[2])
ToGej(p, s) == IF p = Infinity THEN GejSetInfinity
               ELSE GejRescale(GejSetGe(ToGe(p)), s)
=============================================================================
