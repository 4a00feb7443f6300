------------------------------- MODULE Group -------------------------------
(***************************************************************************)
(* The operations of module Jacobian the way the multiplication algorithms *)
(* use them: one accumulator r that is also the first operand.             *)
(***************************************************************************)
EXTENDS Tables

CONSTANT Scales     \* the z coordinates second operands come with

ASSUME ScalesAssumption == Scales \subseteq 1 .. P - 1

---------------------------------------------------------------------------
VARIABLES
    r,      \* the accumulator
    point,  \* the affine point it stands for
    rzr     \* the ratio of its z to the previous one the last call returned

vars == <<r, point, rzr>>

NoRatio == -1       \* the caller passed NULL for rzr

Init == r = GejSetInfinity /\ point = Infinity /\ rzr = NoRatio

Set(a, p, ratio) == r' = a /\ point' = p /\ rzr' = ratio

Double == Set(GejDouble(r), PointAdd(point, point), DoubleRatio(r))

\* With a at infinity the caller has to pass NULL.
Ratio(a, b) == IF a.infinity THEN NoRatio ELSE AddRatio(a, b)

AddVar(p, s) ==
    Set(GejAddVar(r, ToGej(p, s)), PointAdd(point, p), Ratio(r, ToGej(p, s)))

AddGeVar(p) ==
    Set(GejAddGeVar(r, ToGe(p)), PointAdd(point, p), Ratio(r, ToGej(p, 1)))

AddGe(p) ==
    /\ p # Infinity
    /\ Set(GejAddGe(r, ToGe(p)), PointAdd(point, p), NoRatio)

\* The operand (x, y, z) is passed as (x, y) and 1/z.
AddZinvVar(p, s) ==
    LET b == ToGej(p, s) IN
    Set(GejAddZinvVar(r, [x |-> b.x, y |-> b.y, infinity |-> b.infinity],
                      FieldInverse[s]),
        PointAdd(point, p), NoRatio)

Neg == Set(GejNeg(r), PointNeg(point), NoRatio)
Rescale(s) == Set(GejRescale(r, s), point, NoRatio)
Normalize == Set(GejNormalize(r), point, NoRatio)
NormalizeVar == Set(GejNormalizeVar(r), point, NoRatio)

Next ==
    \/ Double \/ Neg \/ Normalize \/ NormalizeVar
    \/ \E p \in Points : AddGeVar(p) \/ AddGe(p)
    \/ \E p \in Points, s \in Scales : AddVar(p, s) \/ AddZinvVar(p, s)
    \/ \E s \in Scales : Rescale(s)

Spec == Init /\ [][Next]_vars

---------------------------------------------------------------------------
\* The accumulator is in the form the formulas assume.
TypeOK ==
    /\ r \in [x : Field, y : Field, z : Field, infinity : BOOLEAN]
    /\ point \in Points
    /\ rzr \in Field \cup {NoRatio}

\* Whatever sequence of additions, doublings, negations and rescalings led
\* to it, through infinity, equal, opposite or 0/0 operands, the
\* accumulator stands for the sum: a finite one is never left with z = 0,
\* and an infinite one is always flagged.
Represents ==
    IF r.infinity THEN point = Infinity
    ELSE /\ r.z # 0
         /\ GeSetGejZinv(r, FieldInverse[r.z]) = ToGe(point)

\* The z ratio an operation returns is the one by which it changed z: the
\* odd-multiples tables are converted to affine with these ratios alone.
RatioRight ==
    [][rzr' # NoRatio /\ ~r'.infinity => r'.z = F(r.z * rzr')]_vars

\* What is read off a Jacobian point without an inversion is what its
\* affine form says: validity, a matching x, a square y; and decompression
\* finds the point again from its x and the parity of its y.
ReadsAffine ==
    ~r.infinity =>
        /\ GejIsValid(r)
        /\ \A x \in Field : GejEqX(x, r) <=> x = point[1]
        /\ GejHasQuadY(r) <=> IsQuad(point[2])
        /\ GeSetXo(point[1], point[2] % 2) = {ToGe(point)}

\* ... and ge_set_all_gej_var makes every point affine with one inversion,
\* wherever the points at infinity are, which it passes over on both ways.
AllAffine ==
    /\ ReadsAffine
    /\ \A p \in Points, s \in Scales :
          LET b == ToGej(p, s) IN
          /\ SetAll(<<r, b, r>>) = <<ToGe(point), ToGe(p), ToGe(point)>>
          /\ SetAll(<<b, r, b>>) = <<ToGe(p), ToGe(point), ToGe(p)>>
=============================================================================
