----------------------------- MODULE GroupProofs -----------------------------
(***************************************************************************)
(* The operations of group_impl.h in any order compute the group law, for  *)
(* every curve; so do what is read off a point and batch inversion.        *)
(***************************************************************************)
EXTENDS Group, PointProofs

---------------------------------------------------------------------------
(* The specification.                                                      *)

\* The accumulator stands for the point, in coordinates within the field.
Inv == Stands(r, point) /\ rzr \in Field \cup {NoRatio}

LEMMA ScaleFacts == ASSUME NEW s \in Scales PROVE s \in Field /\ s # 0
<1>1. s \in 1 .. P - 1
  BY ScalesAssumption
<1>2. QED
  BY <1>1, Prime

LEMMA Initially == Init => Inv
BY InfinityStands, Zenon DEF Init, Inv

LEMMA Invariance == Spec => []Inv
<1>1. ASSUME Inv, [Next]_vars PROVE Inv'
  <2>0. Stands(r, point) /\ r \in Gejs /\ point \in Points
    BY <1>1 DEF Inv, Stands
  <2>1. ASSUME NEW a, NEW p, NEW ratio, Set(a, p, ratio), Stands(a, p),
               ratio \in Field \cup {NoRatio}
        PROVE  Inv'
    BY <2>1, Zenon DEF Set, Inv
  <2>2. NoRatio \in Field \cup {NoRatio} /\ Field \subseteq Field \cup {NoRatio}
    OBVIOUS
  <2>3. \A b \in Gejs : Ratio(r, b) \in Field \cup {NoRatio}
    BY <2>0, AddRatioField DEF Ratio
  <2>4. 1 \in Field /\ 1 # 0
    BY Prime
  <2>5. CASE Double
    <3>1. Stands(GejDouble(r), PointAdd(point, point))
      <4>1. CASE r.infinity
        <5>1. point = Infinity /\ GejDouble(r) = Flagged(r)
          BY <2>0, <4>1 DEF Stands, GejDouble
        <5>2. QED
          BY <2>0, <5>1, FlaggedStands, InfinityNeutral
      <4>2. CASE ~r.infinity
        BY <2>0, <4>2, DoubleStands
      <4>3. QED
        BY <4>1, <4>2
    <3>2. DoubleRatio(r) \in Field
      BY <2>0, DoubleRatioField
    <3>3. QED
      BY <2>1, <2>2, <2>5, <3>1, <3>2 DEF Double
  <2>6. CASE Neg
    BY <2>0, <2>1, <2>2, <2>6, NegStands DEF Neg
  <2>7. CASE Normalize
    BY <2>0, <2>1, <2>2, <2>7, NormalizeStands DEF Normalize
  <2>8. CASE NormalizeVar
    BY <2>0, <2>1, <2>2, <2>8, NormalizeStands DEF NormalizeVar
  <2>9. ASSUME NEW p \in Points, AddGeVar(p) PROVE Inv'
    <3>1. Stands(GejAddGeVar(r, ToGe(p)), PointAdd(point, p))
      BY <2>0, AddGeVarStands
    <3>2. ToGej(p, 1) \in Gejs
      BY <2>4, OperandStands DEF Stands
    <3>3. QED
      BY <2>1, <2>3, <2>9, <3>1, <3>2 DEF AddGeVar
  <2>10. ASSUME NEW p \in Points, AddGe(p) PROVE Inv'
    <3>1. p # Infinity /\ Set(GejAddGe(r, ToGe(p)), PointAdd(point, p), NoRatio)
      BY <2>10 DEF AddGe
    <3>2. CASE r.infinity
      <4>1. point = Infinity /\ GejAddGe(r, ToGe(p)) = GejSetGe(ToGe(p))
        BY <2>0, <3>2 DEF Stands, GejAddGe
      <4>2. Stands(GejAddGe(r, ToGe(p)), PointAdd(point, p))
        BY <4>1, GeStands, InfinityNeutral
      <4>3. QED
        BY <2>1, <2>2, <3>1, <4>2
    <3>3. CASE ~r.infinity
      BY <2>0, <2>1, <2>2, <3>1, <3>3, AddGeStands
    <3>4. QED
      BY <3>2, <3>3
  <2>11. ASSUME NEW p \in Points, NEW s \in Scales, AddVar(p, s) PROVE Inv'
    <3>1. Stands(ToGej(p, s), p)
      BY ScaleFacts, OperandStands
    <3>2. Stands(GejAddVar(r, ToGej(p, s)), PointAdd(point, p))
      BY <2>0, <3>1, AddVarStands
    <3>3. ToGej(p, s) \in Gejs
      BY <3>1 DEF Stands
    <3>4. QED
      BY <2>1, <2>3, <2>11, <3>2, <3>3 DEF AddVar
  <2>12. ASSUME NEW p \in Points, NEW s \in Scales, AddZinvVar(p, s) PROVE Inv'
    <3> DEFINE b == ToGej(p, s)
    <3>1. Stands(b, p) /\ (b.infinity <=> p = Infinity) /\ (p # Infinity => b.z = s)
      BY ScaleFacts, OperandStands
    <3>2. ~b.infinity => b.z = s /\ b.z # 0
      BY <3>1, ScaleFacts
    <3> DEFINE sum(i) ==
            GejAddZinvVar(r, [x |-> b.x, y |-> b.y, infinity |-> b.infinity], i)
    <3>3. Set(sum(FieldInverse[s]), PointAdd(point, p), NoRatio)
      BY <2>12 DEF AddZinvVar
    <3> HIDE DEF b
    <3>4. Stands(sum(FieldInverse[s]), PointAdd(point, p))
      <4>1. Stands(sum(FieldInverse[b.z]), PointAdd(point, p))
        BY <2>0, <3>1, <3>2, AddZinvVarStands
      <4>2. CASE b.infinity
        <5>1. sum(FieldInverse[s]) = r /\ sum(FieldInverse[b.z]) = r
          BY <4>2 DEF GejAddZinvVar
        <5>2. QED
          BY <4>1, <5>1
      <4>3. CASE ~b.infinity
        BY <3>2, <4>1, <4>3
      <4>4. QED
        BY <4>2, <4>3
    <3> HIDE DEF sum
    <3>5. QED
      BY <2>1, <2>2, <3>3, <3>4
  <2>13. ASSUME NEW s \in Scales, Rescale(s) PROVE Inv'
    BY <2>0, <2>1, <2>2, <2>13, ScaleFacts, RescaleStands DEF Rescale
  <2>14. CASE UNCHANGED vars
    BY <1>1, <2>14 DEF vars, Inv
  <2>15. QED
    BY <1>1, <2>5, <2>6, <2>7, <2>8, <2>9, <2>10, <2>11, <2>12, <2>13, <2>14 DEF Next
<1>2. QED
  BY <1>1, Initially, PTL DEF Spec

\* The coordinates of the accumulator stay in the field.
THEOREM CoordinatesTyped == Spec => []TypeOK
<1>1. Inv => TypeOK
  BY DEF Inv, Stands, Gejs, TypeOK
<1>2. QED
  BY <1>1, Invariance, PTL

\* After any sequence of operations the accumulator stands for the sum: a
\* finite one has a z that is not zero, an infinite one is flagged.
THEOREM SumRepresented == Spec => []Represents
<1>1. ASSUME Inv PROVE Represents
  <2>1. Stands(r, point)
    BY <1>1 DEF Inv
  <2>2. CASE r.infinity
    BY <2>1, <2>2 DEF Stands, Represents
  <2>3. CASE ~r.infinity
    <3>1. r.z # 0
      BY <2>1, <2>3 DEF Stands
    <3>2. GeSetGejZinv(r, FieldInverse[r.z]) = ToGe(point)
      BY <2>1, <2>3, AffineOf
    <3>3. QED
      BY <2>3, <3>1, <3>2 DEF Represents
  <2>4. QED
    BY <2>2, <2>3
<1>2. QED
  BY <1>1, Invariance, PTL

\* The ratio that an operation returns is the one by which it changed z.
THEOREM RatiosRight == Spec => RatioRight
<1> DEFINE Right == rzr' # NoRatio /\ ~r'.infinity => r'.z = F(r.z * rzr')
<1>1. ASSUME Inv, Next PROVE Right
  <2>0. r \in Gejs /\ Field \subseteq Int
    BY <1>1, Prime DEF Inv, Stands
  <2>1. CASE Double
    <3>1. r' = GejDouble(r) /\ rzr' = DoubleRatio(r)
      BY <2>1 DEF Double, Set
    <3>2. CASE r.infinity
      BY <3>1, <3>2 DEF GejDouble, Flagged
    <3>3. CASE ~r.infinity
      BY <2>0, <3>1, <3>3, DoublingRatio
    <3>4. QED
      BY <3>2, <3>3
  <2>2. ASSUME NEW b \in Gejs, rzr' = Ratio(r, b),
               ~r.infinity => r' = GejAddVar(r, b)
        PROVE  Right
    <3>1. CASE r.infinity
      BY <2>2, <3>1 DEF Ratio
    <3>2. CASE ~r.infinity
      <4>1. r' = GejAddVar(r, b) /\ rzr' = AddRatio(r, b)
        BY <2>2, <3>2 DEF Ratio
      <4>2. QED
        BY <2>0, <3>2, <4>1, AddVarRatio
    <3>3. QED
      BY <3>1, <3>2
  <2>3. ASSUME NEW p \in Points, NEW s \in Scales, AddVar(p, s) PROVE Right
    <3>1. ToGej(p, s) \in Gejs
      BY ScaleFacts, OperandStands DEF Stands
    <3>2. r' = GejAddVar(r, ToGej(p, s)) /\ rzr' = Ratio(r, ToGej(p, s))
      BY <2>3 DEF AddVar, Set
    <3>3. QED
      BY <2>2, <3>1, <3>2
  <2>4. ASSUME NEW p \in Points, AddGeVar(p) PROVE Right
    <3>1. ToGej(p, 1) \in Gejs
      <4>1. 1 \in Field /\ 1 # 0
        BY Prime
      <4>2. QED
        BY <4>1, OperandStands DEF Stands
    <3>2. r' = GejAddGeVar(r, ToGe(p)) /\ rzr' = Ratio(r, ToGej(p, 1))
      BY <2>4 DEF AddGeVar, Set
    <3>3. ~r.infinity => r' = GejAddVar(r, ToGej(p, 1))
      BY <2>0, <3>2, AddGeVarIsAddVar
    <3>4. QED
      BY <2>2, <3>1, <3>2, <3>3
  <2>5. CASE rzr' = NoRatio
    BY <2>5
  <2>6. QED
    BY <1>1, <2>1, <2>3, <2>4, <2>5
       DEF Next, Neg, Normalize, NormalizeVar, AddGe, AddZinvVar, Rescale, Set
<1>2. ASSUME Inv, [Next]_vars PROVE [Right]_vars
  BY <1>1, <1>2
<1> HIDE DEF Right
<1>3. Spec => [][Right]_vars
  BY <1>2, Invariance, PTL DEF Spec
<1>4. QED
  BY <1>3 DEF RatioRight, Right

---------------------------------------------------------------------------
(* Reading the accumulator without an inversion. *)

\* A square times a square that is not zero.
LEMMA QuadUp ==
    ASSUME NEW a \in Int, NEW b \in Int, NEW c \in Int, Is(a, b * (c * c)), IsQuad(b)
    PROVE  IsQuad(a)
<1>1. PICK y \in Field : Sqr(y) = F(b)
  BY DEF IsQuad
<1>2. y \in Int /\ Is(y, y) /\ Is(c, c) /\ Is(b, b) /\ Is(a, a)
  BY Prime, IsItself
<1>3. Is(Sqr(y), y * y) /\ Is(F(b), b)
  BY <1>2, IsSqr, IsF, Zenon
<1>4. Is(y * y, b)
  BY <1>1, <1>3, IsSym, IsTrans, Zenon
<1>5. F(y * c) \in Field /\ Is(F(y * c), y * c)
  BY <1>2, IsProduct, Zenon
<1>6. Is(Sqr(F(y * c)), (y * c) * (y * c)) /\ Sqr(F(y * c)) \in Field
  BY <1>5, IsSqr, Zenon
<1>7. (y * c) * (y * c) = (y * y) * (c * c)
  BY <1>2, SMT
<1>8. c * c \in Int
  BY SMT
<1>9. Is((y * y) * (c * c), b * (c * c))
  BY <1>4, <1>8, IsItself, IsMul, Zenon
<1>10. Is(Sqr(F(y * c)), a)
  BY <1>6, <1>7, <1>9, IsSym, IsTrans, Zenon
<1>11. Is(F(a), a) /\ F(a) \in Field
  BY <1>2, IsF, Zenon
<1>12. Sqr(F(y * c)) = F(a)
  BY <1>6, <1>10, <1>11, IsUnique, Zenon
<1>13. QED
  BY <1>5, <1>12 DEF IsQuad

\* The square of z tells nothing about whether y is a square.
LEMMA QuadTimes ==
    ASSUME NEW a \in Int, NEW b \in Int, NEW c \in Int, Is(a, b * (c * c)), ~Is(c, 0)
    PROVE  IsQuad(a) <=> IsQuad(b)
<1> DEFINE e == FieldInverse[c % P]
<1>1. c % P \in Field /\ c % P # 0 /\ Is(c % P, c)
  <2>1. Is(c, c)
    BY IsItself
  <2>2. Is(F(c), c) /\ F(c) \in Field
    BY <2>1, IsF, Zenon
  <2>3. F(c) # 0
    BY <2>2, IsZero, Zenon
  <2>4. QED
    BY <2>2, <2>3 DEF F
<1>2. e \in Field /\ Cong(P, (c % P) * e, 1) /\ e \in Int /\ (c % P) \in Int
  BY <1>1, FieldInverses, Prime
<1> HIDE DEF e
<1>3. Is((c % P) * e, 1)
  <2>1. (c % P) * e \in Int
    BY <1>2, SMT
  <2>2. QED
    BY <1>2, <2>1 DEF Is
<1>4. Is(c * e, 1)
  <2>1. Is(c * e, (c % P) * e)
    BY <1>1, <1>2, IsSym, IsItself, IsMul, Zenon
  <2>2. QED
    BY <2>1, <1>3, IsTrans, Zenon
<1>5. Is(b, a * (e * e))
  <2>1. e * e \in Int /\ c * e \in Int
    BY <1>2, SMT
  <2>2. Is(a * (e * e), (b * (c * c)) * (e * e))
    BY <2>1, IsItself, IsMul, Zenon
  <2>3. (b * (c * c)) * (e * e) = b * ((c * e) * (c * e)) /\ b * (1 * 1) = b
    BY <1>2, SMT
  <2>4. Is((c * e) * (c * e), 1 * 1)
    BY <1>4, IsMul, Zenon
  <2>5. Is(b * ((c * e) * (c * e)), b * (1 * 1))
    BY <2>4, IsTimes, Zenon
  <2>6. Is(a * (e * e), b)
    BY <2>2, <2>3, <2>5, IsTrans, Zenon
  <2>7. QED
    BY <2>6, IsSym, Zenon
<1>6. QED
  BY <1>2, <1>5, QuadUp

\* Of the two points with an x coordinate exactly one has a square y.
LEMMA OneQuad ==
    ASSUME NEW p \in Points, p # Infinity
    PROVE  IsQuad(PointNeg(p)[2]) <=> ~IsQuad(p[2])
<1>1. PICK x \in Field, y \in Field : p = <<x, y>>
  BY Finite, Zenon
<1>2. p[2] = y /\ PointNeg(p)[2] = (-y) % P
  BY <1>1 DEF PointNeg
<1>3. y # 0
  <2>1. ~Is(y, 0)
    BY <1>1, NonZeroY, Zenon
  <2>2. QED
    BY <2>1, IsItself
<1>4. y \in 1 .. P - 1 /\ P \in Nat
  BY <1>3, Prime
<1>5. (-y) % P = P - y
  <2>1. P - y \in 0 .. P - 1 /\ -y \in Int /\ P > 0
    BY <1>4
  <2>2. Cong(P, P - y, -y)
    <3>1. P - y = -y + 1 * P
      BY <1>4
    <3>2. QED
      BY <3>1 DEF Cong
  <2>3. (-y) % P \in 0 .. P - 1 /\ Cong(P, (-y) % P, -y) /\ Cong(P, -y, (-y) % P)
    BY <1>4, <2>1, DivisionOf, CongMod
  <2>4. Cong(P, P - y, (-y) % P)
    BY <1>4, <2>1, <2>2, <2>3, CongTrans
  <2>5. QED
    BY <1>4, <2>1, <2>3, <2>4, CongUnique
<1>6. QED
  BY <1>2, <1>4, <1>5, SquareAssumption

\* ge_set_xquad finds the one of them.
LEMMA XquadOf ==
    ASSUME NEW p \in Points, p # Infinity, IsQuad(p[2])
    PROVE  GeSetXquad(p[1]) = {Ge(p[1], p[2])}
<1>1. p = <<p[1], p[2]>> /\ p[1] \in Field /\ p[2] \in Field /\ OnCurve(p[1], p[2])
  BY Finite
<1>2. ASSUME NEW y \in Field, OnCurve(p[1], y), IsQuad(y) PROVE y = p[2]
  <2> DEFINE q == <<p[1], y>>
  <2>1. q \in Points /\ q # Infinity /\ q[1] = p[1] /\ q[2] = y
    BY <1>1, <1>2 DEF Points, Infinity
  <2> HIDE DEF q
  <2>2. q = p \/ q = PointNeg(p)
    BY <2>1, SameX
  <2>3. q # PointNeg(p)
    BY <1>2, <2>1, OneQuad
  <2>4. QED
    BY <2>1, <2>2, <2>3
<1>3. GeSetXquad(p[1]) \subseteq {Ge(p[1], p[2])}
  BY <1>2, Zenon DEF GeSetXquad
<1>4. Ge(p[1], p[2]) \in GeSetXquad(p[1])
  BY <1>1, Zenon DEF GeSetXquad
<1>5. QED
  BY <1>3, <1>4

\* ge_set_xo_var finds a point from its x coordinate and the parity of y.
LEMMA XoOf ==
    ASSUME NEW p \in Points, p # Infinity
    PROVE  GeSetXo(p[1], p[2] % 2) = {ToGe(p)}
<1>1. p = <<p[1], p[2]>> /\ p[1] \in Field /\ p[2] \in Field
  BY Finite
<1>2. ToGe(p) = Ge(p[1], p[2])
  BY DEF ToGe
<1>3. CASE IsQuad(p[2])
  <2>1. GeSetXquad(p[1]) = {Ge(p[1], p[2])}
    BY <1>3, XquadOf
  <2>2. Ge(p[1], p[2]).y = p[2]
    BY DEF Ge
  <2>3. GeSetXo(p[1], p[2] % 2) =
            {IF a.y % 2 # p[2] % 2 THEN GeNeg(a) ELSE a : a \in {Ge(p[1], p[2])}}
    BY <2>1 DEF GeSetXo
  <2>4. QED
    BY <1>2, <2>2, <2>3
<1>4. CASE ~IsQuad(p[2])
  <2> DEFINE q == PointNeg(p)
  <2>1. q \in Points /\ q # Infinity /\ q[1] = p[1] /\ q[2] % 2 = 1 - (p[2] % 2)
    BY NegPoint, NegParity
  <2>2. IsQuad(q[2])
    BY <1>4, OneQuad
  <2>3. q[2] = (-p[2]) % P
    BY DEF PointNeg
  <2>4. p = PointNeg(q)
    <3>1. q # p
      BY NotItsNegative
    <3>2. p = q \/ p = PointNeg(q)
      BY <2>1, SameX
    <3>3. QED
      BY <3>1, <3>2
  <2>5. PointNeg(q) = <<q[1], (-q[2]) % P>>
    BY <2>1 DEF PointNeg
  <2>6. p[2] = (-q[2]) % P
    BY <2>4, <2>5
  <2> HIDE DEF q
  <2>7. GeSetXquad(p[1]) = {Ge(p[1], q[2])}
    BY <2>1, <2>2, XquadOf
  <2>8. /\ Ge(p[1], q[2]).y = q[2]
        /\ GeNeg(Ge(p[1], q[2])) = Ge(p[1], p[2])
    BY <2>6 DEF Ge, GeNeg, F
  <2>9. q[2] % 2 # p[2] % 2
    <3>1. p[2] % 2 \in 0 .. 1
      BY <1>1, Prime
    <3>2. QED
      BY <2>1, <3>1
  <2>10. GeSetXo(p[1], p[2] % 2) =
            {IF a.y % 2 # p[2] % 2 THEN GeNeg(a) ELSE a : a \in {Ge(p[1], q[2])}}
    BY <2>7 DEF GeSetXo
  <2>11. QED
    BY <1>2, <2>8, <2>9, <2>10
<1>5. QED
  BY <1>3, <1>4

\* gej_is_valid_var, gej_eq_x_var and gej_has_quad_y_var.
LEMMA ReadsStands ==
    ASSUME NEW a, NEW p, Stands(a, p), ~a.infinity
    PROVE  /\ GejIsValid(a)
           /\ \A x \in Field : GejEqX(x, a) <=> x = p[1]
           /\ GejHasQuadY(a) <=> IsQuad(p[2])
<1>1. PICK x1 \in Field, y1 \in Field :
          /\ p = <<x1, y1>> /\ Is(y1 * y1, x1 * x1 * x1 + B)
          /\ a.x \in Field /\ a.y \in Field /\ a.z \in Field
          /\ a.z \in Int /\ ~Is(a.z, 0)
          /\ Is(a.x, x1 * (a.z * a.z)) /\ Is(a.y, y1 * (a.z * a.z * a.z))
  BY StandsFor, Zenon
<1>2. PICK z \in Int : z = a.z
  BY <1>1
<1>3. /\ x1 \in Int /\ y1 \in Int /\ B \in Int /\ a.x \in Int /\ a.y \in Int
      /\ Is(z, z) /\ Is(a.x, x1 * (z * z)) /\ Is(a.y, y1 * (z * z * z))
      /\ p[1] = x1 /\ p[2] = y1
  <2>1. x1 \in Int /\ y1 \in Int /\ a.x \in Int /\ a.y \in Int
    BY <1>1, Prime
  <2>2. B \in Int
    BY CurveAssumption
  <2>3. Is(z, z)
    BY IsItself
  <2>4. Is(a.x, x1 * (z * z)) /\ Is(a.y, y1 * (z * z * z))
    BY <1>1, <1>2, Zenon
  <2>5. p[1] = x1 /\ p[2] = y1
    BY <1>1
  <2>6. QED
    BY <2>1, <2>2, <2>3, <2>4, <2>5
<1>4. GejIsValid(a)
  <2> DEFINE x3 == F(Sqr(a.x) * a.x)
             z6 == F(Sqr(Sqr(a.z)) * Sqr(a.z))
  <2>1. Is(Sqr(a.y), (y1 * (z * z * z)) * (y1 * (z * z * z))) /\ Sqr(a.y) \in Field
    BY <1>3, IsSqr, Zenon
  <2>2. Is(Sqr(a.x), (x1 * (z * z)) * (x1 * (z * z)))
    BY <1>3, IsSqr, Zenon
  <2>3. Is(x3, ((x1 * (z * z)) * (x1 * (z * z))) * (x1 * (z * z)))
    BY <1>3, <2>2, IsProduct, Zenon
  <2>4. Is(Sqr(a.z), z * z)
    BY <1>2, <1>3, IsSqr, Zenon
  <2>5. Is(Sqr(Sqr(a.z)), (z * z) * (z * z))
    BY <2>4, IsSqr, Zenon
  <2>6. Is(z6, ((z * z) * (z * z)) * (z * z))
    BY <2>4, <2>5, IsProduct, Zenon
  <2> HIDE DEF x3, z6
  <2>7. Is(B * z6, B * (((z * z) * (z * z)) * (z * z)))
    BY <1>3, <2>6, IsTimes, Zenon
  <2>8. /\ Is(F(x3 + B * z6), ((x1 * (z * z)) * (x1 * (z * z))) * (x1 * (z * z))
                                + B * (((z * z) * (z * z)) * (z * z)))
        /\ F(x3 + B * z6) \in Field
    BY <2>3, <2>7, IsSum, Zenon
  <2>9. PICK d \in Int : d = ((z * z) * (z * z)) * (z * z)
    BY SMT
  <2>10. (y1 * (z * z * z)) * (y1 * (z * z * z)) = (y1 * y1) * d
    BY <1>3, <2>9, SMT
  <2>11. ((x1 * (z * z)) * (x1 * (z * z))) * (x1 * (z * z)) + B * d
             = (x1 * x1 * x1 + B) * d
    BY <1>3, <2>9, SMT
  <2>12. Is((y1 * y1) * d, (x1 * x1 * x1 + B) * d)
    BY <1>1, <2>9, IsItself, IsMul, Zenon
  <2>13. Is(F(x3 + B * z6), (x1 * x1 * x1 + B) * d)
    BY <2>8, <2>9, <2>11, Zenon
  <2>14. Is(Sqr(a.y), (x1 * x1 * x1 + B) * d)
    BY <2>1, <2>10, <2>12, IsTrans, Zenon
  <2>15. Sqr(a.y) = F(x3 + B * z6)
    BY <2>1, <2>8, <2>13, <2>14, IsUnique, Zenon
  <2>16. QED
    BY <2>15, Zenon DEF GejIsValid, x3, z6
<1>5. ASSUME NEW x \in Field PROVE GejEqX(x, a) <=> x = x1
  <2>1. x \in Int /\ Is(x, x) /\ z * z \in Int
    BY Prime, IsItself, SMT
  <2>2. Is(Sqr(a.z), z * z)
    BY <1>2, <1>3, IsSqr, Zenon
  <2>3. Is(F(Sqr(a.z) * x), (z * z) * x) /\ F(Sqr(a.z) * x) \in Field
    BY <2>1, <2>2, IsProduct, Zenon
  <2>4. x1 * (z * z) = (z * z) * x1
    BY <1>3, <2>1, SMT
  <2>5. ASSUME x = x1 PROVE GejEqX(x, a)
    <3>1. Is(a.x, (z * z) * x)
      BY <1>3, <2>4, <2>5, Zenon
    <3>2. F(Sqr(a.z) * x) = a.x
      BY <1>1, <2>3, <3>1, IsUnique, Zenon
    <3>3. QED
      BY <3>2 DEF GejEqX
  <2>6. ASSUME GejEqX(x, a) PROVE x = x1
    <3>1. Is(a.x, (z * z) * x) /\ Is(a.x, (z * z) * x1)
      BY <1>3, <2>3, <2>4, <2>6, Zenon DEF GejEqX
    <3>2. Is((z * z) * x, (z * z) * x1)
      BY <3>1, IsSym, IsTrans, Zenon
    <3>3. ~Is(z * z, 0)
      BY <1>1, <1>2, NonZeroProduct
    <3>4. Is(x, x1)
      BY <1>3, <2>1, <3>2, <3>3, Cancel, Zenon
    <3>5. QED
      BY <1>3, <3>4, IsItself, IsUnique, Zenon
  <2>7. QED
    BY <2>5, <2>6
<1>6. GejHasQuadY(a) <=> IsQuad(y1)
  <2>1. PICK n \in Int, c \in Int : n = a.y * a.z /\ c = z * z
    BY <1>1, <1>3, SMT
  <2>2. Is(n, (y1 * (z * z * z)) * z)
    BY <1>2, <1>3, <2>1, IsMul, Zenon
  <2>3. (y1 * (z * z * z)) * z = y1 * (c * c)
    BY <1>3, <2>1, SMT
  <2>4. ~Is(c, 0)
    BY <1>1, <1>2, <2>1, NonZeroProduct
  <2>5. Is(n, y1 * (c * c))
    BY <2>2, <2>3, Zenon
  <2>6. IsQuad(n) <=> IsQuad(y1)
    BY <1>3, <2>4, <2>5, QuadTimes
  <2>7. QED
    BY <2>1, <2>6 DEF GejHasQuadY
<1>7. QED
  BY <1>3, <1>4, <1>5, <1>6

\* What is read off an accumulator that stands for its point is right.
LEMMA ReadsFrom ==
    ASSUME Inv
    PROVE  ReadsAffine
<1>1. Stands(r, point)
  BY DEF Inv
<1>2. ASSUME ~r.infinity PROVE point \in Points /\ point # Infinity
  BY <1>1, <1>2 DEF Stands
<1>3. QED
  BY <1>1, <1>2, ReadsStands, XoOf DEF ReadsAffine

\* What is read off the accumulator without an inversion is what its affine
\* form says (gej_is_valid_var, gej_eq_x_var, gej_has_quad_y_var), and
\* ge_set_xo_var finds the point again from its x and the parity of its y.
THEOREM ReadsRight == Spec => []ReadsAffine
<1>1. Inv => ReadsAffine
  BY ReadsFrom
<1>2. QED
  BY <1>1, Invariance, PTL

\* ge_set_all_gej_var makes every point affine with one inversion, wherever
\* the points at infinity are (AllSet: in sequences of any length); and what
\* is read off the accumulator without one is right.
THEOREM AllRight == Spec => []AllAffine
<1>1. ASSUME Inv, NEW p \in Points, NEW s \in Scales
      PROVE  LET b == ToGej(p, s) IN
             /\ SetAll(<<r, b, r>>) = <<ToGe(point), ToGe(p), ToGe(point)>>
             /\ SetAll(<<b, r, b>>) = <<ToGe(p), ToGe(point), ToGe(p)>>
  <2> DEFINE b == ToGej(p, s)
  <2>1. Stands(b, p) /\ Stands(r, point)
    BY <1>1, ScaleFacts, OperandStands DEF Inv
  <2>2. b \in Gejs /\ r \in Gejs
    BY <2>1 DEF Stands
  <2> HIDE DEF b
  <2>3. ASSUME NEW a \in Gejs, NEW c \in Gejs, NEW q, NEW o, Stands(a, q), Stands(c, o)
        PROVE  SetAll(<<a, c, a>>) = <<ToGe(q), ToGe(o), ToGe(q)>>
    <3> DEFINE gs == <<a, c, a>>
               ps == <<q, o, q>>
    <3>1. gs \in Seq(Gejs) /\ Len(gs) = 3 /\ gs[1] = a /\ gs[2] = c /\ gs[3] = a
          /\ ps[1] = q /\ ps[2] = o /\ ps[3] = q
      OBVIOUS
    <3>2. \A i \in 1 .. 3 : i = 1 \/ i = 2 \/ i = 3
      OBVIOUS
    <3> HIDE DEF gs, ps
    <3>3. \A i \in 1 .. Len(gs) : Stands(gs[i], ps[i])
      BY <2>3, <3>1, <3>2
    <3>4. SetAll(gs) = [i \in 1 .. Len(gs) |-> ToGe(ps[i])]
      BY <3>1, <3>3, AllSet
    <3>5. [i \in 1 .. 3 |-> ToGe(ps[i])] = <<ToGe(q), ToGe(o), ToGe(q)>>
      BY <3>1
    <3>6. QED
      BY <3>1, <3>4, <3>5 DEF gs
  <2>4. QED
    BY <2>1, <2>2, <2>3 DEF b
<1>2. ASSUME Inv PROVE AllAffine
  BY <1>1, <1>2, ReadsFrom DEF AllAffine
<1>3. QED
  BY <1>2, Invariance, PTL
=============================================================================
