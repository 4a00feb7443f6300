----------------------------- MODULE PointProofs -----------------------------
(***************************************************************************)
(* Lemmas on points, for every curve: congruences, inverses and the group  *)
(* law of Curve, the formulas of Jacobian, the conversions and tables of    *)
(* Tables; and what points are as multiples of the generator.              *)
(* Every intermediate value of a formula is followed as a polynomial in    *)
(* the affine coordinates of the operands, the slope of the line through   *)
(* them and the z coordinate, modulo P.                                    *)
(***************************************************************************)
EXTENDS Tables, WellFoundedInduction, TLAPS

---------------------------------------------------------------------------
(* Congruences.                                                            *)

Cong(M, a, b) == \E k \in Int : a = b + k * M

LEMMA DivisionOf ==
    ASSUME NEW M \in Nat, M > 0, NEW a \in Int
    PROVE  /\ a % M \in 0 .. M - 1
           /\ \E k \in Int : a = (a % M) + k * M
<1>1. a % M \in 0 .. M - 1
  BY SMT
<1>2. a \div M \in Int /\ a = (a \div M) * M + (a % M)
  BY SMT
<1>3. a = (a % M) + (a \div M) * M
  BY <1>1, <1>2, SMT
<1>4. QED
  BY <1>1, <1>2, <1>3

LEMMA CongRefl == ASSUME NEW M \in Nat, NEW a \in Int PROVE Cong(M, a, a)
<1>1. a = a + 0 * M
  OBVIOUS
<1>2. QED
  BY <1>1 DEF Cong

LEMMA CongSym ==
    ASSUME NEW M \in Nat, NEW a \in Int, NEW b \in Int, Cong(M, a, b)
    PROVE  Cong(M, b, a)
<1>1. PICK k \in Int : a = b + k * M
  BY DEF Cong
<1>2. -k \in Int /\ b = a + (-k) * M
  BY <1>1, SMT
<1>3. QED
  BY <1>2 DEF Cong

LEMMA CongTrans ==
    ASSUME NEW M \in Nat, NEW a \in Int, NEW b \in Int, NEW c \in Int,
           Cong(M, a, b), Cong(M, b, c)
    PROVE  Cong(M, a, c)
<1>1. PICK k \in Int : a = b + k * M
  BY DEF Cong
<1>2. PICK l \in Int : b = c + l * M
  BY DEF Cong
<1>3. k + l \in Int /\ a = c + (k + l) * M
  BY <1>1, <1>2, SMT
<1>4. QED
  BY <1>3 DEF Cong

LEMMA CongAdd ==
    ASSUME NEW M \in Nat, NEW a \in Int, NEW b \in Int, NEW c \in Int, NEW d \in Int,
           Cong(M, a, b), Cong(M, c, d)
    PROVE  Cong(M, a + c, b + d)
<1>1. PICK k \in Int : a = b + k * M
  BY DEF Cong
<1>2. PICK l \in Int : c = d + l * M
  BY DEF Cong
<1>3. k + l \in Int /\ a + c = (b + d) + (k + l) * M
  BY <1>1, <1>2, SMT
<1>4. QED
  BY <1>3 DEF Cong

LEMMA CongNeg ==
    ASSUME NEW M \in Nat, NEW a \in Int, NEW b \in Int, Cong(M, a, b)
    PROVE  Cong(M, -a, -b)
<1>1. PICK k \in Int : a = b + k * M
  BY DEF Cong
<1>2. -k \in Int /\ -a = -b + (-k) * M
  BY <1>1, SMT
<1>3. QED
  BY <1>2 DEF Cong

LEMMA CongMul ==
    ASSUME NEW M \in Nat, NEW a \in Int, NEW b \in Int, NEW c \in Int, NEW d \in Int,
           Cong(M, a, b), Cong(M, c, d)
    PROVE  Cong(M, a * c, b * d)
<1>1. PICK k \in Int : a = b + k * M
  BY DEF Cong
<1>2. PICK l \in Int : c = d + l * M
  BY DEF Cong
<1> DEFINE q == b * l + k * d + k * l * M
<1>3. q \in Int
  BY SMT
<1>4. a * c = b * d + q * M
  <2>1. a * c = (b + k * M) * (d + l * M)
    BY <1>1, <1>2
  <2>2. (b + k * M) * (d + l * M) = b * d + (b * l + k * d + k * l * M) * M
    BY SMT
  <2>3. QED
    BY <2>1, <2>2
<1>5. QED
  BY <1>3, <1>4 DEF Cong

\* A number is congruent to its remainder, and remainders are the only
\* representatives below the modulus.
LEMMA CongMod ==
    ASSUME NEW M \in Nat, M > 0, NEW a \in Int
    PROVE  Cong(M, a % M, a) /\ Cong(M, a, a % M)
<1>1. a % M \in Int /\ Cong(M, a, a % M)
  BY DivisionOf DEF Cong
<1>2. QED
  BY <1>1, CongSym

LEMMA CongUnique ==
    ASSUME NEW M \in Nat, NEW a \in 0 .. M - 1, NEW b \in 0 .. M - 1, Cong(M, a, b)
    PROVE  a = b
<1>1. PICK k \in Int : a = b + k * M
  BY DEF Cong
<1>2. k = 0
  <2>1. ASSUME k >= 1 PROVE FALSE
    <3>1. k * M >= M
      BY <2>1, SMT
    <3>2. QED
      BY <1>1, <3>1
  <2>2. ASSUME k <= -1 PROVE FALSE
    <3>1. k * M <= -M
      BY <2>2, SMT
    <3>2. QED
      BY <1>1, <3>1
  <2>3. QED
    BY <2>1, <2>2
<1>3. QED
  BY <1>1, <1>2

LEMMA CongEqual ==
    ASSUME NEW M \in Nat, M > 0, NEW a \in Int, NEW b \in Int
    PROVE  Cong(M, a, b) <=> a % M = b % M
<1>1. a % M \in 0 .. M - 1 /\ b % M \in 0 .. M - 1
  BY DivisionOf
<1>2. ASSUME Cong(M, a, b) PROVE a % M = b % M
  <2>1. Cong(M, a % M, a) /\ Cong(M, b, b % M)
    BY CongMod
  <2>2. Cong(M, a % M, b)
    BY <1>1, <1>2, <2>1, CongTrans
  <2>3. Cong(M, a % M, b % M)
    BY <1>1, <2>1, <2>2, CongTrans
  <2>4. QED
    BY <1>1, <2>3, CongUnique
<1>3. ASSUME a % M = b % M PROVE Cong(M, a, b)
  <2>1. Cong(M, a, a % M) /\ Cong(M, b % M, b)
    BY CongMod
  <2>2. QED
    BY <1>1, <1>3, <2>1, CongTrans
<1>4. QED
  BY <1>2, <1>3

\* A factor that has an inverse cancels.
LEMMA CongCancel ==
    ASSUME NEW M \in Nat, NEW a \in Int, NEW i \in Int, NEW x \in Int, NEW y \in Int,
           Cong(M, a * i, 1), Cong(M, a * x, a * y)
    PROVE  Cong(M, x, y)
<1>1. PICK k \in Int : a * i = 1 + k * M
  BY DEF Cong
<1>2. PICK l \in Int : a * x = a * y + l * M
  BY DEF Cong
<1> DEFINE q == i * l + k * y - k * x
<1>3. q \in Int
  BY SMT
<1>4. x = y + q * M
  <2>1. (a * i) * x = i * (a * x) /\ (a * i) * y = i * (a * y)
    BY SMT
  <2>2. (1 + k * M) * x = i * (a * y + l * M)
    BY <1>1, <1>2, <2>1
  <2>3. i * (a * y + l * M) = (a * i) * y + i * l * M
    BY SMT
  <2>4. (1 + k * M) * x = (1 + k * M) * y + i * l * M
    BY <1>1, <2>2, <2>3
  <2>5. (1 + k * M) * x = x + k * x * M /\ (1 + k * M) * y = y + k * y * M
    BY SMT
  <2>6. (i * l + k * y - k * x) * M = i * l * M + k * y * M - k * x * M
    BY SMT
  <2>7. k * x * M \in Int /\ k * y * M \in Int /\ i * l * M \in Int
    BY SMT
  <2>8. QED
    BY <2>4, <2>5, <2>6, <2>7
<1>5. QED
  BY <1>3, <1>4 DEF Cong

LEMMA CongCancelZero ==
    ASSUME NEW M \in Nat, NEW a \in Int, NEW i \in Int, NEW x \in Int,
           Cong(M, a * i, 1), Cong(M, a * x, 0)
    PROVE  Cong(M, x, 0)
<1>1. PICK l \in Int : a * x = 0 + l * M
  BY DEF Cong
<1>2. a * x = a * 0 + l * M
  BY <1>1, SMT
<1>3. Cong(M, a * x, a * 0)
  BY <1>2 DEF Cong
<1>4. \A y \in Int : Cong(M, a * x, a * y) => Cong(M, x, y)
  BY CongCancel
<1>5. 0 \in Int
  OBVIOUS
<1>6. QED
  BY <1>3, <1>4, <1>5, Zenon

---------------------------------------------------------------------------
(* The prime fields.                                                       *)

LEMMA Sizes ==
    /\ P \in Nat /\ N \in Nat /\ N > 3 /\ N < P /\ P < 2 * N /\ P % 2 = 1
BY CurveAssumption, SMT

LEMMA FieldInverses ==
    ASSUME NEW a \in Field, a # 0
    PROVE  FieldInverse[a] \in Field /\ Cong(P, a * FieldInverse[a], 1)
<1>1. a \in 1 .. P - 1 /\ P > 0 /\ P \in Nat
  BY Sizes DEF Field
<1>2. PICK b \in Field : (a * b) % P = 1
  BY <1>1, PrimeAssumption
<1>3. FieldInverse[a] = CHOOSE c \in Field : (a * c) % P = 1
  BY DEF FieldInverse
<1>4. FieldInverse[a] \in Field /\ (a * FieldInverse[a]) % P = 1
  BY <1>2, <1>3
<1>5. a * FieldInverse[a] \in Int
  BY <1>4, SMT DEF Field
<1>6. QED
  BY <1>1, <1>4, <1>5, CongMod

LEMMA ScalarInverses ==
    ASSUME NEW a \in Scalars, a # 0
    PROVE  ScalarInverse[a] \in Scalars /\ Cong(N, a * ScalarInverse[a], 1)
<1>1. a \in 1 .. N - 1 /\ N > 0 /\ N \in Nat
  BY Sizes DEF Scalars
<1>2. PICK b \in Scalars : (a * b) % N = 1
  BY <1>1, PrimeAssumption
<1>3. ScalarInverse[a] = CHOOSE c \in Scalars : (a * c) % N = 1
  BY DEF ScalarInverse
<1>4. ScalarInverse[a] \in Scalars /\ (a * ScalarInverse[a]) % N = 1
  BY <1>2, <1>3
<1>5. a * ScalarInverse[a] \in Int
  BY <1>4, SMT DEF Scalars
<1>6. QED
  BY <1>1, <1>4, <1>5, CongMod

\* There are no divisors of zero modulo P.
LEMMA ZeroProduct ==
    ASSUME NEW a \in Int, NEW b \in Int, Cong(P, a * b, 0)
    PROVE  Cong(P, a, 0) \/ Cong(P, b, 0)
<1>1. P \in Nat /\ P > 0 /\ Cong(P, b, b)
  BY Sizes, CongRefl
<1>2. PICK r \in Field : Cong(P, r, a) /\ Cong(P, a, r)
  <2>1. a % P \in Field
    BY <1>1, DivisionOf DEF Field
  <2>2. Cong(P, a % P, a) /\ Cong(P, a, a % P)
    BY <1>1, CongMod
  <2>3. QED
    BY <2>1, <2>2
<1>3. CASE r = 0
  BY <1>2, <1>3
<1>4. CASE r # 0
  <2>1. PICK i \in Int : r \in Int /\ Cong(P, r * i, 1)
    <3>1. FieldInverse[r] \in Field /\ Cong(P, r * FieldInverse[r], 1)
      BY <1>4, FieldInverses
    <3>2. Field \subseteq Int
      BY DEF Field
    <3>3. QED
      BY <3>1, <3>2
  <2>2. Cong(P, r * b, a * b)
    BY <1>1, <1>2, <2>1, CongMul
  <2>3. a * b \in Int /\ r * b \in Int /\ 0 \in Int
    BY <2>1, SMT
  <2>4. Cong(P, r * b, 0)
    BY <1>1, <2>2, <2>3, CongTrans
  <2>5. QED
    BY <1>1, <2>1, <2>4, CongCancelZero
<1>5. QED
  BY <1>3, <1>4

---------------------------------------------------------------------------
(* The group.                                                              *)

LEMMA TimesPoint == ASSUME NEW k \in Scalars PROVE Times[k] \in Points
BY GeneratorAssumption

LEMMA LogPoint ==
    ASSUME NEW p \in Points PROVE Log[p] \in Scalars /\ Times[Log[p]] = p
<1>1. \E k \in Scalars : Times[k] = p
  BY GeneratorAssumption
<1>2. Log[p] = CHOOSE k \in Scalars : Times[k] = p
  BY DEF Log
<1>3. QED
  BY <1>1, <1>2

LEMMA LogTimes == ASSUME NEW k \in Scalars PROVE Log[Times[k]] = k
BY TimesPoint, LogPoint, GeneratorAssumption

LEMMA InfinityIsZero ==
    /\ Infinity \in Points /\ 0 \in Scalars /\ Times[0] = Infinity /\ Log[Infinity] = 0
<1> USE Sizes
<1>1. Infinity \in Points /\ 0 \in Scalars
  BY DEF Points, Scalars
<1>2. PICK j \in Scalars : Times[j] = Infinity
  BY <1>1, GeneratorAssumption
<1>3. PointAdd(Infinity, Infinity) = Infinity
  BY DEF PointAdd
<1>4. (j + j) % N \in Scalars /\ Times[(j + j) % N] = Times[j]
  BY <1>2, <1>3, GeneratorAssumption, DivisionOf DEF Scalars
<1>5. (j + j) % N = j
  BY <1>4, GeneratorAssumption
<1>6. Cong(N, j + j, j)
  BY <1>5, CongMod DEF Scalars
<1>7. PICK k \in Int : j + j = j + k * N
  BY <1>6 DEF Cong
<1>8. Cong(N, j, 0)
  BY <1>7 DEF Cong, Scalars
<1>9. j = 0
  BY <1>8, CongUnique DEF Scalars
<1>10. QED
  BY <1>1, <1>2, <1>9, LogTimes

LEMMA Finite ==
    ASSUME NEW p \in Points
    PROVE  p # Infinity <=>
               /\ p = <<p[1], p[2]>> /\ p[1] \in Field /\ p[2] \in Field
               /\ OnCurve(p[1], p[2])
<1>1. ASSUME p # Infinity
      PROVE  p = <<p[1], p[2]>> /\ p[1] \in Field /\ p[2] \in Field /\ OnCurve(p[1], p[2])
  BY <1>1 DEF Points
<1>2. <<p[1], p[2]>> # << >>
  OBVIOUS
<1>3. QED
  BY <1>1, <1>2 DEF Infinity

LEMMA SquareOfNegative ==
    ASSUME NEW y \in Field
    PROVE  /\ (-y) % P \in Field
           /\ (((-y) % P) * ((-y) % P)) % P = (y * y) % P
<1>1. P \in Nat /\ P > 0 /\ y \in Int /\ -y \in Int
  BY Sizes DEF Field
<1>2. PICK z \in Field : z = (-y) % P
  BY <1>1, DivisionOf DEF Field
<1>3. z \in Int /\ Cong(P, z, -y)
  <2>1. \A a \in Int : Cong(P, a % P, a)
    BY <1>1, CongMod
  <2>2. Cong(P, (-y) % P, -y)
    BY <1>1, <2>1, Zenon
  <2>3. z \in Int
    BY DEF Field
  <2>4. QED
    BY <1>2, <2>2, <2>3, Zenon
<1>4. Cong(P, z * z, (-y) * (-y))
  BY <1>1, <1>3, CongMul
<1>5. (-y) * (-y) = y * y /\ z * z \in Int /\ y * y \in Int
  BY <1>1, <1>3, SMT
<1>6. Cong(P, z * z, y * y)
  BY <1>4, <1>5, Zenon
<1>7. (z * z) % P = (y * y) % P
  BY <1>1, <1>5, <1>6, CongEqual
<1>8. QED
  BY <1>2, <1>7

LEMMA NegPoint ==
    ASSUME NEW p \in Points
    PROVE  PointNeg(p) \in Points /\ PointAdd(p, PointNeg(p)) = Infinity
<1>1. CASE p = Infinity
  BY <1>1 DEF PointNeg, PointAdd
<1>2. CASE p # Infinity
  <2>1. /\ p[1] \in Field /\ p[2] \in Field /\ OnCurve(p[1], p[2])
        /\ PointNeg(p) = <<p[1], (-p[2]) % P>>
    BY <1>2, Finite DEF PointNeg
  <2>2. (-p[2]) % P \in Field /\ OnCurve(p[1], (-p[2]) % P)
    BY <2>1, SquareOfNegative DEF OnCurve
  <2>3. PointNeg(p) \in Points /\ PointNeg(p) # Infinity
    BY <2>1, <2>2 DEF Points, Infinity
  <2>4. PICK q : q = PointNeg(p)
    OBVIOUS
  <2>5. PointAdd(p, q) = Infinity
    BY <1>2, <2>3, <2>4, Zenon DEF PointAdd
  <2>6. QED
    BY <2>3, <2>4, <2>5
<1>3. QED
  BY <1>1, <1>2

LEMMA NegTimes ==
    ASSUME NEW k \in Scalars
    PROVE  (-k) % N \in Scalars /\ PointNeg(Times[k]) = Times[(-k) % N]
<1> USE Sizes
<1>1. PICK j \in Scalars : PointNeg(Times[k]) = Times[j]
  BY TimesPoint, NegPoint, GeneratorAssumption
<1>2. k \in Int /\ j \in Int /\ -k \in Int /\ N > 0 /\ N \in Nat /\ k + j \in Int
  BY DEF Scalars
<1>3. Times[(k + j) % N] = Times[0] /\ (k + j) % N \in Scalars
  BY <1>1, <1>2, TimesPoint, NegPoint, InfinityIsZero, GeneratorAssumption, DivisionOf
     DEF Scalars
<1>4. (k + j) % N = 0
  BY <1>3, InfinityIsZero, GeneratorAssumption
<1>5. Cong(N, k + j, 0)
  BY <1>2, <1>4, CongMod
<1>6. PICK l \in Int : k + j = 0 + l * N
  BY <1>5 DEF Cong
<1>7. j = -k + l * N
  BY <1>2, <1>6
<1>8. Cong(N, j, -k)
  BY <1>7 DEF Cong
<1>9. j % N = (-k) % N /\ j % N \in Scalars /\ (-k) % N \in Scalars
  BY <1>2, <1>8, CongEqual, DivisionOf DEF Scalars
<1>10. Cong(N, j, j % N)
  BY <1>2, CongMod
<1>11. j = j % N
  BY <1>9, <1>10, CongUnique DEF Scalars
<1>12. QED
  BY <1>1, <1>9, <1>11

\* Points with the same x are equal or opposite.
LEMMA SameX ==
    ASSUME NEW p \in Points, NEW q \in Points, p # Infinity, q # Infinity,
           p[1] = q[1]
    PROVE  q = p \/ q = PointNeg(p)
<1> DEFINE y == p[2]
           z == q[2]
<1>1. /\ p = <<p[1], y>> /\ q = <<p[1], z>> /\ y \in Field /\ z \in Field
      /\ (y * y) % P = (z * z) % P
  BY Finite DEF OnCurve
<1>2. P \in Nat /\ P > 0 /\ Field = 0 .. P - 1 /\ y \in Int /\ z \in Int
  BY <1>1, Sizes DEF Field
<1> HIDE DEF y, z
<1>3. z * z \in Int /\ y * y \in Int /\ z - y \in Int /\ z + y \in Int
  BY <1>2, SMT
<1>4. Cong(P, z * z, y * y)
  BY <1>1, <1>2, <1>3, CongEqual
<1>5. PICK k \in Int : z * z = y * y + k * P
  BY <1>4 DEF Cong
<1>6. (z - y) * (z + y) = 0 + k * P
  <2>1. (z - y) * (z + y) = z * z - y * y
    BY <1>2, SMT
  <2>2. (y * y + k * P) - y * y = 0 + k * P
    BY <1>2, <1>3, SMT
  <2>3. QED
    BY <1>5, <2>1, <2>2, Zenon
<1>7. Cong(P, (z - y) * (z + y), 0)
  BY <1>6 DEF Cong
<1>8. Cong(P, z - y, 0) \/ Cong(P, z + y, 0)
  BY <1>3, <1>7, ZeroProduct
<1>9. CASE Cong(P, z - y, 0)
  <2>1. PICK l \in Int : z - y = 0 + l * P
    BY <1>9 DEF Cong
  <2>2. z = y + l * P
    BY <1>2, <2>1
  <2>3. Cong(P, z, y)
    BY <2>2 DEF Cong
  <2>4. z = y
    BY <1>1, <1>2, <2>3, CongUnique
  <2>5. QED
    BY <1>1, <2>4
<1>10. CASE Cong(P, z + y, 0)
  <2>1. PICK l \in Int : z + y = 0 + l * P
    BY <1>10 DEF Cong
  <2>2. z = -y + l * P
    BY <1>2, <2>1
  <2>3. -y \in Int /\ Cong(P, z, -y)
    BY <1>2, <2>2 DEF Cong
  <2>4. z % P = (-y) % P
    BY <1>2, <2>3, CongEqual
  <2>5. z = z % P
    BY <1>1, <1>2, CongMod, CongUnique, DivisionOf
  <2>6. PointNeg(p) = <<p[1], (-y) % P>>
    BY DEF PointNeg, y
  <2>7. QED
    BY <1>1, <2>4, <2>5, <2>6
<1>11. QED
  BY <1>8, <1>9, <1>10

\* No finite point is its own negative: the order of the group is odd.
LEMMA NotItsNegative ==
    ASSUME NEW p \in Points, p # Infinity
    PROVE  PointNeg(p) # p
<1> USE Sizes
<1> SUFFICES ASSUME PointNeg(p) = p PROVE FALSE
  OBVIOUS
<1>1. PICK k \in Scalars : Times[k] = p
  BY GeneratorAssumption
<1>2. k \in Int /\ N \in Nat /\ N > 0 /\ k + k \in Int /\ 2 \in Scalars /\ 0 \in Scalars
  BY DEF Scalars
<1>3. (k + k) % N \in Scalars /\ Times[(k + k) % N] = Infinity
  BY <1>1, <1>2, NegPoint, GeneratorAssumption, DivisionOf DEF Scalars
<1>4. (k + k) % N = 0
  BY <1>2, <1>3, InfinityIsZero, GeneratorAssumption
<1>5. Cong(N, k + k, 0)
  BY <1>2, <1>4, CongMod
<1>6. PICK i \in Int : Cong(N, 2 * i, 1)
  <2>1. ScalarInverse[2] \in Scalars /\ Cong(N, 2 * ScalarInverse[2], 1)
    BY <1>2, ScalarInverses
  <2>2. QED
    BY <2>1 DEF Scalars
<1>7. 2 * k = k + k
  BY <1>2
<1>8. Cong(N, k, 0)
  <2>1. Cong(N, 2 * k, 0)
    BY <1>5, <1>7, Zenon
  <2>2. \A a, x \in Int : Cong(N, a * i, 1) /\ Cong(N, a * x, 0) => Cong(N, x, 0)
    BY <1>2, CongCancelZero
  <2>3. 2 \in Int
    OBVIOUS
  <2>4. QED
    BY <1>2, <1>6, <2>1, <2>2, <2>3, Zenon
<1>9. k = 0
  BY <1>2, <1>8, CongUnique DEF Scalars
<1>10. QED
  BY <1>1, <1>9, InfinityIsZero

\* The parity of y tells a point from its negative.
LEMMA NegParity ==
    ASSUME NEW p \in Points, p # Infinity
    PROVE  /\ PointNeg(p) # Infinity /\ PointNeg(p)[1] = p[1]
           /\ PointNeg(p)[2] % 2 = 1 - (p[2] % 2)
<1>1. p = <<p[1], p[2]>> /\ p[2] \in Field /\ PointNeg(p) = <<p[1], (-p[2]) % P>>
  BY Finite DEF PointNeg
<1>2. PICK y \in Field : y = p[2]
  BY <1>1
<1>3. y \in Int /\ 0 <= y /\ y < P /\ P \in Nat /\ P % 2 = 1
  BY Sizes DEF Field
<1>4. y # 0
  <2>1. (-0) % P = 0
    BY <1>3, SMT
  <2>2. QED
    BY <1>1, <1>2, <2>1, NotItsNegative
<1>5. (-y) % P = P - y
  BY <1>3, <1>4, SMT
<1>6. (P - y) % 2 = 1 - (y % 2)
  BY <1>3, SMT
<1>7. PointNeg(p) # Infinity
  BY <1>1 DEF Infinity
<1>8. QED
  BY <1>1, <1>2, <1>5, <1>6, <1>7

LEMMA SameXAndParity ==
    ASSUME NEW p \in Points, NEW q \in Points, p # Infinity, q # Infinity,
           p[1] = q[1], p[2] % 2 = q[2] % 2
    PROVE  p = q
<1>1. p[2] \in Int
  BY Finite DEF Field
<1>2. PICK y \in Int : y = p[2]
  BY <1>1
<1>3. y % 2 # 1 - (y % 2)
  BY SMT
<1>4. QED
  BY <1>2, <1>3, SameX, NegParity

\* Addition, on logarithms.
LEMMA AddPoint ==
    ASSUME NEW p \in Points, NEW q \in Points
    PROVE  /\ (Log[p] + Log[q]) % N \in Scalars
           /\ PointAdd(p, q) = Times[(Log[p] + Log[q]) % N]
<1>1. /\ Log[p] \in Scalars /\ Times[Log[p]] = p
      /\ Log[q] \in Scalars /\ Times[Log[q]] = q
  BY LogPoint
<1>2. Log[p] + Log[q] \in Int /\ N \in Nat /\ N > 0
  BY <1>1, Sizes DEF Scalars
<1>3. (Log[p] + Log[q]) % N \in Scalars
  BY <1>2, DivisionOf DEF Scalars
<1>4. QED
  BY <1>1, <1>3, GeneratorAssumption

---------------------------------------------------------------------------
(* Field elements and the integers they stand for.                         *)

Is(a, n) == a \in Int /\ n \in Int /\ Cong(P, a, n)

LEMMA Prime == P \in Nat /\ P > 3 /\ Field = 0 .. P - 1 /\ Field \subseteq Int
BY Sizes DEF Field

LEMMA IsItself == ASSUME NEW n \in Int PROVE Is(n, n)
BY Prime, CongRefl DEF Is

LEMMA IsTrans ==
    ASSUME NEW a, NEW m, NEW n, Is(a, m), Is(m, n)
    PROVE  Is(a, n)
<1>1. a \in Int /\ m \in Int /\ n \in Int /\ Cong(P, a, m) /\ Cong(P, m, n) /\ P \in Nat
  BY Prime DEF Is
<1>2. Cong(P, a, n)
  BY <1>1, CongTrans
<1>3. QED
  BY <1>1, <1>2 DEF Is

LEMMA IsSym == ASSUME NEW a, NEW n, Is(a, n) PROVE Is(n, a)
<1>1. a \in Int /\ n \in Int /\ Cong(P, a, n) /\ P \in Nat
  BY Prime DEF Is
<1>2. Cong(P, n, a)
  BY <1>1, CongSym
<1>3. QED
  BY <1>1, <1>2 DEF Is

LEMMA IsAdd ==
    ASSUME NEW a, NEW m, NEW b, NEW n, Is(a, m), Is(b, n)
    PROVE  Is(a + b, m + n)
<1>1. /\ a \in Int /\ m \in Int /\ b \in Int /\ n \in Int /\ P \in Nat
      /\ Cong(P, a, m) /\ Cong(P, b, n)
  BY Prime DEF Is
<1>2. Cong(P, a + b, m + n)
  BY <1>1, CongAdd
<1>3. a + b \in Int /\ m + n \in Int
  BY <1>1
<1>4. QED
  BY <1>2, <1>3 DEF Is

LEMMA IsNeg == ASSUME NEW a, NEW n, Is(a, n) PROVE Is(-a, -n)
<1>1. a \in Int /\ n \in Int /\ P \in Nat /\ Cong(P, a, n)
  BY Prime DEF Is
<1>2. Cong(P, -a, -n)
  BY <1>1, CongNeg
<1>3. -a \in Int /\ -n \in Int
  BY <1>1
<1>4. QED
  BY <1>2, <1>3 DEF Is

LEMMA IsSub ==
    ASSUME NEW a, NEW m, NEW b, NEW n, Is(a, m), Is(b, n)
    PROVE  Is(a - b, m - n)
<1>1. Is(a + (-b), m + (-n))
  BY IsNeg, IsAdd, Zenon
<1>2. a \in Int /\ m \in Int /\ b \in Int /\ n \in Int
  BY DEF Is
<1>3. a + (-b) = a - b /\ m + (-n) = m - n
  BY <1>2
<1>4. QED
  BY <1>1, <1>3

LEMMA IsMul ==
    ASSUME NEW a, NEW m, NEW b, NEW n, Is(a, m), Is(b, n)
    PROVE  Is(a * b, m * n)
<1>1. /\ a \in Int /\ m \in Int /\ b \in Int /\ n \in Int /\ P \in Nat
      /\ Cong(P, a, m) /\ Cong(P, b, n)
  BY Prime DEF Is
<1>2. Cong(P, a * b, m * n)
  BY <1>1, CongMul
<1>3. a * b \in Int /\ m * n \in Int
  BY <1>1
<1>4. QED
  BY <1>2, <1>3 DEF Is

LEMMA IsTimes ==
    ASSUME NEW c \in Int, NEW a, NEW n, Is(a, n)
    PROVE  Is(c * a, c * n)
BY IsItself, IsMul, Zenon

\* A result is brought back into the field.
LEMMA IsF == ASSUME NEW a, NEW n, Is(a, n) PROVE Is(F(a), n) /\ F(a) \in Field
<1>1. a \in Int /\ P \in Nat /\ P > 0
  BY Prime DEF Is
<1>2. a % P \in Field /\ a % P \in Int /\ Cong(P, a % P, a)
  BY <1>1, Prime, DivisionOf, CongMod
<1>3. Is(F(a), a)
  BY <1>1, <1>2 DEF Is, F
<1>4. Is(F(a), n)
  BY <1>3, IsTrans, Zenon
<1>5. QED
  BY <1>2, <1>4 DEF F

LEMMA IsProduct ==
    ASSUME NEW a, NEW m, NEW b, NEW n, Is(a, m), Is(b, n)
    PROVE  Is(F(a * b), m * n) /\ F(a * b) \in Field
BY IsMul, IsF, Zenon

LEMMA IsDifference ==
    ASSUME NEW a, NEW m, NEW b, NEW n, Is(a, m), Is(b, n)
    PROVE  Is(F(a - b), m - n) /\ F(a - b) \in Field
BY IsSub, IsF, Zenon

LEMMA IsSum ==
    ASSUME NEW a, NEW m, NEW b, NEW n, Is(a, m), Is(b, n)
    PROVE  Is(F(a + b), m + n) /\ F(a + b) \in Field
BY IsAdd, IsF, Zenon

LEMMA IsMultiple ==
    ASSUME NEW c \in Int, NEW a, NEW n, Is(a, n)
    PROVE  Is(F(c * a), c * n) /\ F(c * a) \in Field
BY IsTimes, IsF, Zenon

LEMMA IsSqr ==
    ASSUME NEW a, NEW n, Is(a, n)
    PROVE  Is(Sqr(a), n * n) /\ Sqr(a) \in Field
BY IsProduct, Zenon DEF Sqr

\* a * b^2 and a * b^3, the way the code multiplies them.
LEMMA IsTimesSqr ==
    ASSUME NEW a, NEW m, NEW b, NEW n, Is(a, m), Is(b, n)
    PROVE  Is(F(a * Sqr(b)), m * (n * n)) /\ F(a * Sqr(b)) \in Field
<1>1. Is(Sqr(b), n * n)
  BY IsSqr, Zenon
<1>2. QED
  BY <1>1, IsProduct, Zenon

LEMMA IsTimesCube ==
    ASSUME NEW a, NEW m, NEW b, NEW n, Is(a, m), Is(b, n)
    PROVE  /\ Is(F(F(a * Sqr(b)) * b), m * (n * n * n)) /\ F(F(a * Sqr(b)) * b) \in Field
           /\ Is(F(a * F(Sqr(b) * b)), m * (n * n * n)) /\ F(a * F(Sqr(b) * b)) \in Field
<1>1. Is(Sqr(b), n * n) /\ Is(F(a * Sqr(b)), m * (n * n))
  BY IsSqr, IsTimesSqr, Zenon
<1>2. Is(F(Sqr(b) * b), n * n * n)
  BY <1>1, IsProduct, Zenon
<1>3. Is(F(F(a * Sqr(b)) * b), (m * (n * n)) * n) /\ F(F(a * Sqr(b)) * b) \in Field
  BY <1>1, IsProduct, Zenon
<1>4. m \in Int /\ n \in Int
  BY DEF Is
<1>5. (m * (n * n)) * n = m * (n * n * n)
  BY <1>4, SMT
<1>6. Is(F(a * F(Sqr(b) * b)), m * (n * n * n)) /\ F(a * F(Sqr(b) * b)) \in Field
  BY <1>2, IsProduct, Zenon
<1>7. QED
  BY <1>3, <1>5, <1>6, Zenon

\* Field elements that stand for the same are the same.
LEMMA IsUnique ==
    ASSUME NEW a \in Field, NEW b \in Field, NEW n, Is(a, n), Is(b, n)
    PROVE  a = b
<1>1. Is(a, b)
  BY IsSym, IsTrans, Zenon
<1>2. a \in 0 .. P - 1 /\ b \in 0 .. P - 1 /\ Cong(P, a, b) /\ P \in Nat
  BY <1>1, Prime DEF Is
<1>3. QED
  BY <1>2, CongUnique

LEMMA IsZero ==
    ASSUME NEW a \in Field, NEW n, Is(a, n)
    PROVE  a = 0 <=> Is(n, 0)
<1>1. 0 \in Field /\ a \in Int /\ 0 \in Int
  BY Prime
<1>2. ASSUME a = 0 PROVE Is(n, 0)
  BY <1>2, IsSym
<1>3. ASSUME Is(n, 0) PROVE a = 0
  <2>1. Is(a, 0) /\ Is(0, 0)
    BY <1>1, <1>3, IsTrans, IsItself
  <2>2. QED
    BY <1>1, <2>1, IsUnique
<1>4. QED
  BY <1>2, <1>3

\* There are no divisors of zero, and what is not zero cancels.
LEMMA NoDivisors ==
    ASSUME NEW a \in Int, NEW b \in Int, Is(a * b, 0)
    PROVE  Is(a, 0) \/ Is(b, 0)
<1>1. Cong(P, a, 0) \/ Cong(P, b, 0)
  BY ZeroProduct DEF Is
<1>2. QED
  BY <1>1 DEF Is

LEMMA DifferenceZero ==
    ASSUME NEW a \in Int, NEW b \in Int
    PROVE  Is(a - b, 0) <=> Is(a, b)
<1>1. 0 \in Int /\ a - b \in Int
  OBVIOUS
<1>2. ASSUME Is(a - b, 0) PROVE Is(a, b)
  <2>1. Is((a - b) + b, 0 + b)
    BY <1>2, IsItself, IsAdd, Zenon
  <2>2. (a - b) + b = a /\ 0 + b = b
    OBVIOUS
  <2>3. QED
    BY <2>1, <2>2
<1>3. ASSUME Is(a, b) PROVE Is(a - b, 0)
  <2>1. Is(a - b, b - b)
    BY <1>3, IsItself, IsSub, Zenon
  <2>2. b - b = 0
    OBVIOUS
  <2>3. QED
    BY <2>1, <2>2
<1>4. QED
  BY <1>2, <1>3

LEMMA Cancel ==
    ASSUME NEW c \in Int, NEW a \in Int, NEW b \in Int, ~Is(c, 0), Is(c * a, c * b)
    PROVE  Is(a, b)
<1>1. c * a \in Int /\ c * b \in Int /\ a - b \in Int /\ c * (a - b) = c * a - c * b
  BY SMT
<1>2. Is(c * a - c * b, 0)
  BY <1>1, DifferenceZero
<1>3. Is(c * (a - b), 0)
  BY <1>1, <1>2
<1>4. Is(a - b, 0)
  BY <1>1, <1>3, NoDivisors
<1>5. QED
  BY <1>4, DifferenceZero

LEMMA NonZeroProduct ==
    ASSUME NEW a \in Int, NEW b \in Int, ~Is(a, 0), ~Is(b, 0)
    PROVE  a * b \in Int /\ ~Is(a * b, 0)
<1>1. a * b \in Int
  BY SMT
<1>2. QED
  BY <1>1, NoDivisors

LEMMA FieldNonZero ==
    ASSUME NEW a \in Field, a # 0
    PROVE  a \in Int /\ ~Is(a, 0)
<1>1. a \in Int
  BY Prime
<1>2. QED
  BY <1>1, IsItself, IsZero

LEMMA SmallNonZero == ~Is(1, 0) /\ ~Is(2, 0)
<1>1. 1 \in Field /\ 2 \in Field
  BY Prime
<1>2. QED
  BY <1>1, FieldNonZero

---------------------------------------------------------------------------
(* The group law of the reference.                                         *)

\* Division modulo P.
LEMMA Quotient ==
    ASSUME NEW n \in Int, NEW d \in Int, ~Is(d, 0)
    PROVE  /\ (n * FieldInverse[d % P]) % P \in Field
           /\ Is(((n * FieldInverse[d % P]) % P) * d, n)
<1> DEFINE e == d % P
           i == FieldInverse[e]
           l == F(n * i)
<1>1. Is(e, d) /\ e \in Field
  BY IsItself, IsF DEF F
<1>2. e # 0 /\ e \in Int
  BY <1>1, IsZero, Prime
<1>3. i \in Int /\ Cong(P, e * i, 1)
  BY <1>1, <1>2, FieldInverses, Prime
<1> HIDE DEF e, i
<1>4. Is(e * i, 1) /\ Is(i, i) /\ Is(n, n) /\ Is(d, e) /\ n * i \in Int
  <2>1. e * i \in Int /\ n * i \in Int /\ 1 \in Int
    BY <1>2, <1>3, SMT
  <2>2. QED
    BY <1>1, <1>3, <2>1, IsItself, IsSym DEF Is
<1>5. Is(l, n * i) /\ l \in Field
  BY <1>4, IsItself, IsF
<1> HIDE DEF l
<1>6. Is(l * d, (n * i) * e)
  BY <1>4, <1>5, IsMul, Zenon
<1>7. (n * i) * e = n * (e * i) /\ n * 1 = n
  BY <1>2, <1>3, SMT
<1>8. Is(n * (e * i), n * 1)
  BY <1>4, IsMul, Zenon
<1>9. Is(l * d, n)
  <2>1. Is(l * d, n * (e * i)) /\ Is(n * (e * i), n)
    BY <1>6, <1>7, <1>8, Zenon
  <2>2. QED
    BY <2>1, IsTrans, Zenon
<1>10. QED
  BY <1>5, <1>9 DEF F, l, i, e

LEMMA PointCoordinates ==
    ASSUME NEW p \in Points, p # Infinity
    PROVE  \E x, y \in Field : p = <<x, y>> /\ Is(y * y, x * x * x + B)
<1>1. PICK x \in Field, y \in Field : p = <<x, y>> /\ OnCurve(x, y)
  BY Finite, Zenon
<1>2. /\ x \in Int /\ y \in Int /\ y * y \in Int /\ B \in Int /\ P \in Nat /\ P > 0
      /\ x * x * x + B \in Int
  BY Prime, CurveAssumption, SMT
<1>3. (y * y) % P = (x * x * x + B) % P
  BY <1>1 DEF OnCurve
<1>4. Cong(P, y * y, x * x * x + B)
  BY <1>2, <1>3, CongEqual
<1>5. QED
  BY <1>1, <1>2, <1>4 DEF Is

\* A finite point is not its negative, so that its y is not zero.
LEMMA NonZeroY ==
    ASSUME NEW x \in Field, NEW y \in Field, <<x, y>> \in Points
    PROVE  ~Is(y, 0)
<1> SUFFICES ASSUME Is(y, 0) PROVE FALSE
  OBVIOUS
<1>1. y = 0 /\ (-0) % P = 0
  BY Prime, IsZero, IsItself
<1>2. PointNeg(<<x, y>>) = <<x, y>> /\ <<x, y>> # Infinity
  BY <1>1 DEF PointNeg, Infinity
<1>3. QED
  BY <1>2, NotItsNegative

\* What tells two points from opposite ones.
LEMMA Opposite ==
    ASSUME NEW x \in Field, NEW y \in Field, NEW z \in Field
    PROVE  <<x, z>> = PointNeg(<<x, y>>) <=> Is(z, -y)
<1>1. PointNeg(<<x, y>>) = <<x, (-y) % P>>
  BY DEF PointNeg, Infinity
<1>2. -y \in Int /\ z \in Int
  BY Prime
<1>3. Is(F(-y), -y) /\ F(-y) \in Field
  BY <1>2, IsItself, IsF, Zenon
<1>4. z = F(-y) <=> Is(z, -y)
  BY <1>2, <1>3, IsUnique, Zenon
<1>5. QED
  BY <1>1, <1>4 DEF F

LEMMA OppositeX ==
    ASSUME NEW x1 \in Field, NEW y1 \in Field, NEW x2 \in Field, NEW y2 \in Field,
           <<x2, y2>> = PointNeg(<<x1, y1>>)
    PROVE  x1 = x2 /\ Is(y2, -y1)
<1>1. PointNeg(<<x1, y1>>) = <<x1, (-y1) % P>>
  BY DEF PointNeg, Infinity
<1>2. x1 = x2
  BY <1>1
<1>3. QED
  BY <1>2, Opposite

\* (x3, y3) is the sum that a line of slope l through two points, or the
\* tangent in one, gives.
OnLine(l, x1, y1, x2, y2, x3, y3) ==
    /\ <<x3, y3>> \in Points
    /\ Is(x3, l * l - x1 - x2)
    /\ Is(y3, l * (x1 - x3) - y1)
    /\ Is(l * (x2 - x1), y2 - y1)
    /\ x1 = x2 => Is(l * (2 * y1), 3 * x1 * x1)

LEMMA Slope ==
    ASSUME NEW x1 \in Field, NEW y1 \in Field, NEW x2 \in Field, NEW y2 \in Field,
           <<x1, y1>> \in Points, <<x2, y2>> \in Points,
           <<x2, y2>> # PointNeg(<<x1, y1>>)
    PROVE  \E l, x3, y3 \in Field :
               /\ PointAdd(<<x1, y1>>, <<x2, y2>>) = <<x3, y3>>
               /\ OnLine(l, x1, y1, x2, y2, x3, y3)
<1> DEFINE p == <<x1, y1>>
           q == <<x2, y2>>
           slope == IF p = q THEN 3 * x1 * x1 * FieldInverse[(2 * y1) % P]
                    ELSE (y2 - y1) * FieldInverse[(x2 - x1) % P]
           l == slope % P
           x3 == (l * l - x1 - x2) % P
           y3 == (l * (x1 - x3) - y1) % P
<1>1. p # Infinity /\ q # Infinity
  BY DEF Infinity
<1>2. x1 \in Int /\ y1 \in Int /\ x2 \in Int /\ y2 \in Int
  BY Prime
<1>3. x1 = x2 => p = q
  <2>1. p[1] = x1 /\ q[1] = x2
    OBVIOUS
  <2>2. QED
    BY <1>1, <2>1, SameX
<1>4. PointAdd(p, q) = <<x3, y3>>
  BY <1>1 DEF PointAdd
<1>5. /\ l \in Field
      /\ Is(l * (x2 - x1), y2 - y1)
      /\ x1 = x2 => Is(l * (2 * y1), 3 * x1 * x1)
  <2>1. CASE p = q
    <3>1. 3 * x1 * x1 \in Int /\ 2 * y1 \in Int /\ 2 \in Int
      BY <1>2, SMT
    <3>2. ~Is(2 * y1, 0)
      BY <1>2, <3>1, NonZeroY, SmallNonZero, NonZeroProduct
    <3>3. l = (3 * x1 * x1 * FieldInverse[(2 * y1) % P]) % P
      BY <2>1
    <3> HIDE DEF l
    <3>4. l \in Field /\ Is(l * (2 * y1), 3 * x1 * x1)
      BY <3>1, <3>2, <3>3, Quotient
    <3>5. x2 - x1 = 0 /\ y2 - y1 = 0
      BY <1>2, <2>1
    <3>6. l * (x2 - x1) = 0
      BY <3>4, <3>5, Prime, SMT
    <3>7. QED
      BY <3>4, <3>5, <3>6, IsItself
  <2>2. CASE p # q
    <3>1. x2 # x1 /\ x2 - x1 \in Int /\ y2 - y1 \in Int
      BY <1>2, <1>3, <2>2
    <3>2. ~Is(x2 - x1, 0)
      BY <1>2, <3>1, DifferenceZero, IsItself, IsUnique
    <3>3. l = ((y2 - y1) * FieldInverse[(x2 - x1) % P]) % P
      BY <2>2
    <3> HIDE DEF l
    <3>4. l \in Field /\ Is(l * (x2 - x1), y2 - y1)
      BY <3>1, <3>2, <3>3, Quotient
    <3>5. QED
      BY <3>1, <3>4
  <2>3. QED
    BY <2>1, <2>2
<1> HIDE DEF l
<1>6. Is(x3, l * l - x1 - x2) /\ x3 \in Field
  <2>1. l * l - x1 - x2 \in Int
    BY <1>2, <1>5, Prime, SMT
  <2>2. QED
    BY <2>1, IsItself, IsF DEF F
<1> HIDE DEF x3
<1>7. Is(y3, l * (x1 - x3) - y1) /\ y3 \in Field
  <2>1. l * (x1 - x3) - y1 \in Int
    BY <1>2, <1>5, <1>6, Prime, SMT
  <2>2. QED
    BY <2>1, IsItself, IsF DEF F
<1> HIDE DEF y3
<1>8. <<x3, y3>> \in Points
  <2>1. PointAdd(p, q) \in Points
    BY AddPoint, TimesPoint
  <2>2. QED
    BY <1>4, <2>1
<1>9. QED
  BY <1>4, <1>5, <1>6, <1>7, <1>8 DEF OnLine

---------------------------------------------------------------------------
(* Jacobian coordinates.                                                   *)

Gejs == [x : Field, y : Field, z : Field, infinity : BOOLEAN]

\* A Jacobian point and the affine point it stands for.
Stands(a, p) ==
    /\ a \in Gejs /\ p \in Points
    /\ a.infinity => p = Infinity
    /\ ~a.infinity => /\ p # Infinity /\ a.z # 0
                      /\ Is(a.x, p[1] * (a.z * a.z))
                      /\ Is(a.y, p[2] * (a.z * a.z * a.z))

LEMMA StandsFinite ==
    ASSUME NEW p1 \in Field, NEW p2 \in Field, <<p1, p2>> \in Points,
           NEW x \in Field, NEW y \in Field, NEW z \in Field, NEW n,
           Is(z, n), ~Is(n, 0), Is(x, p1 * (n * n)), Is(y, p2 * (n * n * n))
    PROVE  Stands(Gej(x, y, z), <<p1, p2>>)
<1>1. z # 0
  BY IsZero
<1>2. p1 \in Int /\ p2 \in Int /\ Is(p1, p1) /\ Is(p2, p2) /\ Is(n, z)
  BY Prime, IsItself, IsSym
<1>3. Is(n * n, z * z) /\ Is(n * n * n, z * z * z)
  BY <1>2, IsMul, Zenon
<1>4. Is(p1 * (n * n), p1 * (z * z)) /\ Is(p2 * (n * n * n), p2 * (z * z * z))
  BY <1>2, <1>3, IsMul, Zenon
<1>5. Is(x, p1 * (z * z)) /\ Is(y, p2 * (z * z * z))
  BY <1>4, IsTrans, Zenon
<1>6. <<p1, p2>> # Infinity /\ <<p1, p2>>[1] = p1 /\ <<p1, p2>>[2] = p2
  BY DEF Infinity
<1> DEFINE a == Gej(x, y, z)
<1>7. a.x = x /\ a.y = y /\ a.z = z /\ a.infinity = FALSE /\ a \in Gejs
  BY DEF Gej, Gejs
<1> HIDE DEF a
<1>8. Stands(a, <<p1, p2>>)
  BY <1>1, <1>5, <1>6, <1>7, Zenon DEF Stands
<1>9. QED
  BY <1>8 DEF a

\* What a chord computes from the differences of two points over a common
\* z coordinate, for every slope l that fits them.
LEMMA ChordStands ==
    ASSUME NEW x1 \in Field, NEW y1 \in Field, NEW x2 \in Field, NEW y2 \in Field,
           NEW x3 \in Field, NEW y3 \in Field, NEW l \in Field,
           OnLine(l, x1, y1, x2, y2, x3, y3),
           NEW w, NEW h \in Field, NEW i, NEW u, NEW s, NEW z,
           ~Is(w, 0), h # 0, Is(z, w),
           Is(u, x1 * (w * w)), Is(s, y1 * (w * w * w)),
           Is(h, (x2 - x1) * (w * w)), Is(i, (y2 - y1) * (w * w * w))
    PROVE  Stands(Chord(h, i, u, s, F(z * h)), <<x3, y3>>)
<1> DEFINE d == x2 - x1
           n == d * (w * w * w)
           h2 == Sqr(h)
           h3 == F(h * h2)
           t == F(u * h2)
           x == F(Sqr(i) - h3 - 2 * t)
           y == F(F((t - x) * i) - h3 * s)
<1>0. /\ <<x3, y3>> \in Points
      /\ Is(x3, l * l - x1 - x2) /\ Is(y3, l * (x1 - x3) - y1)
      /\ Is(l * (x2 - x1), y2 - y1)
  BY DEF OnLine
<1>1. /\ x1 \in Int /\ y1 \in Int /\ x2 \in Int /\ y2 \in Int /\ x3 \in Int /\ y3 \in Int
      /\ l \in Int /\ d \in Int /\ w \in Int
  BY Prime DEF Is
<1>2. n \in Int /\ w * w \in Int /\ w * w * w \in Int /\ x2 = x1 + d
  BY <1>1, SMT
<1>3. Is(F(z * h), n) /\ F(z * h) \in Field /\ ~Is(n, 0)
  <2>1. Is(F(z * h), w * (d * (w * w))) /\ F(z * h) \in Field
    BY IsProduct, Zenon
  <2>2. w * (d * (w * w)) = n
    BY <1>1, SMT
  <2>3. d * (w * w) \in Int /\ ~Is(d * (w * w), 0)
    BY <1>1, IsZero, SMT
  <2>4. ~Is(w * (d * (w * w)), 0)
    BY <1>1, <2>3, NonZeroProduct, Zenon
  <2>5. QED
    BY <2>1, <2>2, <2>4, Zenon
<1>4. Is(i, l * n)
  <2>1. Is(y2 - y1, l * d) /\ Is(w * w * w, w * w * w)
    BY <1>0, <1>2, IsSym, IsItself
  <2>2. Is((y2 - y1) * (w * w * w), (l * d) * (w * w * w))
    BY <2>1, IsMul, Zenon
  <2>3. (l * d) * (w * w * w) = l * n
    BY <1>1, SMT
  <2>4. QED
    BY <2>2, <2>3, IsTrans, Zenon
<1> HIDE DEF d
<1>5. Is(h, d * (w * w))
  BY DEF d
<1>6. Is(h2, (d * (w * w)) * (d * (w * w)))
  BY <1>5, IsSqr, Zenon
<1> HIDE DEF h2
<1>7. Is(h3, d * (n * n))
  <2>1. Is(h3, (d * (w * w)) * ((d * (w * w)) * (d * (w * w))))
    BY <1>5, <1>6, IsProduct, Zenon
  <2>2. (d * (w * w)) * ((d * (w * w)) * (d * (w * w))) = d * (n * n)
    BY <1>1, SMT
  <2>3. QED
    BY <2>1, <2>2, Zenon
<1> HIDE DEF h3
<1>8. Is(t, x1 * (n * n))
  <2>1. Is(t, (x1 * (w * w)) * ((d * (w * w)) * (d * (w * w))))
    BY <1>6, IsProduct, Zenon
  <2>2. (x1 * (w * w)) * ((d * (w * w)) * (d * (w * w))) = x1 * (n * n)
    BY <1>1, SMT
  <2>3. QED
    BY <2>1, <2>2, Zenon
<1> HIDE DEF t, n
<1>9. Is(n * n, n * n) /\ Is(n * n * n, n * n * n)
  <2>1. n * n \in Int /\ n * n * n \in Int
    BY <1>2, SMT
  <2>2. QED
    BY <2>1, IsItself
<1>10. Is(x, x3 * (n * n)) /\ x \in Field
  <2>1. Is(Sqr(i), (l * n) * (l * n))
    BY <1>4, IsSqr, Zenon
  <2>2. Is(2 * t, 2 * (x1 * (n * n)))
    BY <1>8, IsTimes
  <2>3. Is(Sqr(i) - h3, (l * n) * (l * n) - d * (n * n))
    BY <2>1, <1>7, IsSub, Zenon
  <2>4. /\ Is(x, (l * n) * (l * n) - d * (n * n) - 2 * (x1 * (n * n)))
        /\ x \in Field
    BY <2>2, <2>3, IsDifference, Zenon
  <2>5. (l * n) * (l * n) - d * (n * n) - 2 * (x1 * (n * n)) = (l * l - x1 - x2) * (n * n)
    BY <1>1, <1>2, SMT
  <2>6. Is((l * l - x1 - x2) * (n * n), x3 * (n * n))
    BY <1>0, <1>9, IsSym, IsMul, Zenon
  <2>7. QED
    BY <2>4, <2>5, <2>6, IsTrans, Zenon
<1> HIDE DEF x
<1>11. Is(y, y3 * (n * n * n)) /\ y \in Field
  <2>1. Is(t - x, x1 * (n * n) - x3 * (n * n))
    BY <1>8, <1>10, IsSub, Zenon
  <2>2. Is(F((t - x) * i), (x1 * (n * n) - x3 * (n * n)) * (l * n))
    BY <2>1, <1>4, IsProduct, Zenon
  <2>3. Is(h3 * s, (d * (n * n)) * (y1 * (w * w * w)))
    BY <1>7, IsMul, Zenon
  <2>4. /\ Is(y, (x1 * (n * n) - x3 * (n * n)) * (l * n) - (d * (n * n)) * (y1 * (w * w * w)))
        /\ y \in Field
    BY <2>2, <2>3, IsDifference, Zenon
  <2>5. (d * (n * n)) * (y1 * (w * w * w)) = y1 * (n * n * n)
    <3>1. (d * (n * n)) * (y1 * (w * w * w)) = y1 * (n * n * (d * (w * w * w)))
      BY <1>1, <1>2, SMT
    <3>2. QED
      BY <3>1 DEF n
  <2>6. (x1 * (n * n) - x3 * (n * n)) * (l * n) - y1 * (n * n * n)
          = (l * (x1 - x3) - y1) * (n * n * n)
    BY <1>1, <1>2, SMT
  <2>7. Is((l * (x1 - x3) - y1) * (n * n * n), y3 * (n * n * n))
    BY <1>0, <1>9, IsSym, IsMul, Zenon
  <2>8. Is(y, (l * (x1 - x3) - y1) * (n * n * n)) /\ y \in Field
    BY <2>4, <2>5, <2>6, Zenon
  <2>9. QED
    BY <2>7, <2>8, IsTrans, Zenon
<1> HIDE DEF y
<1>12. Stands(Gej(x, y, F(z * h)), <<x3, y3>>)
  BY <1>0, <1>3, <1>10, <1>11, StandsFinite
<1>13. Chord(h, i, u, s, F(z * h)) = Gej(x, y, F(z * h))
  BY Zenon DEF Chord, x, y, t, h3, h2
<1>14. QED
  BY <1>12, <1>13, Zenon

LEMMA StandsFor ==
    ASSUME NEW a, NEW p, Stands(a, p), ~a.infinity
    PROVE  \E x, y \in Field :
               /\ p = <<x, y>> /\ p \in Points /\ Is(y * y, x * x * x + B)
               /\ a.x \in Field /\ a.y \in Field /\ a.z \in Field
               /\ a.z \in Int /\ ~Is(a.z, 0)
               /\ Is(a.x, x * (a.z * a.z)) /\ Is(a.y, y * (a.z * a.z * a.z))
<1>1. p \in Points /\ p # Infinity /\ a.z # 0 /\ a \in Gejs
  BY DEF Stands
<1>2. a.x \in Field /\ a.y \in Field /\ a.z \in Field
  BY <1>1 DEF Gejs
<1>3. PICK x \in Field, y \in Field : p = <<x, y>> /\ Is(y * y, x * x * x + B)
  BY <1>1, PointCoordinates, Zenon
<1>4. p[1] = x /\ p[2] = y
  BY <1>3
<1>5. Is(a.x, x * (a.z * a.z)) /\ Is(a.y, y * (a.z * a.z * a.z))
  BY <1>4, Zenon DEF Stands
<1>6. a.z \in Int /\ ~Is(a.z, 0)
  BY <1>1, <1>2, FieldNonZero
<1>7. QED
  BY <1>1, <1>2, <1>3, <1>5, <1>6

\* gej_double_var.
LEMMA DoubleStands ==
    ASSUME NEW a, NEW p, Stands(a, p), ~a.infinity
    PROVE  Stands(GejDouble(a), PointAdd(p, p))
<1>1. PICK x1 \in Field, y1 \in Field :
          /\ p = <<x1, y1>> /\ p \in Points
          /\ a.x \in Field /\ a.y \in Field /\ a.z \in Field
          /\ a.z \in Int /\ ~Is(a.z, 0)
          /\ Is(a.x, x1 * (a.z * a.z)) /\ Is(a.y, y1 * (a.z * a.z * a.z))
  BY StandsFor, Zenon
<1>2. p # PointNeg(p)
  BY <1>1, NotItsNegative DEF Infinity
<1>3. PICK l \in Field, x3 \in Field, y3 \in Field :
          PointAdd(p, p) = <<x3, y3>> /\ OnLine(l, x1, y1, x1, y1, x3, y3)
  BY <1>1, <1>2, Slope, Zenon
<1>0. /\ <<x3, y3>> \in Points
      /\ Is(x3, l * l - x1 - x1) /\ Is(y3, l * (x1 - x3) - y1)
      /\ Is(l * (2 * y1), 3 * x1 * x1)
  BY <1>3 DEF OnLine
<1>4. PICK w \in Int : w = a.z
  BY <1>1
<1> DEFINE n == 2 * w * (y1 * (w * w * w))
           e == 2 * ((y1 * (w * w * w)) * (y1 * (w * w * w))) * (x1 * (w * w))
           t1 == F(3 * Sqr(a.x))
           t2 == Sqr(t1)
           t3 == F(2 * Sqr(a.y) * a.x)
           t4 == F(2 * Sqr(F(2 * Sqr(a.y))))
           x == F(t2 - 4 * t3)
           v == F(6 * t3 - t2)
           y == F(t1 * v - t4)
           z == F(2 * a.z * a.y)
<1>5. x1 \in Int /\ y1 \in Int /\ x3 \in Int /\ y3 \in Int /\ l \in Int
  BY Prime
<1>6. Is(a.x, x1 * (w * w)) /\ Is(a.y, y1 * (w * w * w)) /\ Is(a.z, w) /\ ~Is(w, 0)
  BY <1>1, <1>4, IsItself
<1>7. n \in Int /\ n * n \in Int /\ n * n * n \in Int /\ w * w * w * w \in Int
  BY <1>5, SMT
<1>8. Is(n * n, n * n) /\ Is(n * n * n, n * n * n) /\ Is(w * w * w * w, w * w * w * w)
  BY <1>7, IsItself
<1>9. Is(z, n) /\ z \in Field /\ ~Is(n, 0)
  <2>1. 2 \in Int
    OBVIOUS
  <2>10. Is(2 * a.z, 2 * w)
    BY <1>6, <2>1, IsTimes, Zenon
  <2>2. Is(z, n) /\ z \in Field
    BY <1>6, <2>10, IsProduct, Zenon
  <2>3. y1 \in Int /\ ~Is(y1, 0) /\ 2 \in Int /\ ~Is(2, 0)
    BY <1>1, <1>5, NonZeroY, SmallNonZero
  <2>4. w * w \in Int /\ ~Is(w * w, 0)
    BY <1>6, NonZeroProduct, Zenon
  <2>5. w * w * w \in Int /\ ~Is(w * w * w, 0)
    BY <1>6, <2>4, NonZeroProduct, Zenon
  <2>6. y1 * (w * w * w) \in Int /\ ~Is(y1 * (w * w * w), 0)
    BY <2>3, <2>5, NonZeroProduct, Zenon
  <2>7. 2 * w \in Int /\ ~Is(2 * w, 0)
    BY <1>6, <2>3, NonZeroProduct, Zenon
  <2>8. ~Is(n, 0)
    BY <2>6, <2>7, NonZeroProduct, Zenon
  <2>9. QED
    BY <2>2, <2>8
<1> HIDE DEF z
<1>10. Is(t1, l * n) /\ t1 \in Field
  <2>1. Is(Sqr(a.x), (x1 * (w * w)) * (x1 * (w * w)))
    BY <1>6, IsSqr, Zenon
  <2>2. /\ Is(t1, 3 * ((x1 * (w * w)) * (x1 * (w * w))))
        /\ t1 \in Field
    BY <2>1, IsMultiple
  <2>3. Is((l * (2 * y1)) * (w * w * w * w), (3 * x1 * x1) * (w * w * w * w))
    BY <1>0, <1>8, IsMul, Zenon
  <2>4. /\ (l * (2 * y1)) * (w * w * w * w) = l * n
        /\ 3 * ((x1 * (w * w)) * (x1 * (w * w))) = (3 * x1 * x1) * (w * w * w * w)
    BY <1>5, SMT
  <2>5. Is(t1, (3 * x1 * x1) * (w * w * w * w)) /\ Is((3 * x1 * x1) * (w * w * w * w), l * n)
    BY <2>2, <2>3, <2>4, IsSym, Zenon
  <2>6. QED
    BY <2>2, <2>5, IsTrans, Zenon
<1> HIDE DEF t1
<1>11. Is(t2, (l * n) * (l * n))
  BY <1>10, IsSqr, Zenon
<1> HIDE DEF t2
<1>12. Is(Sqr(a.y), (y1 * (w * w * w)) * (y1 * (w * w * w)))
  BY <1>6, IsSqr, Zenon
<1>13. Is(t3, e) /\ e \in Int /\ 2 * e = x1 * (n * n)
  <2>1. Is(2 * Sqr(a.y), 2 * ((y1 * (w * w * w)) * (y1 * (w * w * w))))
    BY <1>12, IsTimes
  <2>2. Is(t3, e)
    BY <1>6, <2>1, IsProduct, Zenon
  <2>3. e \in Int /\ 2 * e = x1 * (n * n)
    BY <1>5, SMT
  <2>4. QED
    BY <2>2, <2>3
<1> HIDE DEF t3, e
<1>14. Is(t4, y1 * (n * n * n))
  <2> DEFINE f == 2 * ((y1 * (w * w * w)) * (y1 * (w * w * w)))
  <2>1. Is(F(2 * Sqr(a.y)), f)
    BY <1>12, IsMultiple
  <2> HIDE DEF f
  <2>2. Is(Sqr(F(2 * Sqr(a.y))), f * f)
    BY <2>1, IsSqr, Zenon
  <2>3. Is(t4, 2 * (f * f))
    BY <2>2, IsMultiple
  <2>4. 2 * (f * f) = y1 * (n * n * n)
    BY <1>5, SMT DEF f
  <2>5. QED
    BY <2>3, <2>4, Zenon
<1> HIDE DEF t4, n
<1>15. Is(x, x3 * (n * n)) /\ x \in Field
  <2>1. Is(4 * t3, 4 * e)
    BY <1>13, IsTimes
  <2>2. Is(x, (l * n) * (l * n) - 4 * e) /\ x \in Field
    BY <1>11, <2>1, IsDifference, Zenon
  <2>3. (l * n) * (l * n) - 4 * e = (l * l - x1 - x1) * (n * n)
    BY <1>5, <1>7, <1>13, SMT
  <2>4. Is((l * l - x1 - x1) * (n * n), x3 * (n * n))
    BY <1>0, <1>8, IsSym, IsMul, Zenon
  <2>5. QED
    BY <2>2, <2>3, <2>4, IsTrans, Zenon
<1> HIDE DEF x
<1>16. Is(v, (x1 - x3) * (n * n))
  <2>1. Is(6 * t3, 6 * e)
    BY <1>13, IsTimes
  <2>2. Is(v, 6 * e - (l * n) * (l * n))
    BY <1>11, <2>1, IsDifference, Zenon
  <2>3. 6 * e - (l * n) * (l * n) = (x1 - (l * l - x1 - x1)) * (n * n)
    BY <1>5, <1>7, <1>13, SMT
  <2>4. Is(x1 - (l * l - x1 - x1), x1 - x3)
    BY <1>0, <1>5, IsItself, IsSym, IsSub, Zenon
  <2>5. Is((x1 - (l * l - x1 - x1)) * (n * n), (x1 - x3) * (n * n))
    BY <1>8, <2>4, IsMul, Zenon
  <2>6. QED
    BY <2>2, <2>3, <2>5, IsTrans, Zenon
<1> HIDE DEF v
<1>17. Is(y, y3 * (n * n * n)) /\ y \in Field
  <2>1. Is(t1 * v, (l * n) * ((x1 - x3) * (n * n)))
    BY <1>10, <1>16, IsMul, Zenon
  <2>2. Is(y, (l * n) * ((x1 - x3) * (n * n)) - y1 * (n * n * n)) /\ y \in Field
    BY <1>14, <2>1, IsDifference, Zenon
  <2>3. (l * n) * ((x1 - x3) * (n * n)) - y1 * (n * n * n)
          = (l * (x1 - x3) - y1) * (n * n * n)
    BY <1>5, <1>7, SMT
  <2>4. Is((l * (x1 - x3) - y1) * (n * n * n), y3 * (n * n * n))
    BY <1>0, <1>8, IsSym, IsMul, Zenon
  <2>5. QED
    BY <2>2, <2>3, <2>4, IsTrans, Zenon
<1> HIDE DEF y
<1>18. Stands(Gej(x, y, z), <<x3, y3>>)
  BY <1>0, <1>9, <1>15, <1>17, StandsFinite
<1>19. GejDouble(a) = Gej(x, y, z)
  BY Zenon DEF GejDouble, x, y, z, v, t1, t2, t3, t4
<1>20. QED
  BY <1>3, <1>18, <1>19, Zenon

LEMMA FlaggedStands ==
    ASSUME NEW a, NEW p, Stands(a, p)
    PROVE  Stands(Flagged(a), Infinity)
<1>1. a \in Gejs /\ Infinity \in Points
  BY InfinityIsZero DEF Stands
<1>2. Flagged(a) \in Gejs /\ Flagged(a).infinity = TRUE
  BY <1>1 DEF Flagged, Gejs
<1>3. QED
  BY <1>1, <1>2 DEF Stands

LEMMA OppositeSum ==
    ASSUME NEW x1 \in Field, NEW y1 \in Field, NEW x2 \in Field, NEW y2 \in Field,
           <<x2, y2>> = PointNeg(<<x1, y1>>)
    PROVE  PointAdd(<<x1, y1>>, <<x2, y2>>) = Infinity
<1> DEFINE p == <<x1, y1>>
           q == <<x2, y2>>
<1>1. p # Infinity /\ q # Infinity /\ q = PointNeg(p)
  BY DEF Infinity
<1> HIDE DEF p, q
<1>2. PointAdd(p, q) = Infinity
  BY <1>1, Zenon DEF PointAdd
<1>3. QED
  BY <1>2 DEF p, q

\* The common part of gej_add_var, gej_add_ge_var and gej_add_zinv_var,
\* if it compares the coordinates over a common z coordinate w.
LEMMA AddFiniteStands ==
    ASSUME NEW a, NEW p, Stands(a, p), ~a.infinity,
           NEW q \in Points, q # Infinity,
           NEW az, NEW b, NEW bz, NEW z, NEW w, ~Is(w, 0), Is(z, w),
           Is(F(a.x * Sqr(bz)), p[1] * (w * w)),
           Is(F(F(a.y * Sqr(bz)) * bz), p[2] * (w * w * w)),
           Is(F(b.x * Sqr(az)), q[1] * (w * w)),
           Is(F(F(b.y * Sqr(az)) * az), q[2] * (w * w * w))
    PROVE  Stands(AddFinite(a, az, b, bz, z), PointAdd(p, q))
<1> DEFINE u1 == F(a.x * Sqr(bz))
           u2 == F(b.x * Sqr(az))
           s1 == F(F(a.y * Sqr(bz)) * bz)
           s2 == F(F(b.y * Sqr(az)) * az)
           h == F(u2 - u1)
           i == F(s2 - s1)
<1>0. p \in Points /\ p # Infinity
  BY DEF Stands
<1>1. PICK x1 \in Field, y1 \in Field : p = <<x1, y1>> /\ p \in Points
  BY <1>0, PointCoordinates, Zenon
<1>2. PICK x2 \in Field, y2 \in Field : q = <<x2, y2>>
  BY PointCoordinates, Zenon
<1>3. p[1] = x1 /\ p[2] = y1 /\ q[1] = x2 /\ q[2] = y2
  BY <1>1, <1>2
<1>4. /\ Is(u1, x1 * (w * w)) /\ Is(s1, y1 * (w * w * w))
      /\ Is(u2, x2 * (w * w)) /\ Is(s2, y2 * (w * w * w))
  BY <1>3, Zenon
<1> HIDE DEF u1, u2, s1, s2
<1>5. /\ x1 \in Int /\ y1 \in Int /\ x2 \in Int /\ y2 \in Int /\ w \in Int
      /\ Is(x1, x1) /\ Is(y1, y1)
  BY Prime, IsItself DEF Is
<1>6. Is(h, (x2 - x1) * (w * w)) /\ h \in Field
  <2>1. Is(h, x2 * (w * w) - x1 * (w * w)) /\ h \in Field
    BY <1>4, IsDifference, Zenon
  <2>2. x2 * (w * w) - x1 * (w * w) = (x2 - x1) * (w * w)
    BY <1>5, SMT
  <2>3. QED
    BY <2>1, <2>2, Zenon
<1>7. Is(i, (y2 - y1) * (w * w * w)) /\ i \in Field
  <2>1. Is(i, y2 * (w * w * w) - y1 * (w * w * w)) /\ i \in Field
    BY <1>4, IsDifference, Zenon
  <2>2. y2 * (w * w * w) - y1 * (w * w * w) = (y2 - y1) * (w * w * w)
    BY <1>5, SMT
  <2>3. QED
    BY <2>1, <2>2, Zenon
<1> HIDE DEF h, i
<1>8. w * w \in Int /\ ~Is(w * w, 0) /\ w * w * w \in Int /\ ~Is(w * w * w, 0)
  BY <1>5, NonZeroProduct, Zenon
<1>9. h = 0 => x1 = x2
  <2> SUFFICES ASSUME h = 0 PROVE x1 = x2
    OBVIOUS
  <2>1. x2 - x1 \in Int /\ Is((x2 - x1) * (w * w), 0)
    BY <1>5, <1>6, IsZero
  <2>2. Is(x2 - x1, 0)
    BY <1>8, <2>1, NoDivisors, Zenon
  <2>3. Is(x2, x1)
    BY <1>5, <2>2, DifferenceZero, Zenon
  <2>4. QED
    BY <1>5, <2>3, IsUnique
<1>10. i = 0 => y1 = y2
  <2> SUFFICES ASSUME i = 0 PROVE y1 = y2
    OBVIOUS
  <2>1. y2 - y1 \in Int /\ Is((y2 - y1) * (w * w * w), 0)
    BY <1>5, <1>7, IsZero
  <2>2. Is(y2 - y1, 0)
    BY <1>8, <2>1, NoDivisors, Zenon
  <2>3. Is(y2, y1)
    BY <1>5, <2>2, DifferenceZero, Zenon
  <2>4. QED
    BY <1>5, <2>3, IsUnique
<1>11. (x1 = x2 => h = 0) /\ (y1 = y2 => i = 0)
  <2>1. ASSUME x1 = x2 PROVE h = 0
    <3>1. x2 - x1 = 0 /\ (x2 - x1) * (w * w) = 0
      BY <1>5, <1>8, <2>1, SMT
    <3>2. Is(h, 0)
      BY <1>6, <3>1, Zenon
    <3>3. QED
      BY <1>6, <3>2, IsZero, IsItself
  <2>2. ASSUME y1 = y2 PROVE i = 0
    <3>1. y2 - y1 = 0 /\ (y2 - y1) * (w * w * w) = 0
      BY <1>5, <1>8, <2>2, SMT
    <3>2. Is(i, 0)
      BY <1>7, <3>1, Zenon
    <3>3. QED
      BY <1>7, <3>2, IsZero, IsItself
  <2>3. QED
    BY <2>1, <2>2
<1>12. AddFinite(a, az, b, bz, z) =
          CASE h # 0 -> Chord(h, i, u1, s1, F(z * h))
            [] h = 0 /\ i = 0 -> GejDouble(a)
            [] OTHER -> Flagged(a)
  BY Zenon DEF AddFinite, h, i, u1, u2, s1, s2
<1> DEFINE Sum == AddFinite(a, az, b, bz, z)
<1> HIDE DEF Sum
<1>13. /\ h # 0 => Sum = Chord(h, i, u1, s1, F(z * h))
       /\ h = 0 /\ i = 0 => Sum = GejDouble(a)
       /\ h = 0 /\ i # 0 => Sum = Flagged(a)
  BY <1>12, Zenon DEF Sum
<1>14. CASE h # 0
  <2>1. x1 # x2
    BY <1>11, <1>14
  <2>2. q # PointNeg(p)
    BY <1>1, <1>2, <2>1, OppositeX
  <2>3. PICK l \in Field, x3 \in Field, y3 \in Field :
            PointAdd(p, q) = <<x3, y3>> /\ OnLine(l, x1, y1, x2, y2, x3, y3)
    BY <1>1, <1>2, <2>2, Slope, Zenon
  <2>4. Stands(Chord(h, i, u1, s1, F(z * h)), <<x3, y3>>)
    BY <1>4, <1>6, <1>7, <1>14, <2>3, ChordStands, Zenon
  <2>5. QED
    BY <1>13, <1>14, <2>3, <2>4, Zenon DEF Sum
<1>15. CASE h = 0 /\ i = 0
  <2>1. p = q
    BY <1>1, <1>2, <1>9, <1>10, <1>15
  <2>2. QED
    BY <1>13, <1>15, <2>1, DoubleStands, Zenon DEF Sum
<1>16. CASE h = 0 /\ i # 0
  <2>1. x1 = x2 /\ y1 # y2
    BY <1>9, <1>11, <1>16
  <2>2. q = PointNeg(p)
    <3>1. p # q /\ p # Infinity /\ p[1] = q[1]
      BY <1>1, <1>2, <1>3, <2>1 DEF Infinity
    <3>2. QED
      BY <1>1, <3>1, SameX
  <2>3. PointAdd(p, q) = Infinity
    BY <1>1, <1>2, <2>2, OppositeSum
  <2>4. QED
    BY <1>13, <1>16, <2>3, FlaggedStands, Zenon DEF Sum
<1>17. QED
  BY <1>14, <1>15, <1>16

\* The end of gej_add_ge, for any fraction L / (m*w) that is the slope.
LEMMA UnifiedStands ==
    ASSUME NEW x1 \in Field, NEW y1 \in Field, NEW x2 \in Field, NEW y2 \in Field,
           NEW x3 \in Field, NEW y3 \in Field, NEW l \in Field,
           OnLine(l, x1, y1, x2, y2, x3, y3),
           NEW w \in Field, w # 0, NEW m \in Field, m # 0, NEW L, NEW t, NEW n,
           Is(L, l * (m * w)), Is(t, (x1 + x2) * (w * w)),
           Is(n, (y1 + y2) * ((m * w) * (m * w) * (m * w)))
    PROVE  LET q == F(Sqr(m) * t)
               x == F(Sqr(L) - q)
               y == F(-(F((2 * x - q) * L) + n))
           IN  /\ Stands(Gej(F(4 * x), F(4 * y), F(2 * F(w * m))), <<x3, y3>>)
               /\ F(w * m) # 0
<1> DEFINE q == F(Sqr(m) * t)
           x == F(Sqr(L) - q)
           v == F((2 * x - q) * L)
           y == F(-(v + n))
           e == m * w
           k == 2 * e
<1>1. /\ <<x3, y3>> \in Points
      /\ Is(x3, l * l - x1 - x2) /\ Is(y3, l * (x1 - x3) - y1)
      /\ Is(l * (x2 - x1), y2 - y1)
  BY DEF OnLine
<1>2. /\ x1 \in Int /\ y1 \in Int /\ x2 \in Int /\ y2 \in Int /\ x3 \in Int /\ y3 \in Int
      /\ l \in Int /\ w \in Int /\ m \in Int /\ Is(w, w) /\ Is(m, m)
      /\ ~Is(w, 0) /\ ~Is(m, 0) /\ 2 \in Int /\ 4 \in Int
  BY Prime, IsItself, FieldNonZero
<1>3. e \in Int /\ k \in Int /\ e * e \in Int /\ 4 * (e * e * e) \in Int
  BY <1>2, SMT
<1>4. ~Is(e, 0) /\ ~Is(k, 0)
  BY <1>2, SmallNonZero, NonZeroProduct, Zenon
<1>5. F(w * m) # 0 /\ Is(F(2 * F(w * m)), k) /\ F(2 * F(w * m)) \in Field
  <2>1. w * m = e
    BY <1>2, SMT
  <2>2. Is(F(w * m), w * m) /\ F(w * m) \in Field
    BY <1>2, IsProduct, Zenon
  <2>3. Is(F(w * m), e)
    BY <2>1, <2>2, Zenon
  <2>4. F(w * m) # 0
    BY <1>4, <2>2, <2>3, IsZero
  <2>5. QED
    BY <1>2, <2>3, <2>4, IsMultiple, Zenon
<1>6. Is(q, (x1 + x2) * (e * e))
  <2>1. Is(Sqr(m), m * m)
    BY <1>2, IsSqr, Zenon
  <2>2. Is(q, (m * m) * ((x1 + x2) * (w * w)))
    BY <2>1, IsProduct, Zenon
  <2>3. (m * m) * ((x1 + x2) * (w * w)) = (x1 + x2) * (e * e)
    BY <1>2, SMT
  <2>4. QED
    BY <2>2, <2>3, Zenon
<1>7. Is(L, l * e) /\ Is(n, (y1 + y2) * (e * e * e))
  OBVIOUS
<1> HIDE DEF q, e
<1>8. Is(x, x3 * (e * e))
  <2>1. Is(Sqr(L), (l * e) * (l * e))
    BY <1>7, IsSqr, Zenon
  <2>2. Is(x, (l * e) * (l * e) - (x1 + x2) * (e * e))
    BY <1>6, <2>1, IsDifference, Zenon
  <2>3. (l * e) * (l * e) - (x1 + x2) * (e * e) = (l * l - x1 - x2) * (e * e)
    BY <1>2, <1>3, SMT
  <2>4. Is((l * l - x1 - x2) * (e * e), x3 * (e * e))
    BY <1>1, <1>3, IsItself, IsSym, IsMul, Zenon
  <2>5. QED
    BY <2>2, <2>3, <2>4, IsTrans, Zenon
<1> HIDE DEF x
<1>9. Is(F(4 * x), x3 * (k * k)) /\ F(4 * x) \in Field
  <2>1. Is(F(4 * x), 4 * (x3 * (e * e))) /\ F(4 * x) \in Field
    BY <1>2, <1>8, IsMultiple, Zenon
  <2>2. 4 * (x3 * (e * e)) = x3 * (k * k)
    BY <1>2, <1>3, SMT
  <2>3. QED
    BY <2>1, <2>2, Zenon
<1> DEFINE fromFirst == l * (x1 - x3) - y1
           fromSecond == l * (x2 - x3) - y2
<1>10. Is(fromFirst + fromSecond, y3 + y3)
  <2>1. fromFirst \in Int /\ y2 - y1 \in Int /\ l * (x2 - x1) \in Int
    BY <1>2, SMT
  <2>2. fromSecond = fromFirst + (l * (x2 - x1) - (y2 - y1))
    BY <1>2, SMT
  <2>3. Is(fromFirst, y3)
    BY <1>1, IsSym, Zenon
  <2> HIDE DEF fromFirst, fromSecond
  <2>4. Is(l * (x2 - x1) - (y2 - y1), 0)
    BY <1>1, <2>1, DifferenceZero, Zenon
  <2>5. Is(fromFirst + (l * (x2 - x1) - (y2 - y1)), y3 + 0)
    BY <2>3, <2>4, IsAdd, Zenon
  <2>6. y3 + 0 = y3
    BY <1>2
  <2>7. Is(fromSecond, y3)
    BY <2>2, <2>5, <2>6, Zenon
  <2>8. QED
    BY <2>3, <2>7, IsAdd, Zenon
<1>11. Is(y, -((2 * (x3 * (e * e)) - (x1 + x2) * (e * e)) * (l * e)
                + (y1 + y2) * (e * e * e)))
  <2>1. Is(2 * x, 2 * (x3 * (e * e)))
    BY <1>2, <1>8, IsTimes, Zenon
  <2>2. Is(2 * x - q, 2 * (x3 * (e * e)) - (x1 + x2) * (e * e))
    BY <1>6, <2>1, IsSub, Zenon
  <2>3. Is(v, (2 * (x3 * (e * e)) - (x1 + x2) * (e * e)) * (l * e))
    BY <1>7, <2>2, IsProduct, Zenon
  <2> HIDE DEF v
  <2>4. Is(v + n, (2 * (x3 * (e * e)) - (x1 + x2) * (e * e)) * (l * e)
                  + (y1 + y2) * (e * e * e))
    BY <1>7, <2>3, IsAdd, Zenon
  <2>5. QED
    BY <2>4, IsNeg, IsF, Zenon
<1> HIDE DEF v, y
<1>12. Is(F(4 * y), y3 * (k * k * k)) /\ F(4 * y) \in Field
  <2> DEFINE c == -((2 * (x3 * (e * e)) - (x1 + x2) * (e * e)) * (l * e)
                    + (y1 + y2) * (e * e * e))
  <2>1. Is(F(4 * y), 4 * c) /\ F(4 * y) \in Field
    BY <1>2, <1>11, IsMultiple, Zenon
  <2>2. 4 * c = (fromFirst + fromSecond) * (4 * (e * e * e))
    BY <1>2, <1>3, SMT
  <2>3. Is((fromFirst + fromSecond) * (4 * (e * e * e)), (y3 + y3) * (4 * (e * e * e)))
    BY <1>3, <1>10, IsItself, IsMul, Zenon
  <2>4. (y3 + y3) * (4 * (e * e * e)) = y3 * (k * k * k)
    BY <1>2, <1>3, SMT
  <2> HIDE DEF c, fromFirst, fromSecond
  <2>5. QED
    BY <2>1, <2>2, <2>3, <2>4, IsTrans, Zenon
<1> HIDE DEF k
<1>13. Stands(Gej(F(4 * x), F(4 * y), F(2 * F(w * m))), <<x3, y3>>)
  BY <1>1, <1>4, <1>5, <1>9, <1>12, StandsFinite, Zenon
<1>14. QED
  BY <1>5, <1>13, Zenon DEF q, x, v, y

\* The curve equation, with the unified formula's numerator as a factor.
LEMMA CubesDiffer ==
    ASSUME NEW x1 \in Int, NEW y1 \in Int, NEW x2 \in Int, NEW y2 \in Int,
           Is(y1 * y1, x1 * x1 * x1 + B), Is(y2 * y2, x2 * x2 * x2 + B)
    PROVE  Is((x2 - x1) * ((x1 + x2) * (x1 + x2) - x1 * x2), (y2 - y1) * (y2 + y1))
<1>1. B \in Int
  BY CurveAssumption
<1>2. Is(y2 * y2 - y1 * y1, (x2 * x2 * x2 + B) - (x1 * x1 * x1 + B))
  BY IsSub, Zenon
<1>3. /\ (y2 - y1) * (y2 + y1) = y2 * y2 - y1 * y1
      /\ (x2 * x2 * x2 + B) - (x1 * x1 * x1 + B)
           = (x2 - x1) * ((x1 + x2) * (x1 + x2) - x1 * x2)
  BY <1>1, SMT
<1>4. QED
  BY <1>2, <1>3, IsSym, Zenon

\* Where the y are not opposite, lambda may be computed from their sum.
LEMMA UnifiedSlope ==
    ASSUME NEW x1 \in Field, NEW y1 \in Field, NEW x2 \in Field, NEW y2 \in Field,
           NEW x3 \in Field, NEW y3 \in Field, NEW l \in Field,
           OnLine(l, x1, y1, x2, y2, x3, y3),
           Is(y1 * y1, x1 * x1 * x1 + B), Is(y2 * y2, x2 * x2 * x2 + B),
           x1 = x2 => y1 = y2
    PROVE  Is((x1 + x2) * (x1 + x2) - x1 * x2, l * (y1 + y2))
<1> DEFINE c == (x1 + x2) * (x1 + x2) - x1 * x2
           d == x2 - x1
<1>1. /\ x1 \in Int /\ y1 \in Int /\ x2 \in Int /\ y2 \in Int /\ l \in Int
      /\ Is(l * (x2 - x1), y2 - y1)
      /\ x1 = x2 => Is(l * (2 * y1), 3 * x1 * x1)
  BY Prime DEF OnLine
<1>2. c \in Int /\ d \in Int /\ l * (y1 + y2) \in Int /\ y2 + y1 \in Int
  BY <1>1, SMT
<1>3. CASE x1 = x2
  <2>1. y1 + y2 = 2 * y1 /\ c = 3 * x1 * x1
    BY <1>1, <1>3, SMT
  <2>2. Is(3 * x1 * x1, l * (2 * y1))
    BY <1>1, <1>3, IsSym, Zenon
  <2>3. QED
    BY <2>1, <2>2
<1>4. CASE x1 # x2
  <2>1. ~Is(d, 0)
    BY <1>1, <1>4, DifferenceZero, IsItself, IsUnique
  <2>2. Is(d * c, (y2 - y1) * (y2 + y1))
    BY <1>1, CubesDiffer, Zenon
  <2>3. Is((y2 - y1) * (y2 + y1), (l * d) * (y2 + y1))
    BY <1>1, <1>2, IsItself, IsSym, IsMul, Zenon
  <2>4. (l * d) * (y2 + y1) = d * (l * (y1 + y2))
    BY <1>1, SMT
  <2> HIDE DEF c, d
  <2>5. Is(d * c, d * (l * (y1 + y2)))
    BY <2>2, <2>3, <2>4, IsTrans, Zenon
  <2>6. Is(c, l * (y1 + y2))
    BY <1>2, <2>1, <2>5, Cancel, Zenon
  <2>7. QED
    BY <2>6 DEF c
<1>5. QED
  BY <1>3, <1>4

LEMMA InField == ASSUME NEW a \in Int PROVE F(a) \in Field /\ F(a) \in Int
BY IsItself, IsF, Prime

\* gej_add_ge.
\* A point on the isomorphic curve of Z, back on the curve itself.
On(Z, a) == [x |-> a.x, y |-> a.y, z |-> F(a.z * Z), infinity |-> a.infinity]


LEMMA AddGeOn ==
    ASSUME NEW Z \in Field, NEW a \in Gejs, NEW p, Stands(On(Z, a), p), ~a.infinity,
           NEW b, NEW q, Stands(Gej(b.x, b.y, Z), q)
    PROVE  Stands(On(Z, GejAddGe(a, b)), PointAdd(p, q))
<1> DEFINE u2 == F(b.x * Sqr(a.z))
           s2 == F(F(b.y * Sqr(a.z)) * a.z)
           t == F(a.x + u2)
           m == F(a.y + s2)
           rr == F(Sqr(t) - a.x * u2)
           degenerate == m = 0 /\ rr = 0
           rrAlt == IF degenerate THEN F(2 * a.y) ELSE rr
           mAlt == IF degenerate THEN F(a.x - u2) ELSE m
           n == IF degenerate THEN m ELSE Sqr(Sqr(mAlt))
           qq == F(Sqr(mAlt) * t)
           x == F(Sqr(rrAlt) - qq)
           y == F(-(F((2 * x - qq) * rrAlt) + n))
           z == F(a.z * mAlt)
<1> DEFINE sum == GejAddGe(a, b)
<1>1. sum = [x |-> F(4 * x), y |-> F(4 * y), z |-> F(2 * z), infinity |-> z = 0]
  BY Zenon DEF GejAddGe
<1> SUFFICES Stands(On(Z, sum), PointAdd(p, q))
  OBVIOUS
<1> HIDE DEF sum
<1>2. PICK x1 \in Field, y1 \in Field, w \in Field :
          /\ p = <<x1, y1>> /\ p \in Points /\ Is(y1 * y1, x1 * x1 * x1 + B)
          /\ w = F(a.z * Z) /\ w \in Int /\ ~Is(w, 0)
          /\ Is(a.x, x1 * (w * w)) /\ Is(a.y, y1 * (w * w * w))
  <2>1. /\ On(Z, a).x = a.x /\ On(Z, a).y = a.y /\ On(Z, a).z = F(a.z * Z)
        /\ ~On(Z, a).infinity
    BY DEF On
  <2>2. QED
    BY <2>1, StandsFor, Zenon
<1>3. PICK x2 \in Field, y2 \in Field :
          /\ q = <<x2, y2>> /\ q \in Points /\ Is(y2 * y2, x2 * x2 * x2 + B)
          /\ Z \in Int /\ ~Is(Z, 0)
          /\ Is(b.x, x2 * (Z * Z)) /\ Is(b.y, y2 * (Z * Z * Z))
  <2>1. /\ Gej(b.x, b.y, Z).x = b.x /\ Gej(b.x, b.y, Z).y = b.y
        /\ Gej(b.x, b.y, Z).z = Z /\ ~Gej(b.x, b.y, Z).infinity
    BY DEF Gej
  <2>2. QED
    BY <2>1, StandsFor, Zenon
<1>4. a.x \in Field /\ a.y \in Field /\ a.z \in Field /\ a.z \in Int /\ Is(a.z, a.z)
  BY Prime, IsItself DEF Gejs
<1>5. Is(w, a.z * Z) /\ a.z * Z \in Int /\ Is(a.z * Z, w)
  BY <1>2, <1>3, <1>4, IsItself, IsProduct, IsSym, Zenon DEF Is
<1>6. /\ x1 \in Int /\ y1 \in Int /\ x2 \in Int /\ y2 \in Int /\ w \in Int
      /\ ~Is(w, 0) /\ w # 0 /\ Is(x2, x2) /\ Is(y2, y2)
      /\ Is(a.x, x1 * (w * w)) /\ Is(a.y, y1 * (w * w * w))
  BY <1>2, Prime, IsItself
<1>7. Is(u2, x2 * (w * w)) /\ Is(s2, y2 * (w * w * w))
  <2>1. /\ Is(u2, (x2 * (Z * Z)) * (a.z * a.z))
        /\ Is(s2, (y2 * (Z * Z * Z)) * (a.z * a.z * a.z))
    BY <1>3, <1>4, IsTimesSqr, IsTimesCube, Zenon
  <2>2. /\ Is(x2 * ((a.z * Z) * (a.z * Z)), x2 * (w * w))
        /\ Is(y2 * ((a.z * Z) * (a.z * Z) * (a.z * Z)), y2 * (w * w * w))
    BY <1>5, <1>6, IsMul, Zenon
  <2>3. PICK v \in Int : v = a.z
    BY <1>4
  <2>4. /\ (x2 * (Z * Z)) * (v * v) = x2 * ((v * Z) * (v * Z))
        /\ (y2 * (Z * Z * Z)) * (v * v * v) = y2 * ((v * Z) * (v * Z) * (v * Z))
    BY <1>3, <1>6, SMT
  <2>5. QED
    BY <2>1, <2>2, <2>3, <2>4, IsTrans, Zenon
<1> HIDE DEF u2, s2
<1>8. Is(t, (x1 + x2) * (w * w)) /\ t \in Field
  <2>1. Is(t, x1 * (w * w) + x2 * (w * w)) /\ t \in Field
    BY <1>6, <1>7, IsSum, Zenon
  <2>2. x1 * (w * w) + x2 * (w * w) = (x1 + x2) * (w * w)
    BY <1>6, SMT
  <2>3. QED
    BY <2>1, <2>2, Zenon
<1>9. Is(m, (y1 + y2) * (w * w * w)) /\ m \in Field
  <2>1. Is(m, y1 * (w * w * w) + y2 * (w * w * w)) /\ m \in Field
    BY <1>6, <1>7, IsSum, Zenon
  <2>2. y1 * (w * w * w) + y2 * (w * w * w) = (y1 + y2) * (w * w * w)
    BY <1>6, SMT
  <2>3. QED
    BY <2>1, <2>2, Zenon
<1> HIDE DEF t, m
<1> DEFINE c == (x1 + x2) * (x1 + x2) - x1 * x2
<1>10. Is(rr, c * (w * w * w * w)) /\ rr \in Field
  <2>1. Is(Sqr(t), ((x1 + x2) * (w * w)) * ((x1 + x2) * (w * w)))
    BY <1>8, IsSqr, Zenon
  <2>2. Is(a.x * u2, (x1 * (w * w)) * (x2 * (w * w)))
    BY <1>6, <1>7, IsMul, Zenon
  <2>3. /\ Is(rr, ((x1 + x2) * (w * w)) * ((x1 + x2) * (w * w))
                  - (x1 * (w * w)) * (x2 * (w * w)))
        /\ rr \in Field
    BY <2>1, <2>2, IsDifference, Zenon
  <2>4. ((x1 + x2) * (w * w)) * ((x1 + x2) * (w * w)) - (x1 * (w * w)) * (x2 * (w * w))
          = c * (w * w * w * w)
    BY <1>6, SMT
  <2>5. QED
    BY <2>3, <2>4, Zenon
<1>11. c \in Int /\ y1 + y2 \in Int /\ w * w * w * w \in Int
  BY <1>6, SMT
<1> HIDE DEF rr, c
<1>12. /\ w * w \in Int /\ ~Is(w * w, 0)
       /\ w * w * w \in Int /\ ~Is(w * w * w, 0)
       /\ ~Is(w * w * w * w, 0)
  BY <1>6, NonZeroProduct, Zenon
<1>13. /\ m = 0 <=> Is(y1 + y2, 0)
       /\ rr = 0 <=> Is(c, 0)
  <2>1. \A f, g \in Int : Is(f, 0) /\ g \in Int => Is(f * g, 0)
    <3> SUFFICES ASSUME NEW f \in Int, NEW g \in Int, Is(f, 0) PROVE Is(f * g, 0)
      OBVIOUS
    <3>1. Is(f * g, 0 * g)
      BY IsItself, IsMul, Zenon
    <3>2. 0 * g = 0
      OBVIOUS
    <3>3. QED
      BY <3>1, <3>2, Zenon
  <2>2. m = 0 <=> Is((y1 + y2) * (w * w * w), 0)
    BY <1>9, IsZero, Zenon
  <2>3. rr = 0 <=> Is(c * (w * w * w * w), 0)
    BY <1>10, IsZero, Zenon
  <2>4. Is((y1 + y2) * (w * w * w), 0) <=> Is(y1 + y2, 0)
    BY <1>11, <1>12, <2>1, NoDivisors, Zenon
  <2>5. Is(c * (w * w * w * w), 0) <=> Is(c, 0)
    BY <1>11, <1>12, <2>1, NoDivisors, Zenon
  <2>6. QED
    BY <2>2, <2>3, <2>4, <2>5
<1>14. m = 0 <=> Is(y2, -y1)
  <2>1. -y1 \in Int /\ y2 - (-y1) = y1 + y2
    BY <1>6
  <2>2. Is(y1 + y2, 0) <=> Is(y2, -y1)
    BY <1>6, <2>1, DifferenceZero
  <2>3. QED
    BY <1>13, <2>2
<1>15. PICK u \in Field : u = F(a.x - u2) /\ Is(u, (x1 - x2) * (w * w))
  <2>1. Is(F(a.x - u2), x1 * (w * w) - x2 * (w * w)) /\ F(a.x - u2) \in Field
    BY <1>6, <1>7, IsDifference, Zenon
  <2>2. x1 * (w * w) - x2 * (w * w) = (x1 - x2) * (w * w)
    BY <1>6, SMT
  <2>3. QED
    BY <2>1, <2>2, Zenon
<1>16. u = 0 => x1 = x2
  <2> SUFFICES ASSUME u = 0 PROVE x1 = x2
    OBVIOUS
  <2>1. x1 - x2 \in Int /\ Is((x1 - x2) * (w * w), 0)
    BY <1>6, <1>15, IsZero
  <2>2. Is(x1 - x2, 0)
    BY <1>12, <2>1, NoDivisors, Zenon
  <2>3. Is(x1, x2)
    BY <1>6, <2>2, DifferenceZero, Zenon
  <2>4. QED
    BY <1>6, <2>3, IsUnique
\* A result that is not at infinity.
<1>17. ASSUME NEW l \in Field, NEW x3 \in Field, NEW y3 \in Field,
              PointAdd(p, q) = <<x3, y3>>, OnLine(l, x1, y1, x2, y2, x3, y3),
              mAlt \in Field, mAlt # 0, Is(rrAlt, l * (mAlt * w)),
              Is(n, (y1 + y2) * ((mAlt * w) * (mAlt * w) * (mAlt * w)))
       PROVE  Stands(On(Z, sum), PointAdd(p, q))
  <2> HIDE DEF mAlt, rrAlt, n
  <2>1. Stands(Gej(F(4 * x), F(4 * y), F(2 * F(w * mAlt))), <<x3, y3>>) /\ F(w * mAlt) # 0
    BY <1>6, <1>8, <1>17, UnifiedStands, Zenon
  <2> HIDE DEF x, y
  <2>2. On(Z, sum) = Gej(F(4 * x), F(4 * y), F(2 * F(w * mAlt)))
    <3>1. mAlt \in Int /\ Is(mAlt, mAlt)
      BY <1>17, Prime, IsItself
    <3>2. PICK v \in Int : v = a.z
      BY <1>4
    <3>3. Is(z, v * mAlt) /\ z \in Field /\ z \in Int
      BY <1>4, <3>1, <3>2, IsProduct, Prime, Zenon
    <3>4. Is(F(w * mAlt), (v * Z) * mAlt) /\ F(w * mAlt) \in Field
      BY <1>5, <3>1, <3>2, IsProduct, Zenon
    <3> HIDE DEF z
    <3>5. Is(F(2 * z), 2 * (v * mAlt))
      BY <3>3, IsMultiple, 2 \in Int, Zenon
    <3>6. Is(F(F(2 * z) * Z), (2 * (v * mAlt)) * Z) /\ F(F(2 * z) * Z) \in Field
      BY <1>3, <3>5, IsItself, IsProduct, Zenon
    <3>7. Is(F(2 * F(w * mAlt)), 2 * ((v * Z) * mAlt)) /\ F(2 * F(w * mAlt)) \in Field
      BY <3>4, IsMultiple, 2 \in Int, Zenon
    <3>8. (2 * (v * mAlt)) * Z = 2 * ((v * Z) * mAlt)
      BY <1>3, <3>1, <3>2, SMT
    <3>9. F(F(2 * z) * Z) = F(2 * F(w * mAlt))
      BY <3>6, <3>7, <3>8, IsUnique
    <3>10. z # 0
      <4> SUFFICES ASSUME z = 0 PROVE FALSE
        OBVIOUS
      <4>1. Is((v * mAlt) * Z, 0 * Z)
        BY <1>3, <3>3, IsItself, IsSym, IsMul, Zenon
      <4>2. 0 * Z = 0 /\ (v * mAlt) * Z = (v * Z) * mAlt
        BY <1>3, <3>1, <3>2, SMT
      <4>3. Is(F(w * mAlt), 0)
        BY <3>4, <4>1, <4>2, IsTrans, Zenon
      <4>4. QED
        BY <2>1, <3>4, <4>3, IsZero, IsItself
    <3>11. QED
      BY <1>1, <3>9, <3>10 DEF On, Gej
  <2>3. QED
    BY <1>17, <2>1, <2>2, Zenon
\* A result at infinity.
<1>18. ASSUME mAlt = 0, rrAlt \in Field, n \in Field, PointAdd(p, q) = Infinity
       PROVE  Stands(On(Z, sum), PointAdd(p, q))
  <2>0. mAlt \in Int
    BY <1>18
  <2> HIDE DEF mAlt, rrAlt, n
  <2>1. z = 0
    <3>1. a.z * mAlt = 0
      BY <1>4, <1>18, SMT
    <3>2. 0 % P = 0
      BY Prime, SMT
    <3>3. QED
      BY <3>1, <3>2 DEF F
  <2>2. Sqr(mAlt) \in Int /\ qq \in Int
    <3>1. mAlt * mAlt \in Int
      BY <2>0, SMT
    <3>2. Sqr(mAlt) \in Int
      BY <3>1, InField DEF Sqr
    <3>3. Sqr(mAlt) * t \in Int
      BY <1>8, <3>2, Prime, SMT
    <3>4. QED
      BY <3>2, <3>3, InField
  <2> HIDE DEF qq
  <2>3. x \in Int
    <3>1. rrAlt \in Int
      BY <1>18, Prime
    <3>2. rrAlt * rrAlt \in Int
      BY <3>1, SMT
    <3>3. Sqr(rrAlt) \in Int
      BY <3>2, InField DEF Sqr
    <3>4. Sqr(rrAlt) - qq \in Int
      BY <2>2, <3>3
    <3>5. QED
      BY <3>4, InField
  <2> HIDE DEF x
  <2>4. y \in Int
    <3>1. rrAlt \in Int /\ n \in Int
      BY <1>18, Prime
    <3>2. (2 * x - qq) * rrAlt \in Int
      BY <2>2, <2>3, <3>1, SMT
    <3>3. F((2 * x - qq) * rrAlt) \in Int
      BY <3>2, InField, Zenon
    <3>4. -(F((2 * x - qq) * rrAlt) + n) \in Int
      BY <3>1, <3>3
    <3>5. QED
      BY <3>4, InField, Zenon
  <2> HIDE DEF y, z
  <2>5. F(4 * x) \in Field /\ F(4 * y) \in Field /\ F(2 * z) \in Field
    <3>1. 4 * x \in Int /\ 4 * y \in Int /\ 2 * z \in Int
      BY <2>1, <2>3, <2>4
    <3>2. QED
      BY <3>1, InField, Zenon
  <2>6. On(Z, sum) \in Gejs /\ On(Z, sum).infinity = TRUE
    <3>1. sum.infinity = TRUE /\ sum.x \in Field /\ sum.y \in Field /\ sum.z \in Field
      BY <1>1, <2>1, <2>5
    <3>2. sum.z * Z \in Int
      BY <1>3, <3>1, Prime, SMT
    <3>3. F(sum.z * Z) \in Field
      BY <3>2, InField
    <3>4. QED
      BY <3>1, <3>3 DEF Gejs, On
  <2>7. QED
    BY <1>18, <2>6, InfinityIsZero DEF Stands
<1>19. CASE m # 0
  <2>1. ~degenerate
    BY <1>19
  <2>2. rrAlt = rr /\ mAlt = m /\ n = Sqr(Sqr(m))
    BY <2>1
  <2> HIDE DEF degenerate, rrAlt, mAlt, n
  <2>3. q # PointNeg(p)
    BY <1>2, <1>3, <1>14, <1>19, OppositeX
  <2>4. PICK l \in Field, x3 \in Field, y3 \in Field :
            PointAdd(p, q) = <<x3, y3>> /\ OnLine(l, x1, y1, x2, y2, x3, y3)
    BY <1>2, <1>3, <2>3, Slope, Zenon
  <2>5. x1 = x2 => y1 = y2
    <3>1. p # Infinity /\ p[1] = x1 /\ p[2] = y1 /\ q[1] = x2 /\ q[2] = y2
      BY <1>2, <1>3 DEF Infinity
    <3>2. x1 = x2 => q = p \/ q = PointNeg(p)
      <4>1. p \in Points /\ q \in Points
        BY <1>2, <1>3
      <4>2. q # Infinity
        BY <1>3 DEF Infinity
      <4>3. p[1] = q[1] => q = p \/ q = PointNeg(p)
        BY <3>1, <4>1, <4>2, SameX
      <4>4. QED
        BY <3>1, <4>3
    <3>3. QED
      BY <2>3, <3>1, <3>2
  <2>6. Is(c, l * (y1 + y2))
    BY <1>2, <1>3, <2>4, <2>5, UnifiedSlope, Zenon DEF c
  <2>7. l \in Int /\ m \in Int /\ Is(l * w, l * w) /\ Is(m, (y1 + y2) * (w * w * w))
    <3>1. l \in Int /\ m \in Int
      BY <1>9, Prime
    <3>2. l * w \in Int
      BY <1>6, <3>1, SMT
    <3>3. QED
      BY <1>9, <3>1, <3>2, IsItself
  <2>8. Is(rr, l * (m * w))
    <3>1. Is(c * (w * w * w * w), (l * (y1 + y2)) * (w * w * w * w))
      BY <1>11, <2>6, IsItself, IsMul, Zenon
    <3>2. (l * (y1 + y2)) * (w * w * w * w) = (l * w) * ((y1 + y2) * (w * w * w))
      BY <1>6, <2>7, SMT
    <3>3. Is((l * w) * ((y1 + y2) * (w * w * w)), (l * w) * m)
      BY <2>7, IsSym, IsMul, Zenon
    <3>4. (l * w) * m = l * (m * w)
      BY <1>6, <2>7, SMT
    <3>5. Is(c * (w * w * w * w), l * (m * w))
      BY <3>1, <3>2, <3>3, <3>4, IsTrans, Zenon
    <3>6. QED
      BY <1>10, <3>5, IsTrans, Zenon
  <2>9. Is(Sqr(Sqr(m)), (y1 + y2) * ((m * w) * (m * w) * (m * w)))
    <3>1. m * m * m \in Int
      BY <2>7, SMT
    <3>2. Is(Sqr(Sqr(m)), (m * m) * (m * m))
      BY <2>7, IsItself, IsSqr, Zenon
    <3>3. Is((m * m * m) * m, (m * m * m) * ((y1 + y2) * (w * w * w)))
      BY <2>7, <3>1, IsItself, IsMul, Zenon
    <3>4. /\ (m * m) * (m * m) = (m * m * m) * m
          /\ (m * m * m) * ((y1 + y2) * (w * w * w))
               = (y1 + y2) * ((m * w) * (m * w) * (m * w))
      BY <1>6, <2>7, SMT
    <3>5. QED
      BY <3>2, <3>3, <3>4, IsTrans, Zenon
  <2>10. QED
    BY <1>9, <1>17, <1>19, <2>2, <2>4, <2>8, <2>9, Zenon
<1>20. CASE m = 0 /\ rr # 0
  <2>1. rrAlt = rr /\ mAlt = 0 /\ n = Sqr(Sqr(mAlt))
    BY <1>20
  <2>2. x1 = x2
    <3> SUFFICES ASSUME x1 # x2 PROVE FALSE
      OBVIOUS
    <3>0. x2 - x1 \in Int /\ y2 - y1 \in Int /\ y2 + y1 = y1 + y2
      BY <1>6
    <3>1. ~Is(x2 - x1, 0)
      BY <1>6, DifferenceZero, IsItself, IsUnique
    <3>2. Is((x2 - x1) * c, (y2 - y1) * (y2 + y1))
      BY <1>2, <1>3, <1>6, CubesDiffer, Zenon DEF c
    <3>3. Is(y2 + y1, 0)
      BY <1>13, <1>20, <3>0
    <3>4. Is((y2 - y1) * (y2 + y1), (y2 - y1) * 0)
      BY <3>0, <3>3, IsItself, IsMul, Zenon
    <3>8. (y2 - y1) * 0 = 0
      BY <3>0, SMT
    <3>5. Is((x2 - x1) * c, 0)
      BY <3>2, <3>4, <3>8, IsTrans, Zenon
    <3>6. Is(c, 0)
      BY <1>11, <3>0, <3>1, <3>5, NoDivisors, Zenon
    <3>7. QED
      BY <1>13, <1>20, <3>6
  <2>3. q = PointNeg(p)
    BY <1>2, <1>3, <1>14, <1>20, <2>2, Opposite
  <2>4. PointAdd(p, q) = Infinity
    BY <1>2, <1>3, <2>3, OppositeSum
  <2>5. Sqr(Sqr(mAlt)) \in Field
    <3>1. mAlt * mAlt \in Int
      BY <2>1
    <3> HIDE DEF mAlt
    <3>2. Sqr(mAlt) \in Int
      BY <3>1, InField DEF Sqr
    <3>3. Sqr(mAlt) * Sqr(mAlt) \in Int
      BY <3>2, SMT
    <3>4. QED
      BY <3>3, InField DEF Sqr
  <2>6. QED
    BY <1>10, <1>18, <2>1, <2>4, <2>5, Zenon
<1>21. CASE m = 0 /\ rr = 0
  <2>1. rrAlt = F(2 * a.y) /\ mAlt = u /\ n = m
    BY <1>15, <1>21
  <2>2. Is(F(2 * a.y), 2 * (y1 * (w * w * w))) /\ F(2 * a.y) \in Field
    BY <1>6, IsMultiple
  <2>3. Is(y1 + y2, 0) /\ Is(y2, -y1)
    BY <1>13, <1>14, <1>21
  <2> HIDE DEF degenerate, rrAlt, mAlt, n
  <2>4. CASE u = 0
    <3>1. q = PointNeg(p)
      BY <1>2, <1>3, <1>16, <2>3, <2>4, Opposite
    <3>2. PointAdd(p, q) = Infinity
      BY <1>2, <1>3, <3>1, OppositeSum
    <3>3. QED
      BY <1>9, <1>18, <2>1, <2>2, <2>4, <3>2, Zenon
  <2>5. CASE u # 0
    <3>1. x1 # x2
      <4> SUFFICES ASSUME x1 = x2 PROVE FALSE
        OBVIOUS
      <4>1. (x1 - x2) * (w * w) = 0
        BY <1>6, <1>12, SMT
      <4>2. Is(u, 0)
        BY <1>15, <4>1, Zenon
      <4>3. QED
        BY <2>5, <4>2, IsZero, IsItself
    <3>2. q # PointNeg(p)
      BY <1>2, <1>3, <3>1, OppositeX
    <3>3. PICK l \in Field, x3 \in Field, y3 \in Field :
              PointAdd(p, q) = <<x3, y3>> /\ OnLine(l, x1, y1, x2, y2, x3, y3)
      BY <1>2, <1>3, <3>2, Slope, Zenon
    <3>4. l \in Int /\ u \in Int /\ Is(l * (x2 - x1), y2 - y1)
      BY <3>3, Prime DEF OnLine
    <3>5. Is(rrAlt, l * (u * w))
      <4>9. Is(y1 - y2, y1 - (-y1))
        BY <1>6, <2>3, IsItself, IsSub, Zenon
      <4>10. y1 - (-y1) = 2 * y1 /\ y1 - y2 = -(y2 - y1)
        BY <1>6, SMT
      <4>1. Is(-(y2 - y1), 2 * y1)
        BY <4>9, <4>10, Zenon
      <4>2. Is(-(y2 - y1), -(l * (x2 - x1)))
        BY <3>4, IsSym, IsNeg, Zenon
      <4>3. Is(2 * y1, -(l * (x2 - x1)))
        BY <4>1, <4>2, IsSym, IsTrans, Zenon
      <4>4. Is((2 * y1) * (w * w * w), (-(l * (x2 - x1))) * (w * w * w))
        BY <1>12, <4>3, IsItself, IsMul, Zenon
      <4>5. /\ 2 * (y1 * (w * w * w)) = (2 * y1) * (w * w * w)
            /\ (-(l * (x2 - x1))) * (w * w * w) = (l * w) * ((x1 - x2) * (w * w))
            /\ (l * w) * u = l * (u * w) /\ l * w \in Int
        BY <1>6, <3>4, SMT
      <4>6. Is((l * w) * ((x1 - x2) * (w * w)), (l * w) * u)
        BY <1>15, <4>5, IsItself, IsSym, IsMul, Zenon
      <4>7. Is(2 * (y1 * (w * w * w)), l * (u * w))
        BY <4>4, <4>5, <4>6, IsTrans, Zenon
      <4>8. QED
        BY <2>1, <2>2, <4>7, IsTrans, Zenon
    <3>6. Is(n, (y1 + y2) * ((u * w) * (u * w) * (u * w)))
      <4>1. (u * w) * (u * w) * (u * w) \in Int
        BY <1>6, <3>4, SMT
      <4>2. Is((y1 + y2) * ((u * w) * (u * w) * (u * w)), 0 * ((u * w) * (u * w) * (u * w)))
        BY <2>3, <4>1, IsItself, IsMul, Zenon
      <4>3. 0 * ((u * w) * (u * w) * (u * w)) = 0
        BY <4>1
      <4>4. Is((y1 + y2) * ((u * w) * (u * w) * (u * w)), 0)
        BY <4>2, <4>3, Zenon
      <4>5. QED
        BY <1>21, <2>1, <4>4, IsSym, Zenon
    <3>7. QED
      BY <1>17, <2>1, <2>5, <3>3, <3>5, <3>6, Zenon
  <2>6. QED
    BY <2>4, <2>5
<1>22. QED
  BY <1>19, <1>20, <1>21

---------------------------------------------------------------------------
(* The operations of the library.                                          *)

LEMMA InfinityNeutral ==
    ASSUME NEW p \in Points
    PROVE  PointAdd(Infinity, p) = p /\ PointAdd(p, Infinity) = p
<1>1. PointAdd(Infinity, p) = p
  BY Zenon DEF PointAdd
<1>2. PointAdd(p, Infinity) = p
  <2>1. CASE p = Infinity
    BY <1>1, <2>1
  <2>2. CASE p # Infinity
    <3>1. PointNeg(p) # Infinity
      BY <2>2, NegParity
    <3>2. QED
      BY <2>2, <3>1, Zenon DEF PointAdd
  <2>3. QED
    BY <2>1, <2>2
<1>3. QED
  BY <1>1, <1>2

LEMMA InfinityStands == Stands(GejSetInfinity, Infinity)
BY InfinityIsZero, Prime DEF Stands, Gejs, GejSetInfinity

LEMMA GeStands == ASSUME NEW p \in Points PROVE Stands(GejSetGe(ToGe(p)), p)
<1>1. CASE p = Infinity
  <2>1. GejSetGe(ToGe(p)) = [x |-> 0, y |-> 0, z |-> 1, infinity |-> TRUE]
    BY <1>1 DEF GejSetGe, ToGe
  <2>2. QED
    BY <1>1, <2>1, Prime DEF Stands, Gejs
<1>2. CASE p # Infinity
  <2>1. PICK x \in Field, y \in Field : p = <<x, y>>
    BY <1>2, PointCoordinates, Zenon
  <2>2. GejSetGe(ToGe(p)) = Gej(x, y, 1)
    BY <1>2, <2>1 DEF GejSetGe, ToGe, Ge, Gej
  <2>3. x \in Int /\ y \in Int /\ x * (1 * 1) = x /\ y * (1 * 1 * 1) = y
    BY Prime, SMT
  <2>4. 1 \in Field /\ Is(1, 1) /\ Is(x, x * (1 * 1)) /\ Is(y, y * (1 * 1 * 1))
    BY <2>3, Prime, IsItself
  <2>5. Stands(Gej(x, y, 1), <<x, y>>)
    BY <2>1, <2>4, SmallNonZero, StandsFinite, Zenon
  <2>6. QED
    BY <2>1, <2>2, <2>5, Zenon
<1>3. QED
  BY <1>1, <1>2

LEMMA OnItself == ASSUME NEW a \in Gejs PROVE On(1, a) = a
<1>1. a.z \in Field /\ a.z \in Int /\ a.z * 1 = a.z
  BY Prime DEF Gejs
<1>2. F(a.z * 1) = a.z
  BY <1>1, Prime, SMT DEF F
<1>3. QED
  BY <1>2 DEF On, Gejs

LEMMA AddGeStands ==
    ASSUME NEW a, NEW p, Stands(a, p), ~a.infinity, NEW q \in Points, q # Infinity
    PROVE  Stands(GejAddGe(a, ToGe(q)), PointAdd(p, q))
<1>1. a \in Gejs /\ On(1, a) = a /\ 1 \in Field
  BY OnItself, Prime DEF Stands
<1>2. Stands(Gej(ToGe(q).x, ToGe(q).y, 1), q)
  <2>1. Gej(ToGe(q).x, ToGe(q).y, 1) = GejSetGe(ToGe(q))
    BY DEF Gej, ToGe, Ge, GejSetGe
  <2>2. QED
    BY <2>1, GeStands
<1>3. Stands(On(1, GejAddGe(a, ToGe(q))), PointAdd(p, q))
  BY <1>1, <1>2, AddGeOn, Zenon
<1>4. On(1, GejAddGe(a, ToGe(q))) = GejAddGe(a, ToGe(q))
  <2> DEFINE sum == GejAddGe(a, ToGe(q))
             u2 == F(ToGe(q).x * Sqr(a.z))
             s2 == F(F(ToGe(q).y * Sqr(a.z)) * a.z)
             m == F(a.y + s2)
             rr == F(Sqr(F(a.x + u2)) - a.x * u2)
             mAlt == IF m = 0 /\ rr = 0 THEN F(a.x - u2) ELSE m
  <2>1. sum = [x |-> sum.x, y |-> sum.y, z |-> F(2 * F(a.z * mAlt)),
               infinity |-> sum.infinity]
    BY DEF GejAddGe
  <2>2. a.x \in Int /\ a.y \in Int /\ a.z \in Int /\ ToGe(q).x \in Int /\ ToGe(q).y \in Int
    <3>1. PICK x2 \in Field, y2 \in Field : q = <<x2, y2>>
      BY PointCoordinates, Zenon
    <3>2. ToGe(q).x = x2 /\ ToGe(q).y = y2
      BY <3>1 DEF ToGe, Ge
    <3>3. QED
      BY <1>1, <3>2, Prime DEF Gejs
  <2>3. u2 \in Int /\ s2 \in Int
    BY <2>2, IsItself, IsTimesSqr, IsTimesCube, Prime
  <2> HIDE DEF u2, s2, rr
  <2>4. mAlt \in Int
    BY <2>2, <2>3, InField
  <2> HIDE DEF mAlt, sum
  <2>5. F(2 * F(a.z * mAlt)) \in Field
    <3>1. a.z * mAlt \in Int
      BY <2>2, <2>4, SMT
    <3>2. 2 * F(a.z * mAlt) \in Int
      BY <3>1, InField
    <3>3. QED
      BY <3>2, InField
  <2>6. sum.z \in Field /\ sum.z \in Int /\ sum.z * 1 = sum.z
    BY <2>1, <2>5, Prime
  <2>7. F(sum.z * 1) = sum.z
    BY <2>6, Prime, SMT DEF F
  <2>8. On(1, sum) = sum
    BY <2>1, <2>7 DEF On
  <2>9. QED
    BY <2>8 DEF sum
<1>5. QED
  BY <1>3, <1>4

LEMMA RescaleStands ==
    ASSUME NEW a, NEW p, Stands(a, p), NEW s \in Field, s # 0
    PROVE  Stands(GejRescale(a, s), p)
<1> DEFINE x == F(a.x * Sqr(s))
           y == F(F(a.y * Sqr(s)) * s)
           z == F(a.z * s)
<1>1. a.x \in Field /\ a.y \in Field /\ a.z \in Field /\ a.infinity \in BOOLEAN
  BY DEF Stands, Gejs
<1>2. /\ s \in Int /\ ~Is(s, 0) /\ Is(s, s)
      /\ Is(a.x, a.x) /\ Is(a.y, a.y) /\ Is(a.z, a.z)
  BY <1>1, Prime, FieldNonZero, IsItself
<1>3. x \in Field /\ y \in Field /\ z \in Field
  BY <1>2, IsTimesSqr, IsTimesCube, IsProduct, Zenon
<1>4. GejRescale(a, s) = [x |-> x, y |-> y, z |-> z, infinity |-> a.infinity]
  BY DEF GejRescale
<1>5. CASE a.infinity
  <2> HIDE DEF x, y, z
  <2>1. GejRescale(a, s) \in Gejs /\ GejRescale(a, s).infinity
    BY <1>1, <1>3, <1>4, <1>5 DEF Gejs
  <2>2. QED
    BY <1>5, <2>1 DEF Stands
<1>6. CASE ~a.infinity
  <2>1. PICK x1 \in Field, y1 \in Field :
            /\ p = <<x1, y1>> /\ p \in Points
            /\ a.z \in Int /\ ~Is(a.z, 0)
            /\ Is(a.x, x1 * (a.z * a.z)) /\ Is(a.y, y1 * (a.z * a.z * a.z))
    BY <1>6, StandsFor, Zenon
  <2>2. PICK w \in Int : w = a.z
    BY <2>1
  <2>3. x1 \in Int /\ y1 \in Int /\ w * s \in Int /\ ~Is(w * s, 0)
    BY <1>2, <2>1, <2>2, Prime, NonZeroProduct
  <2>4. Is(z, w * s)
    BY <1>2, <2>2, IsProduct, Zenon
  <2>5. Is(x, x1 * ((w * s) * (w * s)))
    <3>1. Is(x, (x1 * (w * w)) * (s * s))
      BY <1>2, <2>1, <2>2, IsTimesSqr, Zenon
    <3>2. (x1 * (w * w)) * (s * s) = x1 * ((w * s) * (w * s))
      BY <1>2, <2>3, SMT
    <3>3. QED
      BY <3>1, <3>2, Zenon
  <2>6. Is(y, y1 * ((w * s) * (w * s) * (w * s)))
    <3>1. Is(y, (y1 * (w * w * w)) * (s * s * s))
      BY <1>2, <2>1, <2>2, IsTimesCube, Zenon
    <3>2. (y1 * (w * w * w)) * (s * s * s) = y1 * ((w * s) * (w * s) * (w * s))
      BY <1>2, <2>3, SMT
    <3>3. QED
      BY <3>1, <3>2, Zenon
  <2> HIDE DEF x, y, z
  <2>7. Stands(Gej(x, y, z), <<x1, y1>>)
    BY <1>3, <2>1, <2>3, <2>4, <2>5, <2>6, StandsFinite, Zenon
  <2>8. GejRescale(a, s) = Gej(x, y, z)
    BY <1>1, <1>4, <1>6 DEF Gej
  <2>9. QED
    BY <2>1, <2>7, <2>8, Zenon
<1>7. QED
  BY <1>5, <1>6

\* A second operand, and its z coordinate.
LEMMA OperandStands ==
    ASSUME NEW p \in Points, NEW s \in Field, s # 0
    PROVE  /\ Stands(ToGej(p, s), p)
           /\ ToGej(p, s).infinity <=> p = Infinity
           /\ p # Infinity => ToGej(p, s).z = s
<1>1. Stands(ToGej(p, s), p)
  BY GeStands, RescaleStands, InfinityStands DEF ToGej
<1>2. CASE p = Infinity
  BY <1>1, <1>2 DEF ToGej, GejSetInfinity
<1>3. CASE p # Infinity
  <2>1. ToGej(p, s) = GejRescale(GejSetGe(ToGe(p)), s)
    BY <1>3 DEF ToGej
  <2>2. ToGe(p) = Ge(p[1], p[2])
    BY <1>3 DEF ToGe
  <2>3. ToGej(p, s).infinity = FALSE /\ ToGej(p, s).z = F(1 * s)
    BY <2>1, <2>2 DEF GejRescale, GejSetGe, Ge
  <2>4. s \in Int /\ 1 * s = s /\ Is(F(s), s) /\ F(s) \in Field /\ Is(s, s)
    BY Prime, IsItself, IsF
  <2>5. F(s) = s
    BY <2>4, IsUnique
  <2>6. QED
    BY <1>1, <1>3, <2>3, <2>4, <2>5
<1>4. QED
  BY <1>2, <1>3

LEMMA NegStands ==
    ASSUME NEW a, NEW p, Stands(a, p)
    PROVE  Stands(GejNeg(a), PointNeg(p))
<1>1. a \in Gejs /\ a.x \in Field /\ a.y \in Field /\ a.z \in Field /\ p \in Points
  BY DEF Stands, Gejs
<1>2. PointNeg(p) \in Points
  BY <1>1, NegPoint
<1>3. a.y \in Int /\ -a.y \in Int /\ F(-a.y) \in Field
  BY <1>1, Prime, InField
<1>4. CASE a.infinity
  <2>1. GejNeg(a) \in Gejs /\ GejNeg(a).infinity
    BY <1>1, <1>3, <1>4 DEF GejNeg, Gejs
  <2>2. p = Infinity /\ PointNeg(p) = Infinity
    BY <1>4 DEF Stands, PointNeg
  <2>3. QED
    BY <1>2, <2>1, <2>2 DEF Stands
<1>5. CASE ~a.infinity
  <2>1. PICK x \in Field, y \in Field :
            /\ p = <<x, y>>
            /\ a.z \in Int /\ ~Is(a.z, 0)
            /\ Is(a.x, x * (a.z * a.z)) /\ Is(a.y, y * (a.z * a.z * a.z))
    BY <1>5, StandsFor, Zenon
  <2>2. PICK w \in Int : w = a.z
    BY <2>1
  <2>3. PointNeg(p) = <<x, F(-y)>>
    BY <2>1 DEF PointNeg, Infinity, F
  <2>4. y \in Int /\ -y \in Int /\ w * w * w \in Int
    BY <2>2, Prime, SMT
  <2>5. Is(F(-y), -y) /\ F(-y) \in Field
    BY <2>4, IsItself, IsF, Zenon
  <2>6. Is(F(-a.y), -(y * (w * w * w)))
    BY <2>1, <2>2, IsNeg, IsF, Zenon
  <2>7. -(y * (w * w * w)) = (-y) * (w * w * w)
    BY <2>4, SMT
  <2>8. Is((-y) * (w * w * w), F(-y) * (w * w * w))
    BY <2>4, <2>5, IsItself, IsSym, IsMul, Zenon
  <2>9. Is(F(-a.y), F(-y) * (w * w * w))
    BY <2>6, <2>7, <2>8, IsTrans, Zenon
  <2>10. Is(a.z, w) /\ ~Is(w, 0) /\ Is(a.x, x * (w * w))
    BY <2>1, <2>2, IsItself
  <2>11. <<x, F(-y)>> \in Points
    BY <1>2, <2>3
  <2>12. Stands(Gej(a.x, F(-a.y), a.z), <<x, F(-y)>>)
    BY <1>1, <1>3, <2>5, <2>9, <2>10, <2>11, StandsFinite, Zenon
  <2>13. GejNeg(a) = Gej(a.x, F(-a.y), a.z)
    BY <1>1, <1>5 DEF GejNeg, Gej, Gejs
  <2>14. QED
    BY <2>3, <2>12, <2>13, Zenon
<1>6. QED
  BY <1>4, <1>5

\* Dividing by z gives the affine point.
LEMMA AffineOf ==
    ASSUME NEW a, NEW p, Stands(a, p)
    PROVE  LET g == GeSetGejZinv(a, FieldInverse[a.z]) IN
           /\ g.x \in Field /\ g.y \in Field /\ g.infinity = a.infinity
           /\ ~a.infinity => g = ToGe(p)
<1> DEFINE i == FieldInverse[a.z]
           x == F(a.x * Sqr(i))
           y == F(a.y * F(Sqr(i) * i))
<1>1. /\ a.x \in Field /\ a.y \in Field /\ a.z \in Field
      /\ a.x \in Int /\ a.y \in Int /\ a.z \in Int
  BY Prime DEF Stands, Gejs
<1>2. i \in Field
  <2>1. CASE a.z = 0
    BY <1>1, <2>1, Prime DEF FieldInverse
  <2>2. CASE a.z # 0
    BY <1>1, <2>2, FieldInverses
  <2>3. QED
    BY <2>1, <2>2
<1> HIDE DEF i
<1>3. i \in Int /\ Is(i, i) /\ Is(a.x, a.x) /\ Is(a.y, a.y)
  BY <1>1, <1>2, Prime, IsItself
<1>4. x \in Field /\ y \in Field
  BY <1>3, IsTimesSqr, IsTimesCube, Zenon
<1>5. GeSetGejZinv(a, i) = [x |-> x, y |-> y, infinity |-> a.infinity]
  BY DEF GeSetGejZinv
<1>6. ASSUME ~a.infinity PROVE GeSetGejZinv(a, i) = ToGe(p)
  <2>1. PICK x1 \in Field, y1 \in Field :
            /\ p = <<x1, y1>> /\ ~Is(a.z, 0)
            /\ Is(a.x, x1 * (a.z * a.z)) /\ Is(a.y, y1 * (a.z * a.z * a.z))
    BY <1>6, StandsFor, Zenon
  <2>2. PICK w \in Int : w = a.z
    BY <1>1
  <2>3. x1 \in Int /\ y1 \in Int /\ Is(x1, x1) /\ Is(y1, y1)
    BY Prime, IsItself
  <2>4. Is(w * i, 1)
    <3>1. a.z # 0
      BY <1>1, <2>1, IsItself, IsZero
    <3>2. Cong(P, w * i, 1)
      BY <1>1, <2>2, <3>1, FieldInverses DEF i
    <3>3. w * i \in Int
      BY <1>3, SMT
    <3>4. QED
      BY <3>2, <3>3 DEF Is
  <2>5. Is((w * i) * (w * i), 1 * 1) /\ Is((w * i) * (w * i) * (w * i), 1 * 1 * 1)
    BY <2>4, IsMul, Zenon
  <2>6. Is(x, x1)
    <3>1. Is(x, (x1 * (w * w)) * (i * i))
      BY <1>3, <2>1, <2>2, IsTimesSqr, Zenon
    <3>2. (x1 * (w * w)) * (i * i) = x1 * ((w * i) * (w * i)) /\ x1 * (1 * 1) = x1
      BY <1>3, <2>3, SMT
    <3>3. Is(x1 * ((w * i) * (w * i)), x1 * (1 * 1))
      BY <2>3, <2>5, IsMul, Zenon
    <3>4. QED
      BY <3>1, <3>2, <3>3, IsTrans, Zenon
  <2>7. Is(y, y1)
    <3>1. Is(y, (y1 * (w * w * w)) * (i * i * i))
      BY <1>3, <2>1, <2>2, IsTimesCube, Zenon
    <3>2. /\ (y1 * (w * w * w)) * (i * i * i) = y1 * ((w * i) * (w * i) * (w * i))
          /\ y1 * (1 * 1 * 1) = y1
      BY <1>3, <2>3, SMT
    <3>3. Is(y1 * ((w * i) * (w * i) * (w * i)), y1 * (1 * 1 * 1))
      BY <2>3, <2>5, IsMul, Zenon
    <3>4. QED
      BY <3>1, <3>2, <3>3, IsTrans, Zenon
  <2>8. x = x1 /\ y = y1
    BY <1>4, <2>3, <2>6, <2>7, IsUnique, Zenon
  <2> HIDE DEF x, y
  <2>9. a.infinity = FALSE
    BY <1>6 DEF Stands, Gejs
  <2>10. ToGe(p) = Ge(x1, y1)
    BY <2>1 DEF ToGe, Infinity
  <2>11. QED
    BY <1>5, <2>8, <2>9, <2>10 DEF Ge
<1> HIDE DEF x, y
<1>7. QED
  BY <1>4, <1>5, <1>6 DEF i

LEMMA NormalizeStands ==
    ASSUME NEW a, NEW p, Stands(a, p)
    PROVE  Stands(GejNormalize(a), p) /\ Stands(GejNormalizeVar(a), p)
<1> DEFINE g == GeSetGejZinv(a, FieldInverse[a.z])
<1>1. /\ g.x \in Field /\ g.y \in Field /\ g.infinity = a.infinity
      /\ ~a.infinity => g = ToGe(p)
  BY AffineOf, Zenon
<1>2. p \in Points /\ a.infinity \in BOOLEAN /\ GejNormalize(a) = GejSetGe(g)
  BY DEF Stands, Gejs, GejNormalize
<1> HIDE DEF g
<1>3. CASE a.infinity
  <2>1. GejSetGe(g) \in Gejs /\ GejSetGe(g).infinity
    BY <1>1, <1>2, <1>3, Prime DEF GejSetGe, Gejs
  <2>2. QED
    BY <1>2, <1>3, <2>1 DEF Stands, GejNormalizeVar
<1>4. CASE ~a.infinity
  BY <1>1, <1>2, <1>4, GeStands DEF GejNormalizeVar
<1>5. QED
  BY <1>3, <1>4

LEMMA AddVarStands ==
    ASSUME NEW a, NEW p, Stands(a, p), NEW b, NEW q, Stands(b, q)
    PROVE  Stands(GejAddVar(a, b), PointAdd(p, q))
<1>0. p \in Points /\ q \in Points /\ (a.infinity => p = Infinity) /\ (b.infinity => q = Infinity)
  BY DEF Stands
<1>1. CASE a.infinity
  BY <1>0, <1>1, InfinityNeutral DEF GejAddVar
<1>2. CASE ~a.infinity /\ b.infinity
  BY <1>0, <1>2, InfinityNeutral DEF GejAddVar
<1>3. CASE ~a.infinity /\ ~b.infinity
  <2>1. PICK x1 \in Field, y1 \in Field :
            /\ p = <<x1, y1>> /\ p \in Points /\ a.z \in Int /\ ~Is(a.z, 0)
            /\ Is(a.x, x1 * (a.z * a.z)) /\ Is(a.y, y1 * (a.z * a.z * a.z))
    BY <1>3, StandsFor, Zenon
  <2>2. PICK x2 \in Field, y2 \in Field :
            /\ q = <<x2, y2>> /\ q \in Points /\ b.z \in Int /\ ~Is(b.z, 0)
            /\ Is(b.x, x2 * (b.z * b.z)) /\ Is(b.y, y2 * (b.z * b.z * b.z))
    BY <1>3, StandsFor, Zenon
  <2>3. PICK v \in Int, w \in Int : v = a.z /\ w = b.z
    BY <2>1, <2>2
  <2>4. /\ x1 \in Int /\ y1 \in Int /\ x2 \in Int /\ y2 \in Int
        /\ Is(a.z, v) /\ Is(b.z, w) /\ v * w \in Int /\ ~Is(v * w, 0)
        /\ p[1] = x1 /\ p[2] = y1 /\ q[1] = x2 /\ q[2] = y2 /\ q # Infinity
    BY <2>1, <2>2, <2>3, Prime, IsItself, NonZeroProduct DEF Infinity
  <2>5. Is(F(a.z * b.z), v * w)
    BY <2>4, IsProduct, Zenon
  <2>6. Is(F(a.x * Sqr(b.z)), p[1] * ((v * w) * (v * w)))
    <3>1. Is(F(a.x * Sqr(b.z)), (x1 * (v * v)) * (w * w))
      BY <2>1, <2>3, <2>4, IsTimesSqr, Zenon
    <3>2. (x1 * (v * v)) * (w * w) = x1 * ((v * w) * (v * w))
      BY <2>4, SMT
    <3>3. QED
      BY <2>4, <3>1, <3>2, Zenon
  <2>7. Is(F(F(a.y * Sqr(b.z)) * b.z), p[2] * ((v * w) * (v * w) * (v * w)))
    <3>1. Is(F(F(a.y * Sqr(b.z)) * b.z), (y1 * (v * v * v)) * (w * w * w))
      BY <2>1, <2>3, <2>4, IsTimesCube, Zenon
    <3>2. (y1 * (v * v * v)) * (w * w * w) = y1 * ((v * w) * (v * w) * (v * w))
      BY <2>4, SMT
    <3>3. QED
      BY <2>4, <3>1, <3>2, Zenon
  <2>8. Is(F(b.x * Sqr(a.z)), q[1] * ((v * w) * (v * w)))
    <3>1. Is(F(b.x * Sqr(a.z)), (x2 * (w * w)) * (v * v))
      BY <2>2, <2>3, <2>4, IsTimesSqr, Zenon
    <3>2. (x2 * (w * w)) * (v * v) = x2 * ((v * w) * (v * w))
      BY <2>4, SMT
    <3>3. QED
      BY <2>4, <3>1, <3>2, Zenon
  <2>9. Is(F(F(b.y * Sqr(a.z)) * a.z), q[2] * ((v * w) * (v * w) * (v * w)))
    <3>1. Is(F(F(b.y * Sqr(a.z)) * a.z), (y2 * (w * w * w)) * (v * v * v))
      BY <2>2, <2>3, <2>4, IsTimesCube, Zenon
    <3>2. (y2 * (w * w * w)) * (v * v * v) = y2 * ((v * w) * (v * w) * (v * w))
      BY <2>4, SMT
    <3>3. QED
      BY <2>4, <3>1, <3>2, Zenon
  <2>10. Stands(AddFinite(a, a.z, b, b.z, F(a.z * b.z)), PointAdd(p, q))
    BY <1>3, <2>2, <2>4, <2>5, <2>6, <2>7, <2>8, <2>9, AddFiniteStands, Zenon
  <2>11. GejAddVar(a, b) = AddFinite(a, a.z, b, b.z, F(a.z * b.z))
    BY <1>3, Zenon DEF GejAddVar
  <2>12. QED
    BY <2>10, <2>11, Zenon
<1>4. QED
  BY <1>1, <1>2, <1>3

\* What gej_add_ge_var and gej_add_zinv_var have in common: they compute
\* over the z coordinate of a.
LEMMA AddAffineStands ==
    ASSUME NEW a, NEW p, Stands(a, p), ~a.infinity,
           NEW x2 \in Field, NEW y2 \in Field, <<x2, y2>> \in Points,
           NEW b, NEW az,
           Is(F(b.x * Sqr(az)), x2 * (a.z * a.z)),
           Is(F(F(b.y * Sqr(az)) * az), y2 * (a.z * a.z * a.z))
    PROVE  Stands(AddFinite(a, az, b, 1, a.z), PointAdd(p, <<x2, y2>>))
<1> DEFINE q == <<x2, y2>>
<1>1. PICK x1 \in Field, y1 \in Field :
          /\ p = <<x1, y1>> /\ p \in Points /\ a.z \in Int /\ ~Is(a.z, 0)
          /\ Is(a.x, x1 * (a.z * a.z)) /\ Is(a.y, y1 * (a.z * a.z * a.z))
  BY StandsFor, Zenon
<1>2. PICK w \in Int : w = a.z
  BY <1>1
<1>3. /\ x1 \in Int /\ y1 \in Int /\ Is(1, 1) /\ Is(a.z, w) /\ ~Is(w, 0)
      /\ p[1] = x1 /\ p[2] = y1 /\ q[1] = x2 /\ q[2] = y2 /\ q # Infinity
      /\ q \in Points
  BY <1>1, <1>2, Prime, IsItself DEF Infinity
<1> HIDE DEF q
<1>4. Is(F(a.x * Sqr(1)), p[1] * (w * w))
  <2>1. Is(F(a.x * Sqr(1)), (x1 * (w * w)) * (1 * 1))
    BY <1>1, <1>2, <1>3, IsTimesSqr, Zenon
  <2>2. (x1 * (w * w)) * (1 * 1) = x1 * (w * w)
    BY <1>3, SMT
  <2>3. QED
    BY <1>3, <2>1, <2>2, Zenon
<1>5. Is(F(F(a.y * Sqr(1)) * 1), p[2] * (w * w * w))
  <2>1. Is(F(F(a.y * Sqr(1)) * 1), (y1 * (w * w * w)) * (1 * 1 * 1))
    BY <1>1, <1>2, <1>3, IsTimesCube, Zenon
  <2>2. (y1 * (w * w * w)) * (1 * 1 * 1) = y1 * (w * w * w)
    BY <1>3, SMT
  <2>3. QED
    BY <1>3, <2>1, <2>2, Zenon
<1>6. Is(F(b.x * Sqr(az)), q[1] * (w * w)) /\ Is(F(F(b.y * Sqr(az)) * az), q[2] * (w * w * w))
  BY <1>2, <1>3, Zenon
<1>7. Stands(AddFinite(a, az, b, 1, a.z), PointAdd(p, q))
  BY <1>3, <1>4, <1>5, <1>6, AddFiniteStands, Zenon
<1>8. QED
  BY <1>7 DEF q

LEMMA AddGeVarStands ==
    ASSUME NEW a, NEW p, Stands(a, p), NEW q \in Points
    PROVE  Stands(GejAddGeVar(a, ToGe(q)), PointAdd(p, q))
<1>0. p \in Points /\ (a.infinity => p = Infinity)
  BY DEF Stands
<1>1. ToGe(q).infinity <=> q = Infinity
  BY DEF ToGe, Ge
<1>2. CASE a.infinity
  BY <1>0, <1>2, GeStands, InfinityNeutral DEF GejAddGeVar
<1>3. CASE ~a.infinity /\ q = Infinity
  BY <1>0, <1>1, <1>3, InfinityNeutral DEF GejAddGeVar
<1>4. CASE ~a.infinity /\ q # Infinity
  <2>1. PICK x2 \in Field, y2 \in Field : q = <<x2, y2>>
    BY <1>4, PointCoordinates, Zenon
  <2>2. ToGe(q).x = x2 /\ ToGe(q).y = y2
    BY <1>4, <2>1 DEF ToGe, Ge
  <2>3. Is(x2, x2) /\ Is(y2, y2) /\ Is(a.z, a.z)
    BY Prime, IsItself DEF Stands, Gejs
  <2>4. /\ Is(F(ToGe(q).x * Sqr(a.z)), x2 * (a.z * a.z))
        /\ Is(F(F(ToGe(q).y * Sqr(a.z)) * a.z), y2 * (a.z * a.z * a.z))
    BY <2>2, <2>3, IsTimesSqr, IsTimesCube, Zenon
  <2>5. Stands(AddFinite(a, a.z, ToGe(q), 1, a.z), PointAdd(p, q))
    BY <1>4, <2>1, <2>4, AddAffineStands, Zenon
  <2>6. GejAddGeVar(a, ToGe(q)) = AddFinite(a, a.z, ToGe(q), 1, a.z)
    BY <1>1, <1>4, Zenon DEF GejAddGeVar
  <2>7. QED
    BY <2>5, <2>6, Zenon
<1>5. QED
  BY <1>2, <1>3, <1>4

LEMMA AddZinvVarStands ==
    ASSUME NEW a, NEW p, Stands(a, p), NEW b, NEW q, Stands(b, q), ~b.infinity => b.z # 0
    PROVE  Stands(GejAddZinvVar(a, [x |-> b.x, y |-> b.y, infinity |-> b.infinity],
                                FieldInverse[b.z]), PointAdd(p, q))
<1> DEFINE i == FieldInverse[b.z]
           c == [x |-> b.x, y |-> b.y, infinity |-> b.infinity]
<1>0. /\ p \in Points /\ q \in Points /\ (a.infinity => p = Infinity)
      /\ (b.infinity => q = Infinity)
  BY DEF Stands
<1>1. c.x = b.x /\ c.y = b.y /\ c.infinity = b.infinity
  OBVIOUS
<1>2. GeSetGejZinv(c, i) = GeSetGejZinv(b, i)
  BY <1>1 DEF GeSetGejZinv
<1> HIDE DEF c
<1>3. CASE b.infinity
  BY <1>0, <1>1, <1>3, InfinityNeutral DEF GejAddZinvVar, c
<1>4. CASE ~b.infinity /\ a.infinity
  <2>1. GeSetGejZinv(b, i) = ToGe(q)
    BY <1>4, AffineOf
  <2> HIDE DEF i
  <2>2. GejAddZinvVar(a, c, i) = GejSetGe(ToGe(q))
    BY <1>1, <1>2, <1>4, <2>1 DEF GejAddZinvVar
  <2>3. PointAdd(p, q) = q
    BY <1>0, <1>4, InfinityNeutral
  <2>4. QED
    BY <1>0, <2>2, <2>3, GeStands DEF c, i
<1>5. CASE ~b.infinity /\ ~a.infinity
  <2>1. PICK x2 \in Field, y2 \in Field :
            /\ q = <<x2, y2>> /\ b.z \in Field /\ b.z \in Int
            /\ Is(b.x, x2 * (b.z * b.z)) /\ Is(b.y, y2 * (b.z * b.z * b.z))
    BY <1>5, StandsFor, Zenon
  <2>2. PICK s \in Field : s = b.z /\ s # 0
    BY <1>5, <2>1
  <2>3. i \in Field /\ Cong(P, s * i, 1)
    BY <2>2, FieldInverses
  <2> HIDE DEF i
  <2>4. a.z \in Field
    BY DEF Stands, Gejs
  <2>5. PICK w \in Field : w = a.z
    BY <2>4
  <2>6. /\ x2 \in Int /\ y2 \in Int /\ s \in Int /\ i \in Int /\ w \in Int /\ s * i \in Int
        /\ Is(a.z, w) /\ Is(i, i)
    BY <2>3, <2>5, Prime, IsItself, SMT
  <2>7. Is(s * i, 1)
    BY <2>3, <2>6 DEF Is
  <2>8. Is(F(a.z * i), w * i)
    BY <2>6, IsProduct, Zenon
  <2>9. Is((s * i) * (s * i), 1 * 1) /\ Is((s * i) * (s * i) * (s * i), 1 * 1 * 1)
    BY <2>7, IsMul, Zenon
  <2>10. Is(F(c.x * Sqr(F(a.z * i))), x2 * (w * w))
    <3>1. Is(F(c.x * Sqr(F(a.z * i))), (x2 * (s * s)) * ((w * i) * (w * i)))
      BY <1>1, <2>1, <2>2, <2>8, IsTimesSqr, Zenon
    <3>2. /\ (x2 * (s * s)) * ((w * i) * (w * i)) = (x2 * (w * w)) * ((s * i) * (s * i))
          /\ (x2 * (w * w)) * (1 * 1) = x2 * (w * w) /\ x2 * (w * w) \in Int
      BY <2>6, SMT
    <3>3. Is((x2 * (w * w)) * ((s * i) * (s * i)), (x2 * (w * w)) * (1 * 1))
      BY <2>9, <3>2, IsItself, IsMul, Zenon
    <3>4. QED
      BY <3>1, <3>2, <3>3, IsTrans, Zenon
  <2>11. Is(F(F(c.y * Sqr(F(a.z * i))) * F(a.z * i)), y2 * (w * w * w))
    <3>1. Is(F(F(c.y * Sqr(F(a.z * i))) * F(a.z * i)),
             (y2 * (s * s * s)) * ((w * i) * (w * i) * (w * i)))
      BY <1>1, <2>1, <2>2, <2>8, IsTimesCube, Zenon
    <3>2. /\ (y2 * (s * s * s)) * ((w * i) * (w * i) * (w * i))
               = (y2 * (w * w * w)) * ((s * i) * (s * i) * (s * i))
          /\ (y2 * (w * w * w)) * (1 * 1 * 1) = y2 * (w * w * w)
          /\ y2 * (w * w * w) \in Int
      BY <2>6, SMT
    <3>3. Is((y2 * (w * w * w)) * ((s * i) * (s * i) * (s * i)),
             (y2 * (w * w * w)) * (1 * 1 * 1))
      BY <2>9, <3>2, IsItself, IsMul, Zenon
    <3>4. QED
      BY <3>1, <3>2, <3>3, IsTrans, Zenon
  <2>12. Stands(AddFinite(a, F(a.z * i), c, 1, a.z), PointAdd(p, q))
    BY <1>0, <1>5, <2>1, <2>5, <2>10, <2>11, AddAffineStands, Zenon
  <2>13. GejAddZinvVar(a, c, i) = AddFinite(a, F(a.z * i), c, 1, a.z)
    BY <1>1, <1>5, Zenon DEF GejAddZinvVar
  <2>14. QED
    BY <2>12, <2>13, Zenon DEF c, i
<1>6. QED
  BY <1>3, <1>4, <1>5

---------------------------------------------------------------------------
(* The batch inversion, for sequences of any length. *)

\* A set of natural numbers has a least one.
LEMMA LeastNumber ==
    ASSUME NEW S \in SUBSET Nat, S # {}
    PROVE  \E n \in S : \A m \in S : n <= m
<1>1. \E n \in S : \A m \in S : ~ (<<m, n>> \in OpToRel(<, Nat))
  BY NatLessThanWellFounded, WFMin
<1>2. OpToRel(<, Nat) = {ss \in Nat \X Nat : ss[1] < ss[2]}
  BY Zenon DEF OpToRel
<1>3. PICK n \in S : \A m \in S : ~ (<<m, n>> \in {ss \in Nat \X Nat : ss[1] < ss[2]})
  BY <1>1, <1>2, Zenon
<1>4. \A m \in S : m \in Nat /\ n \in Nat /\ ~(m < n)
  BY <1>3
<1>5. QED
  BY <1>4

\* Induction, over the members of a set.
LEMMA Induction ==
    ASSUME NEW S, 0 \in S, \A n \in Nat : n \in S => n + 1 \in S
    PROVE  \A n \in Nat : n \in S
<1> DEFINE T == {n \in Nat : n \notin S}
<1> SUFFICES ASSUME T # {} PROVE FALSE
  OBVIOUS
<1>1. PICK n \in T : \A m \in T : n <= m
  BY LeastNumber
<1>2. n \in Nat /\ n # 0 /\ n - 1 \in Nat /\ ~(n <= n - 1) /\ (n - 1) + 1 = n
  BY <1>1
<1>3. n - 1 \in S
  BY <1>1, <1>2
<1>4. QED
  BY <1>1, <1>2, <1>3

\* g iterates f from b, n times.
Iterates(g, n, A, b, f) ==
    /\ g \in [0 .. n -> A] /\ g[0] = b
    /\ \A i \in 0 .. n - 1 : g[i + 1] = f[i][g[i]]

\* What iterates f exists: recursive functions are defined.
LEMMA Recursion ==
    ASSUME NEW A, NEW b, b \in A, NEW f, f \in [Nat -> [A -> A]],
           NEW n, n \in Nat
    PROVE  \E g : Iterates(g, n, A, b, f)
<1> DEFINE S == {m \in Nat : \E g : Iterates(g, m, A, b, f)}
<1>1. 0 \in S
  <2> DEFINE g == [i \in 0 .. 0 |-> b]
  <2>1. g \in [0 .. 0 -> A] /\ g[0] = b /\ \A i \in 0 .. 0 - 1 : g[i + 1] = f[i][g[i]]
    OBVIOUS
  <2> HIDE DEF g
  <2>2. Iterates(g, 0, A, b, f)
    BY <2>1 DEF Iterates
  <2>3. QED
    BY <2>2
<1>2. ASSUME NEW m \in Nat, m \in S PROVE m + 1 \in S
  <2>1. PICK g : Iterates(g, m, A, b, f)
    BY <1>2
  <2> DEFINE h == [i \in 0 .. m + 1 |-> IF i = m + 1 THEN f[m][g[m]] ELSE g[i]]
  <2>2. g \in [0 .. m -> A] /\ f[m][g[m]] \in A
    BY <1>2, <2>1 DEF Iterates
  <2>3. h \in [0 .. m + 1 -> A] /\ h[0] = b
    BY <1>2, <2>1, <2>2 DEF Iterates
  <2>4. ASSUME NEW i \in 0 .. (m + 1) - 1 PROVE h[i + 1] = f[i][h[i]]
    <3>1. h[i] = g[i]
      BY <1>2, <2>4
    <3>2. CASE i = m
      BY <1>2, <3>1, <3>2
    <3>3. CASE i \in 0 .. m - 1
      <4>1. h[i + 1] = g[i + 1]
        BY <1>2, <3>3
      <4>2. QED
        BY <2>1, <3>1, <3>3, <4>1 DEF Iterates
    <3>4. QED
      BY <1>2, <3>2, <3>3
  <2> HIDE DEF h
  <2>5. Iterates(h, m + 1, A, b, f)
    BY <2>3, <2>4 DEF Iterates
  <2>6. QED
    BY <1>2, <2>5
<1> HIDE DEF S
<1>3. \A m \in Nat : m \in S
  BY <1>1, <1>2, Induction
<1>4. QED
  BY <1>3 DEF S

\* What times a is 1 is the inverse of a.
LEMMA InverseOf ==
    ASSUME NEW a \in Field, NEW i \in Field, Is(a * i, 1)
    PROVE  a # 0 /\ i # 0 /\ i = FieldInverse[a]
<1>1. a \in Int /\ i \in Int
  BY Prime
<1>2. a # 0 /\ i # 0
  <2>1. ASSUME a * i = 0 PROVE FALSE
    <3>1. Is(0, 1)
      BY <2>1
    <3>2. QED
      BY <3>1, IsSym, SmallNonZero
  <2>2. a = 0 \/ i = 0 => a * i = 0
    BY <1>1, SMT
  <2>3. QED
    BY <2>1, <2>2
<1>3. FieldInverse[a] \in Field /\ Cong(P, a * FieldInverse[a], 1)
  BY <1>2, FieldInverses
<1>4. PICK j \in Field : j = FieldInverse[a]
  BY <1>3
<1>5. j \in Int /\ Is(a * j, 1)
  <2>1. j \in Int /\ a * j \in Int
    BY <1>1, <1>4, Prime
  <2>2. QED
    BY <1>3, <1>4, <2>1 DEF Is
<1>6. Is(a * i, a * j)
  BY <1>5, IsSym, IsTrans, Zenon
<1>7. ~Is(a, 0)
  BY <1>2, FieldNonZero
<1>8. Is(i, j)
  BY <1>1, <1>5, <1>6, <1>7, Cancel
<1>9. QED
  BY <1>2, <1>4, <1>5, <1>8, IsItself, IsUnique, Zenon

\* The product of two that are not zero is not.
LEMMA NonZeroInField ==
    ASSUME NEW a \in Field, NEW b \in Field, a # 0, b # 0
    PROVE  F(a * b) \in Field /\ F(a * b) # 0
<1>1. a \in Int /\ b \in Int /\ ~Is(a, 0) /\ ~Is(b, 0) /\ Is(a, a) /\ Is(b, b)
  BY FieldNonZero, IsItself
<1>2. F(a * b) \in Field /\ Is(F(a * b), a * b)
  BY <1>1, IsProduct, Zenon
<1>3. ~Is(a * b, 0)
  BY <1>1, NonZeroProduct
<1>4. QED
  BY <1>2, <1>3, IsZero

\* The products from the left (InvAll).
LEMMA ProductsExist ==
    ASSUME NEW zs \in Seq(Field), zs # << >>
    PROVE  \E L \in [1 .. Len(zs) -> Field] :
               L = [i \in 1 .. Len(zs) |-> IF i = 1 THEN zs[1] ELSE F(L[i - 1] * zs[i])]
<1> DEFINE len == Len(zs)
           f == [k \in Nat |-> [a \in Field |->
                    IF k + 2 \in 1 .. len THEN F(a * zs[k + 2]) ELSE a]]
<1>1. len \in Nat /\ len >= 1 /\ \A i \in 1 .. len : zs[i] \in Field
  OBVIOUS
<1>2. \A a, b \in Field : F(a * b) \in Field
  BY Prime, IsItself, IsProduct
<1>3. f \in [Nat -> [Field -> Field]]
  BY <1>1, <1>2
<1>4. zs[1] \in Field /\ len - 1 \in Nat
  BY <1>1
<1> HIDE DEF f
<1>5. PICK g \in [0 .. len - 1 -> Field] :
          g[0] = zs[1] /\ \A i \in 0 .. (len - 1) - 1 : g[i + 1] = f[i][g[i]]
  <2>1. \E g : Iterates(g, len - 1, Field, zs[1], f)
    BY <1>3, <1>4, Recursion
  <2>2. QED
    BY <2>1 DEF Iterates
<1> DEFINE L == [i \in 1 .. len |-> g[i - 1]]
<1>6. L \in [1 .. len -> Field]
  BY <1>1, <1>5
<1>7. ASSUME NEW i \in 1 .. len
      PROVE  L[i] = (IF i = 1 THEN zs[1] ELSE F(L[i - 1] * zs[i]))
  <2>1. CASE i = 1
    BY <1>1, <1>5, <2>1
  <2>2. CASE i # 1
    <3>1. /\ i - 2 \in 0 .. (len - 1) - 1 /\ i - 2 \in Nat
          /\ (i - 2) + 1 = i - 1 /\ (i - 2) + 2 = i
          /\ i - 1 \in 1 .. len /\ (i - 1) - 1 = i - 2 /\ i - 2 \in 0 .. len - 1
      BY <1>1, <2>2
    <3>2. g[i - 1] = f[i - 2][g[i - 2]] /\ g[i - 2] \in Field
      BY <1>5, <3>1
    <3>3. f[i - 2][g[i - 2]] = F(g[i - 2] * zs[i])
      BY <3>1, <3>2 DEF f
    <3>4. L[i] = g[i - 1] /\ L[i - 1] = g[i - 2]
      BY <3>1
    <3>5. QED
      BY <2>2, <3>2, <3>3, <3>4
  <2>3. QED
    BY <2>1, <2>2
<1>8. L = [i \in 1 .. len |-> IF i = 1 THEN zs[1] ELSE F(L[i - 1] * zs[i])]
  <2>1. L = [i \in 1 .. len |-> L[i]]
    BY Zenon
  <2> HIDE DEF L
  <2>2. QED
    BY <1>7, <2>1
<1> HIDE DEF L
<1>9. QED
  BY <1>6, <1>8

\* The inverses, multiplied back from the right (InvAll).
LEMMA InversesExist ==
    ASSUME NEW zs \in Seq(Field), zs # << >>, NEW e \in Field
    PROVE  \E J \in [1 .. Len(zs) -> Field] :
               J = [i \in 1 .. Len(zs) |-> IF i = Len(zs) THEN e
                                           ELSE F(J[i + 1] * zs[i + 1])]
<1> DEFINE len == Len(zs)
           f == [k \in Nat |-> [a \in Field |->
                    IF len - k \in 1 .. len THEN F(a * zs[len - k]) ELSE a]]
<1>1. len \in Nat /\ len >= 1 /\ \A i \in 1 .. len : zs[i] \in Field
  OBVIOUS
<1>2. \A a, b \in Field : F(a * b) \in Field
  BY Prime, IsItself, IsProduct
<1>3. f \in [Nat -> [Field -> Field]]
  BY <1>1, <1>2
<1>4. len - 1 \in Nat
  BY <1>1
<1> HIDE DEF f
<1>5. PICK g \in [0 .. len - 1 -> Field] :
          g[0] = e /\ \A i \in 0 .. (len - 1) - 1 : g[i + 1] = f[i][g[i]]
  <2>1. \E g : Iterates(g, len - 1, Field, e, f)
    BY <1>3, <1>4, Recursion
  <2>2. QED
    BY <2>1 DEF Iterates
<1> DEFINE J == [i \in 1 .. len |-> g[len - i]]
<1>6. J \in [1 .. len -> Field]
  BY <1>1, <1>5
<1>7. ASSUME NEW i \in 1 .. len
      PROVE  J[i] = (IF i = len THEN e ELSE F(J[i + 1] * zs[i + 1]))
  <2>1. CASE i = len
    BY <1>1, <1>5, <2>1
  <2>2. CASE i # len
    <3> DEFINE k == len - (i + 1)
    <3>1. /\ k \in 0 .. (len - 1) - 1 /\ k \in Nat /\ k \in 0 .. len - 1
          /\ k + 1 = len - i /\ len - k = i + 1 /\ i + 1 \in 1 .. len
      BY <1>1, <2>2
    <3>2. J[i] = g[len - i] /\ J[i + 1] = g[k]
      BY <3>1
    <3> HIDE DEF k, J
    <3>3. g[k + 1] = f[k][g[k]] /\ g[k] \in Field
      BY <1>5, <3>1
    <3>4. f[k][g[k]] = F(g[k] * zs[i + 1])
      BY <3>1, <3>3 DEF f
    <3>5. QED
      BY <2>2, <3>1, <3>2, <3>3, <3>4
  <2>3. QED
    BY <2>1, <2>2
<1>8. J = [i \in 1 .. len |-> IF i = len THEN e ELSE F(J[i + 1] * zs[i + 1])]
  <2>1. J = [i \in 1 .. len |-> J[i]]
    BY Zenon
  <2> HIDE DEF J
  <2>2. QED
    BY <1>7, <2>1
<1> HIDE DEF J
<1>9. QED
  BY <1>6, <1>8

\* Inverting all of a sequence with one inversion (fe_inv_all_var).
LEMMA AllInverted ==
    ASSUME NEW zs \in Seq(Field), zs # << >>,
           \A i \in 1 .. Len(zs) : zs[i] # 0
    PROVE  \A i \in 1 .. Len(zs) : InvAll(zs)[i] = FieldInverse[zs[i]]
<1> DEFINE len == Len(zs)
           Left[i \in 1 .. len] ==
               IF i = 1 THEN zs[1] ELSE F(Left[i - 1] * zs[i])
           Invs[i \in 1 .. len] ==
               IF i = len THEN FieldInverse[Left[len]]
                          ELSE F(Invs[i + 1] * zs[i + 1])
<1>1. InvAll(zs) = [i \in 1 .. len |-> IF i = 1 THEN Invs[1] ELSE F(Left[i - 1] * Invs[i])]
  BY Zenon DEF InvAll
<1>2. /\ len \in Nat /\ len >= 1 /\ len \in 1 .. len /\ 1 \in 1 .. len
      /\ \A i \in 1 .. len : zs[i] \in Field /\ zs[i] # 0
  OBVIOUS
<1>3. /\ Left = [i \in 1 .. len |-> IF i = 1 THEN zs[1] ELSE F(Left[i - 1] * zs[i])]
      /\ Left \in [1 .. len -> Field] /\ \A i \in 1 .. len : Left[i] # 0
  <2>1. PICK L \in [1 .. len -> Field] :
            L = [i \in 1 .. len |-> IF i = 1 THEN zs[1] ELSE F(L[i - 1] * zs[i])]
    BY ProductsExist
  <2>2. Left = [i \in 1 .. len |-> IF i = 1 THEN zs[1] ELSE F(Left[i - 1] * zs[i])]
    BY <2>1, Zenon
  <2> HIDE DEF Left
  <2>3. \A i \in Nat : i + 1 \in 1 .. len => Left[i + 1] \in Field \ {0}
    <3> DEFINE S == {j \in Nat : j + 1 \in 1 .. len => Left[j + 1] \in Field \ {0}}
    <3>1. 0 \in S
      <4>1. Left[1] = zs[1]
        BY <1>2, <2>2
      <4>2. QED
        BY <1>2, <4>1
    <3>2. ASSUME NEW j \in Nat, j \in S PROVE j + 1 \in S
      <4>1. SUFFICES ASSUME (j + 1) + 1 \in 1 .. len
                     PROVE  Left[(j + 1) + 1] \in Field \ {0}
        BY <3>2
      <4>2. j + 1 \in 1 .. len /\ (j + 1) + 1 # 1 /\ ((j + 1) + 1) - 1 = j + 1
        BY <1>2, <3>2, <4>1
      <4>3. Left[(j + 1) + 1] = F(Left[j + 1] * zs[(j + 1) + 1])
        BY <2>2, <4>1, <4>2
      <4>4. PICK l \in Field \ {0}, z \in Field \ {0} : l = Left[j + 1] /\ z = zs[(j + 1) + 1]
        BY <1>2, <3>2, <4>1, <4>2
      <4>5. QED
        BY <4>3, <4>4, NonZeroInField
    <3> HIDE DEF S
    <3>3. \A j \in Nat : j \in S
      BY <3>1, <3>2, Induction
    <3>4. QED
      BY <3>3 DEF S
  <2>4. ASSUME NEW i \in 1 .. len PROVE Left[i] \in Field /\ Left[i] # 0
    <3>1. i - 1 \in Nat /\ (i - 1) + 1 = i
      BY <1>2
    <3>2. QED
      BY <2>3, <3>1
  <2>5. QED
    BY <2>2, <2>4
<1>4. Left[len] \in Field /\ FieldInverse[Left[len]] \in Field
  <2>1. Left[len] \in Field
    BY <1>2, <1>3
  <2>2. FieldInverse[0] = 0 /\ 0 \in Field
    BY Prime DEF FieldInverse
  <2>3. QED
    BY <2>1, <2>2, FieldInverses
<1> HIDE DEF Left
<1>5. /\ Invs = [i \in 1 .. len |-> IF i = len THEN FieldInverse[Left[len]]
                                    ELSE F(Invs[i + 1] * zs[i + 1])]
      /\ \A i \in 1 .. len : Invs[i] \in Field
      /\ \A i \in 1 .. len : Left[i] # 0 /\ Is(Left[i] * Invs[i], 1)
  <2>1. PICK J \in [1 .. len -> Field] :
            J = [i \in 1 .. len |-> IF i = len THEN FieldInverse[Left[len]]
                                    ELSE F(J[i + 1] * zs[i + 1])]
    BY <1>4, InversesExist
  <2>2. Invs = [i \in 1 .. len |-> IF i = len THEN FieldInverse[Left[len]]
                                   ELSE F(Invs[i + 1] * zs[i + 1])]
    BY <2>1, Zenon
  <2> HIDE DEF Invs
  <2> DEFINE Good(i) == /\ Invs[i] \in Field /\ Left[i] # 0
                        /\ Is(Left[i] * Invs[i], 1)
  <2>3. ASSUME NEW i \in 1 .. len - 1, Good(i + 1) PROVE Good(i)
    <3>1. i \in 1 .. len /\ i # len /\ i + 1 \in 1 .. len /\ i + 1 # 1 /\ (i + 1) - 1 = i
      BY <1>2
    <3>2. /\ Left[i + 1] = F(Left[i] * zs[i + 1])
          /\ Invs[i] = F(Invs[i + 1] * zs[i + 1])
      BY <1>3, <2>2, <3>1
    <3>3. PICK l \in Int, v \in Int, z \in Int :
              /\ l = Left[i] /\ v = Invs[i + 1] /\ z = zs[i + 1]
              /\ Is(l, l) /\ Is(v, v) /\ Is(z, z)
      <4>1. Left[i] \in Int /\ Invs[i + 1] \in Int /\ zs[i + 1] \in Int
        BY <1>2, <1>3, <2>3, <3>1, Prime
      <4>2. QED
        BY <4>1, IsItself
    <3>4. Is(F(l * z), l * z) /\ Is(F(l * z) * v, 1)
      BY <2>3, <3>2, <3>3, IsProduct, Zenon
    <3>5. Is(F(l * z) * v, (l * z) * v)
      BY <3>3, <3>4, IsMul, Zenon
    <3>6. Is(F(v * z), v * z) /\ F(v * z) \in Field
      BY <3>3, IsProduct, Zenon
    <3>7. Is(l * F(v * z), l * (v * z))
      BY <3>6, IsTimes, Zenon
    <3>8. l * (v * z) = (l * z) * v
      BY SMT
    <3>9. Is(l * F(v * z), 1)
      BY <3>4, <3>5, <3>7, <3>8, IsSym, IsTrans, Zenon
    <3>10. QED
      BY <1>3, <3>1, <3>2, <3>3, <3>6, <3>9
  <2>4. Good(len)
    <3>1. Invs[len] = FieldInverse[Left[len]]
      BY <1>2, <2>2
    <3>2. PICK l \in Field : l = Left[len] /\ l # 0
      BY <1>2, <1>3
    <3>3. PICK v \in Field : v = FieldInverse[l] /\ Cong(P, l * v, 1)
      BY <3>2, FieldInverses
    <3>4. l * v \in Int
      BY Prime, SMT
    <3>5. Is(l * v, 1)
      BY <3>3, <3>4 DEF Is
    <3>6. QED
      BY <3>1, <3>2, <3>3, <3>5
  <2>5. ASSUME NEW i \in 1 .. len PROVE Good(i)
    <3> DEFINE S == {k \in Nat : len - k \in 1 .. len => Good(len - k)}
    <3> HIDE DEF Good
    <3>1. 0 \in S
      BY <1>2, <2>4
    <3>2. ASSUME NEW k \in Nat, k \in S PROVE k + 1 \in S
      <4>1. SUFFICES ASSUME len - (k + 1) \in 1 .. len PROVE Good(len - (k + 1))
        BY <3>2
      <4>2. PICK j \in 1 .. len - 1 : j = len - (k + 1) /\ len - k = j + 1 /\ len - k \in 1 .. len
        <5>1. PICK l \in Nat : l = len
          BY <1>2
        <5>2. /\ l - (k + 1) \in 1 .. l - 1 /\ l - k = (l - (k + 1)) + 1
              /\ l - k \in 1 .. l
          BY <3>2, <4>1, <5>1
        <5>3. QED
          BY <5>1, <5>2
      <4>3. Good(j + 1)
        BY <3>2, <4>2
      <4>4. QED
        BY <2>3, <4>2, <4>3
    <3> HIDE DEF S
    <3>3. \A k \in Nat : k \in S
      BY <3>1, <3>2, Induction
    <3>4. len - i \in Nat /\ len - (len - i) = i
      BY <1>2
    <3>5. QED
      BY <3>3, <3>4 DEF S
  <2>6. QED
    BY <1>3, <2>2, <2>5
<1> HIDE DEF Invs
<1>6. ASSUME NEW i \in 1 .. len PROVE InvAll(zs)[i] = FieldInverse[zs[i]]
  <2>1. CASE i = 1
    <3>1. InvAll(zs)[i] = Invs[1] /\ Left[1] = zs[1]
      BY <1>1, <1>2, <1>3, <2>1
    <3>2. zs[1] \in Field /\ Invs[1] \in Field /\ Is(zs[1] * Invs[1], 1)
      BY <1>2, <1>5, <3>1
    <3>3. QED
      BY <2>1, <3>1, <3>2, InverseOf
  <2>2. CASE i # 1
    <3>1. i - 1 \in 1 .. len
      BY <1>2, <2>2
    <3>2. /\ InvAll(zs)[i] = F(Left[i - 1] * Invs[i])
          /\ Left[i] = F(Left[i - 1] * zs[i])
      BY <1>1, <1>3, <2>2
    <3>3. PICK l \in Int, v \in Int, z \in Int :
              /\ l = Left[i - 1] /\ v = Invs[i] /\ z = zs[i]
              /\ Is(l, l) /\ Is(v, v) /\ Is(z, z)
      <4>1. Left[i - 1] \in Int /\ Invs[i] \in Int /\ zs[i] \in Int
        BY <1>2, <1>3, <1>5, <3>1, Prime
      <4>2. QED
        BY <4>1, IsItself
    <3>4. Is(F(l * z), l * z) /\ Is(F(l * z) * v, 1)
      BY <1>5, <3>2, <3>3, IsProduct, Zenon
    <3>5. Is((l * z) * v, 1)
      <4>1. Is(F(l * z) * v, (l * z) * v)
        BY <3>3, <3>4, IsMul, Zenon
      <4>2. QED
        BY <3>4, <4>1, IsSym, IsTrans, Zenon
    <3>6. Is(F(l * v), l * v) /\ F(l * v) \in Field
      BY <3>3, IsProduct, Zenon
    <3>7. Is(z * F(l * v), z * (l * v)) /\ z * (l * v) = (l * z) * v
      BY <3>3, <3>6, IsTimes, SMT
    <3>8. Is(z * F(l * v), 1)
      BY <3>5, <3>7, IsTrans, Zenon
    <3>9. F(l * v) = FieldInverse[zs[i]]
      BY <1>2, <3>3, <3>6, <3>8, InverseOf, Zenon
    <3>10. QED
      BY <3>2, <3>3, <3>9, Zenon
  <2>3. QED
    BY <2>1, <2>2
<1>7. QED
  BY <1>6

\* The members of a sequence of points and their z coordinates.
LEMMA PointsIn ==
    ASSUME NEW gs \in Seq(Gejs)
    PROVE  /\ Len(gs) \in Nat /\ DOMAIN gs = 1 .. Len(gs)
           /\ \A i \in 1 .. Len(gs) : gs[i] \in Gejs /\ gs[i].z \in Field
<1>1. Len(gs) \in Nat /\ DOMAIN gs = 1 .. Len(gs) /\ \A i \in 1 .. Len(gs) : gs[i] \in Gejs
  OBVIOUS
<1>2. \A a \in Gejs : a.z \in Field
  BY DEF Gejs
<1>3. QED
  BY <1>1, <1>2

\* The z coordinates of the finite ones among the first i (SetAll).
LEMMA CollectedExist ==
    ASSUME NEW gs \in Seq(Gejs)
    PROVE  \E C \in [0 .. Len(gs) -> Seq(Field)] :
               C = [i \in 0 .. Len(gs) |->
                       IF i = 0 THEN << >>
                       ELSE IF gs[i].infinity THEN C[i - 1]
                       ELSE Append(C[i - 1], gs[i].z)]
<1> DEFINE len == Len(gs)
           f == [k \in Nat |-> [s \in Seq(Field) |->
                    IF k + 1 \in 1 .. len
                    THEN IF gs[k + 1].infinity THEN s ELSE Append(s, gs[k + 1].z)
                    ELSE s]]
<1>1. len \in Nat /\ \A i \in 1 .. len : gs[i].z \in Field
  BY PointsIn
<1>2. f \in [Nat -> [Seq(Field) -> Seq(Field)]]
  BY <1>1
<1>3. << >> \in Seq(Field)
  OBVIOUS
<1> HIDE DEF f
<1>4. PICK C \in [0 .. len -> Seq(Field)] :
          C[0] = << >> /\ \A i \in 0 .. len - 1 : C[i + 1] = f[i][C[i]]
  <2>1. \E C : Iterates(C, len, Seq(Field), << >>, f)
    BY <1>1, <1>2, <1>3, Recursion
  <2>2. QED
    BY <2>1 DEF Iterates
<1>5. ASSUME NEW i \in 0 .. len
      PROVE  C[i] = (IF i = 0 THEN << >> ELSE IF gs[i].infinity THEN C[i - 1]
                     ELSE Append(C[i - 1], gs[i].z))
  <2>1. CASE i = 0
    BY <1>4, <2>1
  <2>2. CASE i # 0
    <3>1. i - 1 \in 0 .. len - 1 /\ i - 1 \in Nat /\ (i - 1) + 1 = i /\ i \in 1 .. len
          /\ i - 1 \in 0 .. len
      BY <1>1, <2>2
    <3>2. C[i] = f[i - 1][C[i - 1]] /\ C[i - 1] \in Seq(Field)
      BY <1>4, <3>1
    <3>3. f[i - 1][C[i - 1]] =
              IF gs[i].infinity THEN C[i - 1] ELSE Append(C[i - 1], gs[i].z)
      BY <3>1, <3>2 DEF f
    <3>4. QED
      BY <2>2, <3>2, <3>3
  <2>3. QED
    BY <2>1, <2>2
<1>6. QED
  BY <1>4, <1>5

\* All points affine, with one inversion for those that are finite
\* (ge_set_all_gej_var).
LEMMA AllSet ==
    ASSUME NEW gs \in Seq(Gejs), NEW ps,
           \A i \in 1 .. Len(gs) : Stands(gs[i], ps[i])
    PROVE  SetAll(gs) = [i \in 1 .. Len(gs) |-> ToGe(ps[i])]
<1> DEFINE len == Len(gs)
           az[i \in 0 .. Len(gs)] ==
               IF i = 0 THEN << >>
               ELSE IF gs[i].infinity THEN az[i - 1]
               ELSE Append(az[i - 1], gs[i].z)
           azi == InvAll(az[Len(gs)])
<1>1. SetAll(gs) = [i \in DOMAIN gs |->
                       IF gs[i].infinity THEN [x |-> 0, y |-> 0, infinity |-> TRUE]
                       ELSE GeSetGejZinv(gs[i], azi[Len(az[i])])]
  BY Zenon DEF SetAll
<1>2. len \in Nat /\ DOMAIN gs = 1 .. len /\ len \in 0 .. len
      /\ \A i \in 1 .. len : gs[i] \in Gejs /\ gs[i].z \in Field
  BY PointsIn
<1>3. /\ az \in [0 .. len -> Seq(Field)]
      /\ az = [i \in 0 .. len |-> IF i = 0 THEN << >>
                                  ELSE IF gs[i].infinity THEN az[i - 1]
                                  ELSE Append(az[i - 1], gs[i].z)]
  <2>1. PICK C \in [0 .. len -> Seq(Field)] :
               C = [i \in 0 .. len |->
                       IF i = 0 THEN << >>
                       ELSE IF gs[i].infinity THEN C[i - 1]
                       ELSE Append(C[i - 1], gs[i].z)]
    BY CollectedExist
  <2>2. az = [i \in 0 .. len |-> IF i = 0 THEN << >>
                                  ELSE IF gs[i].infinity THEN az[i - 1]
                                  ELSE Append(az[i - 1], gs[i].z)]
    BY <2>1, Zenon
  <2> HIDE DEF az
  <2>3. \A i \in Nat : i \in 0 .. len => az[i] \in Seq(Field)
    <3> DEFINE S == {j \in Nat : j \in 0 .. len => az[j] \in Seq(Field)}
    <3>1. 0 \in S
      <4>1. az[0] = << >>
        BY <1>2, <2>2
      <4>2. << >> \in Seq(Field) /\ 0 \in Nat
        OBVIOUS
      <4>3. QED
        BY <4>1, <4>2
    <3>2. ASSUME NEW j \in Nat, j \in S PROVE j + 1 \in S
      <4>1. SUFFICES ASSUME j + 1 \in 0 .. len PROVE az[j + 1] \in Seq(Field)
        BY <3>2
      <4>2. j \in 0 .. len /\ j + 1 \in 1 .. len /\ j + 1 # 0 /\ (j + 1) - 1 = j
        BY <1>2, <3>2, <4>1
      <4>3. az[j + 1] = IF gs[j + 1].infinity THEN az[j] ELSE Append(az[j], gs[j + 1].z)
        BY <2>2, <4>1, <4>2
      <4>4. az[j] \in Seq(Field) /\ gs[j + 1].z \in Field
        BY <1>2, <3>2, <4>2
      <4>5. QED
        BY <4>3, <4>4
    <3> HIDE DEF S
    <3>3. \A j \in Nat : j \in S
      BY <3>1, <3>2, Induction
    <3>4. QED
      BY <3>3 DEF S
  <2>4. \A i \in 0 .. len : az[i] \in Seq(Field)
    BY <2>3
  <2>5. QED
    BY <2>2, <2>4
<1> HIDE DEF az
<1> DEFINE Good(j) ==
        /\ \A k \in 1 .. Len(az[j]) : az[j][k] # 0
        /\ \A i \in 1 .. j : ~gs[i].infinity =>
               Len(az[i]) \in 1 .. Len(az[j]) /\ az[j][Len(az[i])] = gs[i].z
<1>4. ASSUME NEW j \in Nat, j + 1 \in 0 .. len, Good(j) PROVE Good(j + 1)
  <2>1. j \in 0 .. len /\ j + 1 \in 1 .. len /\ j + 1 # 0 /\ (j + 1) - 1 = j
    BY <1>2, <1>4
  <2>2. az[j + 1] = IF gs[j + 1].infinity THEN az[j] ELSE Append(az[j], gs[j + 1].z)
    BY <1>3, <1>4, <2>1
  <2>3. PICK s \in Seq(Field) : s = az[j]
    BY <1>3, <2>1
  <2>4. /\ \A k \in 1 .. Len(s) : s[k] # 0
        /\ \A i \in 1 .. j : ~gs[i].infinity =>
               Len(az[i]) \in 1 .. Len(s) /\ s[Len(az[i])] = gs[i].z
    BY <1>4, <2>3
  <2>5. CASE gs[j + 1].infinity
    <3>1. az[j + 1] = s /\ \A i \in 1 .. j + 1 : i = j + 1 \/ i \in 1 .. j
      BY <2>2, <2>3, <2>5
    <3>2. QED
      BY <2>4, <2>5, <3>1
  <2>6. CASE ~gs[j + 1].infinity
    <3>1. PICK z \in Field : z = gs[j + 1].z /\ z # 0
      <4>1. gs[j + 1].z # 0
        BY <2>1, <2>6 DEF Stands
      <4>2. QED
        BY <1>2, <2>1, <4>1
    <3>2. PICK n \in Nat : n = Len(s)
      OBVIOUS
    <3>3. PICK t \in Seq(Field) :
             /\ t = az[j + 1] /\ Len(t) = n + 1 /\ t[n + 1] = z
             /\ \A k \in 1 .. n : t[k] = s[k]
      <4>1. az[j + 1] = Append(s, z)
        BY <2>2, <2>3, <2>6, <3>1
      <4>2. /\ Append(s, z) \in Seq(Field) /\ Len(Append(s, z)) = n + 1
            /\ Append(s, z)[n + 1] = z
            /\ \A k \in 1 .. n : Append(s, z)[k] = s[k]
        BY <3>2
      <4>3. QED
        BY <4>1, <4>2
    <3>4. \A k \in 1 .. Len(t) : t[k] # 0
      BY <2>4, <3>1, <3>2, <3>3
    <3>5. ASSUME NEW i \in 1 .. j + 1, ~gs[i].infinity
          PROVE  Len(az[i]) \in 1 .. Len(t) /\ t[Len(az[i])] = gs[i].z
      <4>1. CASE i = j + 1
        BY <3>1, <3>2, <3>3, <4>1
      <4>2. CASE i \in 1 .. j
        <5>1. PICK m \in 1 .. n : m = Len(az[i]) /\ s[m] = gs[i].z
          BY <2>4, <3>2, <3>5, <4>2
        <5>2. m \in 1 .. n + 1
          BY <3>2
        <5>3. QED
          BY <3>3, <5>1, <5>2
      <4>3. QED
        BY <3>5, <4>1, <4>2
    <3>6. QED
      BY <3>3, <3>4, <3>5
  <2>7. QED
    BY <2>5, <2>6
<1>5. Good(0)
  <2>1. az[0] = << >>
    BY <1>2, <1>3
  <2>2. \A k \in 1 .. Len(<< >>) : FALSE
    OBVIOUS
  <2>3. \A i \in 1 .. 0 : FALSE
    OBVIOUS
  <2>4. QED
    BY <2>1, <2>2, <2>3
<1>6. Good(len)
  <2> HIDE DEF Good
  <2> DEFINE S == {j \in Nat : j \in 0 .. len => Good(j)}
  <2>1. 0 \in S
    BY <1>5
  <2>2. ASSUME NEW j \in Nat, j \in S PROVE j + 1 \in S
    <3>1. SUFFICES ASSUME j + 1 \in 0 .. len PROVE Good(j + 1)
      BY <2>2
    <3>2. j \in 0 .. len
      BY <1>2, <2>2, <3>1
    <3>3. QED
      BY <1>4, <2>2, <3>1, <3>2
  <2> HIDE DEF S
  <2>3. \A j \in Nat : j \in S
    BY <2>1, <2>2, Induction
  <2>4. QED
    BY <1>2, <2>3 DEF S
<1>7. ASSUME NEW i \in 1 .. len
      PROVE  (IF gs[i].infinity THEN [x |-> 0, y |-> 0, infinity |-> TRUE]
              ELSE GeSetGejZinv(gs[i], azi[Len(az[i])])) = ToGe(ps[i])
  <2>1. CASE gs[i].infinity
    <3>1. ps[i] = Infinity
      BY <2>1 DEF Stands
    <3>2. QED
      BY <2>1, <3>1 DEF ToGe
  <2>2. CASE ~gs[i].infinity
    <3>1. PICK s \in Seq(Field) : s = az[len]
      BY <1>2, <1>3
    <3>2. PICK k \in 1 .. Len(s) : k = Len(az[i]) /\ s[k] = gs[i].z
      BY <1>6, <2>2, <3>1
    <3>3. s # << >> /\ \A m \in 1 .. Len(s) : s[m] # 0
      BY <1>6, <3>1, <3>2
    <3>4. InvAll(s)[k] = FieldInverse[gs[i].z]
      BY <3>2, <3>3, AllInverted
    <3>5. azi[Len(az[i])] = FieldInverse[gs[i].z]
      BY <3>1, <3>2, <3>4
    <3>6. GeSetGejZinv(gs[i], FieldInverse[gs[i].z]) = ToGe(ps[i])
      BY <2>2, AffineOf
    <3>7. QED
      BY <2>2, <3>5, <3>6
  <2>3. QED
    BY <2>1, <2>2
<1> HIDE DEF azi
<1>8. QED
  BY <1>1, <1>2, <1>7

---------------------------------------------------------------------------
(* The ratios the additions return.                                        *)

LEMMA DoubleRatioField == ASSUME NEW a \in Gejs PROVE DoubleRatio(a) \in Field
<1>1. a.y \in Int /\ 2 * a.y \in Int /\ 1 \in Field
  BY Prime DEF Gejs
<1>2. QED
  BY <1>1, InField DEF DoubleRatio

LEMMA AddRatioField ==
    ASSUME NEW a \in Gejs, NEW b \in Gejs
    PROVE  AddRatio(a, b) \in Field
<1>1. /\ a.x \in Int /\ a.z \in Int /\ b.x \in Int /\ b.z \in Int
      /\ 0 \in Field /\ 1 \in Field
  BY Prime DEF Gejs
<1> DEFINE h == F(b.x * Sqr(a.z) - F(a.x * Sqr(b.z)))
<1>2. h \in Int /\ F(h * b.z) \in Field
  <2>1. a.z * a.z \in Int /\ b.z * b.z \in Int
    BY <1>1, SMT
  <2>2. Sqr(a.z) \in Int /\ Sqr(b.z) \in Int
    BY <2>1, InField DEF Sqr
  <2>3. a.x * Sqr(b.z) \in Int /\ b.x * Sqr(a.z) \in Int
    BY <1>1, <2>2, SMT
  <2>4. b.x * Sqr(a.z) - F(a.x * Sqr(b.z)) \in Int
    BY <2>3, InField
  <2>5. h \in Int
    BY <2>4, InField
  <2> HIDE DEF h
  <2>6. h * b.z \in Int
    BY <1>1, <2>5, SMT
  <2>7. QED
    BY <2>5, <2>6, InField
<1>3. DoubleRatio(a) \in Field
  BY DoubleRatioField
<1>4. AddRatio(a, b) =
          CASE b.infinity -> 1
            [] ~b.infinity /\ h # 0 -> F(h * b.z)
            [] OTHER -> IF F(b.y * F(Sqr(a.z) * a.z)) = F(a.y * F(Sqr(b.z) * b.z))
                        THEN DoubleRatio(a) ELSE 0
  BY Zenon DEF AddRatio
<1> HIDE DEF h
<1>5. QED
  BY <1>1, <1>2, <1>3, <1>4

LEMMA FieldFixed == ASSUME NEW a \in Field PROVE F(a) = a /\ F(a * 1) = a
<1>1. a \in Int /\ a * 1 = a
  BY Prime
<1>2. Is(F(a), a) /\ F(a) \in Field /\ Is(a, a)
  BY <1>1, IsItself, IsF
<1>3. QED
  BY <1>1, <1>2, IsUnique

LEMMA DoublingRatio ==
    ASSUME NEW a \in Gejs, ~a.infinity
    PROVE  GejDouble(a).z = F(a.z * DoubleRatio(a))
<1>1. GejDouble(a).z = F(2 * a.z * a.y) /\ DoubleRatio(a) = F(2 * a.y)
  BY DEF GejDouble, DoubleRatio, Gej
<1>2. PICK y \in Int, z \in Int : y = a.y /\ z = a.z
  BY Prime DEF Gejs
<1>3. /\ 2 * z \in Int /\ 2 * y \in Int /\ 2 * z * y \in Int
      /\ z * (2 * y) = 2 * z * y /\ Is(z, z)
  BY <1>2, IsItself, SMT
<1>4. Is(F(2 * y), 2 * y)
  BY <1>3, IsItself, IsF, Zenon
<1>5. Is(F(z * F(2 * y)), z * (2 * y)) /\ F(z * F(2 * y)) \in Field
  BY <1>3, <1>4, IsProduct, Zenon
<1>6. Is(F(2 * z * y), 2 * z * y) /\ F(2 * z * y) \in Field
  BY <1>3, IsItself, IsF, Zenon
<1>7. F(z * F(2 * y)) = F(2 * z * y)
  BY <1>3, <1>5, <1>6, IsUnique, Zenon
<1>8. QED
  BY <1>1, <1>2, <1>7

LEMMA CubeTwice ==
    ASSUME NEW a \in Int, NEW b \in Int
    PROVE  F(F(a * Sqr(b)) * b) \in Field /\ F(F(a * Sqr(b)) * b) = F(a * F(Sqr(b) * b))
<1>1. Is(a, a) /\ Is(b, b)
  BY IsItself
<1>2. /\ Is(F(F(a * Sqr(b)) * b), a * (b * b * b)) /\ F(F(a * Sqr(b)) * b) \in Field
      /\ Is(F(a * F(Sqr(b) * b)), a * (b * b * b)) /\ F(a * F(Sqr(b) * b)) \in Field
  BY <1>1, IsTimesCube, Zenon
<1>3. QED
  BY <1>2, IsUnique, Zenon

\* The additions and their ratios compare the same numbers, computed in
\* different orders.
LEMMA AdditionRatio ==
    ASSUME NEW a \in Gejs, NEW b \in Gejs, ~a.infinity, ~b.infinity,
           ~AddFinite(a, a.z, b, b.z, F(a.z * b.z)).infinity
    PROVE  AddFinite(a, a.z, b, b.z, F(a.z * b.z)).z = F(a.z * AddRatio(a, b))
<1> DEFINE u1 == F(a.x * Sqr(b.z))
           v2 == b.x * Sqr(a.z)
           s1 == F(F(a.y * Sqr(b.z)) * b.z)
           s2 == F(F(b.y * Sqr(a.z)) * a.z)
           h == F(F(v2) - u1)
           g == F(v2 - u1)
           i == F(s2 - s1)
           sum == AddFinite(a, a.z, b, b.z, F(a.z * b.z))
<1>1. sum = CASE h # 0 -> Chord(h, i, u1, s1, F(F(a.z * b.z) * h))
              [] h = 0 /\ i = 0 -> GejDouble(a)
              [] OTHER -> Flagged(a)
  BY Zenon DEF AddFinite
<1>2. AddRatio(a, b) =
          CASE b.infinity -> 1
            [] ~b.infinity /\ g # 0 -> F(g * b.z)
            [] OTHER -> IF F(b.y * F(Sqr(a.z) * a.z)) = F(a.y * F(Sqr(b.z) * b.z))
                        THEN DoubleRatio(a) ELSE 0
  BY Zenon DEF AddRatio
<1>3. /\ a.x \in Int /\ a.y \in Int /\ a.z \in Int
      /\ b.x \in Int /\ b.y \in Int /\ b.z \in Int
      /\ Is(a.x, a.x) /\ Is(a.y, a.y) /\ Is(a.z, a.z)
      /\ Is(b.x, b.x) /\ Is(b.y, b.y) /\ Is(b.z, b.z)
  BY Prime, IsItself DEF Gejs
<1>4. u1 \in Field /\ F(v2) \in Field /\ v2 \in Int
  <2>1. u1 \in Field /\ F(v2) \in Field
    BY <1>3, IsTimesSqr, Zenon
  <2>2. Sqr(a.z) \in Int
    <3>1. Sqr(a.z) \in Field
      BY <1>3, IsSqr, Zenon
    <3>2. QED
      BY <3>1, Prime
  <2>3. v2 \in Int
    BY <1>3, <2>2, SMT
  <2>4. QED
    BY <2>1, <2>3
<1>5. /\ s1 \in Field /\ s1 = F(a.y * F(Sqr(b.z) * b.z))
      /\ s2 \in Field /\ s2 = F(b.y * F(Sqr(a.z) * a.z))
  BY <1>3, CubeTwice, Zenon
<1> HIDE DEF u1, v2, s1, s2
<1>6. h = g /\ h \in Field
  <2>1. Is(u1, u1) /\ Is(v2, v2)
    BY <1>4, Prime, IsItself
  <2>2. Is(F(v2), v2)
    BY <2>1, IsF, Zenon
  <2>3. Is(h, v2 - u1) /\ h \in Field /\ Is(g, v2 - u1) /\ g \in Field
    BY <2>1, <2>2, IsDifference, Zenon
  <2> HIDE DEF h, g
  <2>4. QED
    BY <2>3, IsUnique, Zenon
<1>7. i = 0 => s1 = s2
  <2> SUFFICES ASSUME i = 0 PROVE s1 = s2
    OBVIOUS
  <2>1. s1 \in Int /\ s2 \in Int /\ Is(s1, s1) /\ Is(s2, s2)
    BY <1>5, Prime, IsItself
  <2>2. Is(i, s2 - s1) /\ i \in Field
    BY <2>1, IsDifference, Zenon
  <2> HIDE DEF i
  <2>3. Is(s2 - s1, 0)
    BY <2>2, IsZero
  <2>4. Is(s2, s1)
    BY <2>1, <2>3, DifferenceZero
  <2>5. QED
    BY <1>5, <2>1, <2>4, IsUnique
<1>8. CASE h # 0
  <2>1. AddRatio(a, b) = F(h * b.z)
    BY <1>2, <1>6, <1>8, Zenon
  <2>2. sum.z = F(F(a.z * b.z) * h)
    <3>1. sum = Chord(h, i, u1, s1, F(F(a.z * b.z) * h))
      BY <1>1, <1>8, Zenon
    <3> HIDE DEF sum, h
    <3>2. QED
      BY <3>1 DEF Chord, Gej
  <2>3. PICK k \in Field : k = h
    BY <1>6
  <2>4. PICK y \in Int, z \in Int : y = a.z /\ z = b.z
    BY <1>3
  <2>5. k \in Int /\ Is(k, k) /\ Is(y, y) /\ Is(z, z) /\ (y * z) * k = y * (k * z)
    BY <2>3, Prime, IsItself, SMT
  <2>6. /\ Is(F(F(y * z) * k), (y * z) * k) /\ F(F(y * z) * k) \in Field
        /\ Is(F(y * F(k * z)), y * (k * z)) /\ F(y * F(k * z)) \in Field
    BY <2>5, IsProduct, Zenon
  <2>7. F(F(y * z) * k) = F(y * F(k * z))
    BY <2>5, <2>6, IsUnique, Zenon
  <2>8. QED
    BY <2>1, <2>2, <2>3, <2>4, <2>7, Zenon
<1>9. CASE h = 0 /\ i = 0
  <2>1. sum = GejDouble(a)
    BY <1>1, <1>9, Zenon
  <2>2. AddRatio(a, b) = DoubleRatio(a)
    BY <1>2, <1>5, <1>6, <1>7, <1>9, Zenon
  <2>3. QED
    BY <2>1, <2>2, DoublingRatio, Zenon
<1>10. CASE h = 0 /\ i # 0
  <2>1. sum = Flagged(a)
    BY <1>1, <1>10, Zenon
  <2>2. Flagged(a).infinity
    BY DEF Flagged
  <2>3. QED
    BY <2>1, <2>2, Zenon
<1>11. QED
  BY <1>8, <1>9, <1>10

LEMMA AddVarRatio ==
    ASSUME NEW a \in Gejs, NEW b \in Gejs, ~a.infinity, ~GejAddVar(a, b).infinity
    PROVE  GejAddVar(a, b).z = F(a.z * AddRatio(a, b))
<1>1. CASE b.infinity
  <2>1. GejAddVar(a, b) = a
    BY <1>1, Zenon DEF GejAddVar
  <2>2. AddRatio(a, b) = 1
    BY <1>1, Zenon DEF AddRatio
  <2>3. a.z \in Field
    BY DEF Gejs
  <2>4. QED
    BY <2>1, <2>2, <2>3, FieldFixed, Zenon
<1>2. CASE ~b.infinity
  <2>1. GejAddVar(a, b) = AddFinite(a, a.z, b, b.z, F(a.z * b.z))
    BY <1>2, Zenon DEF GejAddVar
  <2>2. QED
    BY <1>2, <2>1, AdditionRatio, Zenon
<1>3. QED
  BY <1>1, <1>2

\* Adding an affine point is adding it with z = 1.
LEMMA AddGeVarIsAddVar ==
    ASSUME NEW a \in Gejs, NEW p \in Points, ~a.infinity
    PROVE  GejAddGeVar(a, ToGe(p)) = GejAddVar(a, ToGej(p, 1))
<1> DEFINE b == ToGej(p, 1)
<1>1. CASE p = Infinity
  <2>1. ToGe(p).infinity /\ b.infinity
    BY <1>1 DEF ToGe, ToGej, GejSetInfinity
  <2> HIDE DEF b
  <2>2. GejAddGeVar(a, ToGe(p)) = a /\ GejAddVar(a, b) = a
    BY <2>1, Zenon DEF GejAddGeVar, GejAddVar
  <2>3. QED
    BY <2>2 DEF b
<1>2. CASE p # Infinity
  <2>1. PICK x \in Field, y \in Field : p = <<x, y>>
    BY <1>2, PointCoordinates, Zenon
  <2>2. ToGe(p) = Ge(x, y)
    BY <1>2, <2>1 DEF ToGe
  <2>3. b = GejRescale(GejSetGe(Ge(x, y)), 1)
    BY <1>2, <2>2 DEF ToGej
  <2>4. Sqr(1) = 1 /\ F(1 * 1) = 1
    <3>1. 1 \in Field /\ 1 * 1 = 1
      BY Prime
    <3>2. QED
      BY <3>1, FieldFixed DEF Sqr
  <2>5. b = Gej(x, y, 1)
    <3>1. F(x * 1) = x /\ F(y * 1) = y
      BY FieldFixed
    <3>2. b = [x |-> F(x * 1), y |-> F(F(y * 1) * 1), z |-> 1, infinity |-> FALSE]
      BY <2>3, <2>4 DEF GejRescale, GejSetGe, Ge
    <3>3. QED
      BY <3>1, <3>2 DEF Gej
  <2> HIDE DEF b
  <2>6. /\ b.x = ToGe(p).x /\ b.y = ToGe(p).y /\ b.z = 1 /\ ~b.infinity
        /\ ~ToGe(p).infinity
    BY <2>2, <2>5 DEF Ge, Gej
  <2>7. F(a.z * 1) = a.z
    BY FieldFixed DEF Gejs
  <2>8. GejAddVar(a, b) = AddFinite(a, a.z, b, 1, a.z)
    BY <2>6, <2>7, Zenon DEF GejAddVar
  <2>9. GejAddGeVar(a, ToGe(p)) = AddFinite(a, a.z, ToGe(p), 1, a.z)
    BY <2>6, Zenon DEF GejAddGeVar
  <2>10. AddFinite(a, a.z, b, 1, a.z) = AddFinite(a, a.z, ToGe(p), 1, a.z)
    BY <2>6, Zenon DEF AddFinite
  <2>11. QED
    BY <2>8, <2>9, <2>10 DEF b
<1>3. QED
  BY <1>1, <1>2

---------------------------------------------------------------------------
(* Division.                                                               *)

LEMMA DivUnique ==
    ASSUME NEW m \in Nat, m > 0, NEW q \in Int, NEW rest \in 0 .. m - 1
    PROVE  (q * m + rest) \div m = q /\ (q * m + rest) % m = rest
<1>1. PICK a \in Int : a = q * m + rest
  BY SMT
<1>2. PICK d \in Int, e \in 0 .. m - 1 : d = a \div m /\ e = a % m /\ a = d * m + e
  <2>1. a % m \in 0 .. m - 1
    BY SMT
  <2>2. a \div m \in Int /\ a = (a \div m) * m + (a % m)
    BY SMT
  <2>3. QED
    BY <2>1, <2>2
<1>3. (d - q) * m = rest - e
  BY <1>1, <1>2, SMT
<1>4. d - q \in Int /\ rest - e \in Int /\ rest - e < m /\ rest - e > -m
  BY <1>2
<1>5. ASSUME NEW k \in Int, NEW x \in Int, k * m = x, x < m, x > -m PROVE k = 0
  <2>1. CASE k >= 1
    <3>1. k * m >= m
      BY <2>1, SMT
    <3>2. QED
      BY <1>5, <3>1
  <2>2. CASE k <= -1
    <3>1. k * m <= -m
      BY <2>2, SMT
    <3>2. QED
      BY <1>5, <3>1
  <2>3. QED
    BY <2>1, <2>2
<1>6. d - q = 0
  BY <1>3, <1>4, <1>5
<1>7. d = q
  BY <1>6
<1>8. e = rest
  BY <1>1, <1>2, <1>7
<1>9. QED
  BY <1>1, <1>2, <1>7, <1>8

\* A quotient and a remainder are the ones found by division.
LEMMA Division ==
    ASSUME NEW m \in Nat, m > 0, NEW a \in Int
    PROVE  /\ a \div m \in Int /\ a % m \in 0 .. m - 1
           /\ a = (a \div m) * m + (a % m)
           /\ a \in Nat => a \div m \in Nat /\ a \div m <= a
<1>1. a % m \in 0 .. m - 1
  BY SMT
<1>2. a \div m \in Int /\ a = (a \div m) * m + (a % m)
  BY SMT
<1>3. PICK q \in Int, rest \in 0 .. m - 1 : q = a \div m /\ rest = a % m /\ a = q * m + rest
  BY <1>1, <1>2
<1>4. ASSUME a \in Nat PROVE q \in Nat /\ q <= a
  <2>1. ASSUME q <= -1 PROVE FALSE
    <3>1. q * m <= -m
      BY <2>1, SMT
    <3>2. QED
      BY <1>3, <1>4, <3>1
  <2>2. q \in Nat
    BY <2>1
  <2>3. q * m >= q
    BY <2>2, SMT
  <2>4. QED
    BY <1>3, <2>2, <2>3
<1>5. QED
  BY <1>1, <1>2, <1>3, <1>4

LEMMA DivisionBelow ==
    ASSUME NEW m \in Nat, m > 0, NEW k \in Nat, NEW a \in Nat, a < k * m
    PROVE  a \div m < k
<1>1. PICK q \in Nat, rest \in 0 .. m - 1 : q = a \div m /\ a = q * m + rest
  BY Division
<1>2. ASSUME q >= k PROVE FALSE
  <2>1. q * m >= k * m
    BY <1>2, SMT
  <2>2. k * m \in Nat
    BY SMT
  <2>3. QED
    BY <1>1, <2>1, <2>2
<1>3. QED
  BY <1>1, <1>2

\* Dividing twice.
LEMMA DivisionTwice ==
    ASSUME NEW m \in Nat, m > 0, NEW n \in Nat, n > 0, NEW a \in Nat
    PROVE  (a \div m) \div n = a \div (m * n)
<1>1. PICK q \in Nat, rest \in 0 .. m - 1 : q = a \div m /\ a = q * m + rest
  BY Division
<1>2. PICK t \in Nat, u \in 0 .. n - 1 : t = q \div n /\ q = t * n + u
  BY Division
<1>3. PICK k \in Nat : k = m * n /\ k > 0
  BY SMT
<1>4. PICK v \in Nat : v = u * m + rest
  BY SMT
<1>5. a = t * k + v
  <2>1. (t * n + u) * m = t * (m * n) + u * m
    BY SMT
  <2>2. QED
    BY <1>1, <1>2, <1>3, <1>4, <2>1
<1>6. v < k
  <2>1. u * m <= (n - 1) * m
    BY SMT
  <2>2. (n - 1) * m = k - m
    BY <1>3, SMT
  <2>3. u * m \in Nat
    BY SMT
  <2>4. QED
    BY <1>3, <1>4, <2>1, <2>2, <2>3
<1>7. a \div k = t
  BY <1>3, <1>5, <1>6, DivUnique
<1>8. QED
  BY <1>1, <1>2, <1>3, <1>7

---------------------------------------------------------------------------
(* Finite sums: SumTo(f, n) == f[0] + ... + f[n - 1].                      *)

\* S[i] is the sum of the first i values of f.
Partial(S, f, n) ==
    S \in [0 .. n -> Int] /\ S[0] = 0
    /\ \A i \in 0 .. n - 1 : S[i + 1] = S[i] + f[i]

\* The sum of f[0] .. f[n - 1].
SumTo(f, n) == (CHOOSE S : Partial(S, f, n))[n]

\* The partial sums exist and are unique.
LEMMA PartialExists ==
    ASSUME NEW f \in [Nat -> Int], NEW n \in Nat
    PROVE  Partial(CHOOSE S : Partial(S, f, n), f, n)
<1> DEFINE h == [i \in Nat |-> [v \in Int |-> v + f[i]]]
<1>1. h \in [Nat -> [Int -> Int]]
  OBVIOUS
<1>2. PICK S : Iterates(S, n, Int, 0, h)
  <2> HIDE DEF h
  <2>1. 0 \in Int
    OBVIOUS
  <2>2. QED
    BY <1>1, <2>1, Recursion
<1>3. Partial(S, f, n)
  <2>1. S \in [0 .. n -> Int] /\ S[0] = 0
    BY <1>2 DEF Iterates
  <2>2. ASSUME NEW i \in 0 .. n - 1 PROVE S[i + 1] = S[i] + f[i]
    <3>1. S[i] \in Int /\ i \in Nat
      BY <2>1
    <3>2. S[i + 1] = h[i][S[i]]
      <4> HIDE DEF h
      <4>1. QED
        BY <1>2 DEF Iterates
    <3>3. QED
      BY <3>1, <3>2
  <2>3. QED
    BY <2>1, <2>2 DEF Partial
<1>4. QED
  BY <1>3

LEMMA PartialUnique ==
    ASSUME NEW f, NEW m \in Nat, NEW n \in Nat, m <= n, NEW S, NEW T,
           Partial(S, f, m), Partial(T, f, n)
    PROVE  S[m] = T[m]
<1> DEFINE A == {i \in Nat : i <= m => S[i] = T[i]}
<1>1. 0 \in A
  BY DEF Partial
<1>2. ASSUME NEW i \in Nat, i \in A PROVE i + 1 \in A
  <2>1. SUFFICES ASSUME i + 1 <= m PROVE S[i + 1] = T[i + 1]
    OBVIOUS
  <2>2. i \in 0 .. m - 1 /\ i \in 0 .. n - 1 /\ i <= m
    BY <2>1
  <2>3. S[i + 1] = S[i] + f[i] /\ T[i + 1] = T[i] + f[i]
    BY <2>2 DEF Partial
  <2>4. QED
    BY <1>2, <2>2, <2>3
<1> HIDE DEF A
<1>3. \A i \in Nat : i \in A
  BY <1>1, <1>2, Induction
<1>4. QED
  BY <1>3 DEF A

LEMMA SumZero == ASSUME NEW f \in [Nat -> Int] PROVE SumTo(f, 0) = 0
BY PartialExists DEF SumTo, Partial

LEMMA SumStep ==
    ASSUME NEW f \in [Nat -> Int], NEW n \in Nat
    PROVE  SumTo(f, n) \in Int /\ SumTo(f, n + 1) = SumTo(f, n) + f[n]
<1> DEFINE S == CHOOSE S : Partial(S, f, n)
           T == CHOOSE T : Partial(T, f, n + 1)
<1>1. Partial(S, f, n) /\ Partial(T, f, n + 1)
  BY PartialExists, n + 1 \in Nat
<1>2. S[n] = SumTo(f, n) /\ T[n + 1] = SumTo(f, n + 1)
  BY DEF SumTo
<1> HIDE DEF S, T
<1>3. T[n + 1] = T[n] + f[n]
  BY <1>1 DEF Partial
<1>4. S[n] = T[n]
  BY <1>1, PartialUnique, n + 1 \in Nat, n <= n + 1
<1>5. S[n] \in Int
  BY <1>1 DEF Partial
<1>6. QED
  BY <1>2, <1>3, <1>4, <1>5

LEMMA SumInt ==
    ASSUME NEW f \in [Nat -> Int], NEW n \in Nat PROVE SumTo(f, n) \in Int
BY SumStep

LEMMA SumLinear ==
    ASSUME NEW f \in [Nat -> Int], NEW g \in [Nat -> Int], NEW h \in [Nat -> Int],
           NEW c \in Int, NEW n \in Nat,
           \A i \in 0 .. n - 1 : h[i] = f[i] + c * g[i]
    PROVE  SumTo(h, n) = SumTo(f, n) + c * SumTo(g, n)
<1> DEFINE A == {i \in Nat : i <= n => SumTo(h, i) = SumTo(f, i) + c * SumTo(g, i)}
<1>1. 0 \in A
  BY SumZero
<1>2. ASSUME NEW i \in Nat, i \in A PROVE i + 1 \in A
  <2>1. SUFFICES ASSUME i + 1 <= n
                 PROVE SumTo(h, i + 1) = SumTo(f, i + 1) + c * SumTo(g, i + 1)
    OBVIOUS
  <2>2. SumTo(h, i) = SumTo(f, i) + c * SumTo(g, i) /\ h[i] = f[i] + c * g[i]
    BY <1>2, <2>1
  <2>3. /\ SumTo(h, i + 1) = SumTo(h, i) + h[i] /\ SumTo(f, i + 1) = SumTo(f, i) + f[i]
        /\ SumTo(g, i + 1) = SumTo(g, i) + g[i]
    BY SumStep
  <2>4. PICK p \in Int, q \in Int, x \in Int, y \in Int :
            p = SumTo(f, i) /\ q = SumTo(g, i) /\ x = f[i] /\ y = g[i]
    BY SumStep
  <2>5. c * (q + y) = c * q + c * y
    BY SMT
  <2>6. QED
    <3>1. SumTo(h, i + 1) = p + c * q + (x + c * y)
      BY <2>2, <2>3, <2>4
    <3>2. SumTo(f, i + 1) + c * SumTo(g, i + 1) = (p + x) + c * (q + y)
      BY <2>3, <2>4
    <3>3. c * q \in Int /\ c * y \in Int
      BY SMT
    <3>4. QED
      BY <2>5, <3>1, <3>2, <3>3
<1> HIDE DEF A
<1>3. \A i \in Nat : i \in A
  BY <1>1, <1>2, Induction
<1>4. QED
  BY <1>3 DEF A

LEMMA SumEqual ==
    ASSUME NEW f \in [Nat -> Int], NEW g \in [Nat -> Int], NEW n \in Nat,
           \A i \in 0 .. n - 1 : f[i] = g[i]
    PROVE  SumTo(f, n) = SumTo(g, n)
<1>1. \A i \in 0 .. n - 1 : f[i] = g[i] + 0 * g[i]
  OBVIOUS
<1>2. SumTo(f, n) = SumTo(g, n) + 0 * SumTo(g, n)
  BY <1>1, SumLinear
<1>3. QED
  BY <1>2, SumInt

LEMMA SumOfZeros ==
    ASSUME NEW f \in [Nat -> Int], NEW n \in Nat, \A i \in 0 .. n - 1 : f[i] = 0
    PROVE  SumTo(f, n) = 0
<1>1. SumTo(f, n) = SumTo(f, n) + 1 * SumTo(f, n)
  <2>1. \A i \in 0 .. n - 1 : f[i] = f[i] + 1 * f[i]
    OBVIOUS
  <2>2. QED
    BY <2>1, SumLinear
<1>2. QED
  BY <1>1, SumInt

LEMMA SumScale ==
    ASSUME NEW g \in [Nat -> Int], NEW h \in [Nat -> Int], NEW c \in Int, NEW n \in Nat,
           \A i \in 0 .. n - 1 : h[i] = c * g[i]
    PROVE  SumTo(h, n) = c * SumTo(g, n)
<1> DEFINE o == [i \in Nat |-> 0]
<1>1. o \in [Nat -> Int] /\ \A i \in 0 .. n - 1 : o[i] = 0
  OBVIOUS
<1> HIDE DEF o
<1>2. \A i \in 0 .. n - 1 : h[i] = o[i] + c * g[i]
  <2> SUFFICES ASSUME NEW i \in 0 .. n - 1 PROVE h[i] = o[i] + c * g[i]
    OBVIOUS
  <2>1. h[i] \in Int /\ o[i] = 0 /\ h[i] = c * g[i]
    BY <1>1
  <2>2. QED
    BY <2>1
<1>3. SumTo(h, n) = SumTo(o, n) + c * SumTo(g, n)
  BY <1>1, <1>2, SumLinear
<1>4. SumTo(o, n) = 0
  BY <1>1, SumOfZeros
<1>5. SumTo(h, n) \in Int
  BY SumInt
<1>6. SumTo(g, n) \in Int
  BY SumInt
<1>7. c * SumTo(g, n) \in Int
  BY <1>6, SMT
<1>8. QED
  BY <1>3, <1>4, <1>5, <1>7

\* A sum in two parts.
LEMMA SumSplit ==
    ASSUME NEW f \in [Nat -> Int], NEW m \in Nat, NEW n \in Nat
    PROVE  SumTo(f, m + n) = SumTo(f, m) + SumTo([i \in Nat |-> f[m + i]], n)
<1> DEFINE g == [i \in Nat |-> f[m + i]]
           A == {i \in Nat : SumTo(f, m + i) = SumTo(f, m) + SumTo(g, i)}
<1>0. g \in [Nat -> Int]
  OBVIOUS
<1>1. 0 \in A
  <2>1. SumTo(g, 0) = 0
    BY <1>0, SumZero
  <2>2. m + 0 = m /\ SumTo(f, m) \in Int
    BY SumInt
  <2>3. QED
    BY <2>1, <2>2
<1>2. ASSUME NEW i \in Nat, i \in A PROVE i + 1 \in A
  <2>1. g[i] = f[m + i] /\ g[i] \in Int
    BY <1>0
  <2> HIDE DEF g
  <2>2. SumTo(g, i + 1) = SumTo(g, i) + g[i] /\ SumTo(g, i) \in Int
    BY <1>0, SumStep
  <2>3. SumTo(f, (m + i) + 1) = SumTo(f, m + i) + f[m + i] /\ SumTo(f, m) \in Int
    BY SumStep, m + i \in Nat
  <2>4. SumTo(f, m + i) = SumTo(f, m) + SumTo(g, i)
    BY <1>2
  <2>5. m + (i + 1) = (m + i) + 1
    OBVIOUS
  <2>6. SumTo(f, m + (i + 1)) = SumTo(f, m) + SumTo(g, i + 1)
    BY <2>1, <2>2, <2>3, <2>4, <2>5
  <2>7. QED
    BY <2>6
<1> HIDE DEF A, g
<1>3. \A i \in Nat : i \in A
  BY <1>1, <1>2, Induction
<1>4. QED
  BY <1>3 DEF A, g

---------------------------------------------------------------------------
(* The multiples of G: the scalars name all points, and G has order N.     *)

\* What Times[k] is made of.
Doubled(f, k) == IF k = 0 THEN Infinity
                 ELSE LET half == f[k \div 2]
                          even == PointAdd(half, half)
                      IN  IF k % 2 = 0 THEN even ELSE PointAdd(even, G)

\* The multiples of G exist: the recursion of Times ends.
LEMMA TimesExists ==
    ASSUME NEW n \in Nat
    PROVE  \E f : f = [k \in 0 .. n |-> Doubled(f, k)]
<1> DEFINE S == {i \in Nat : \E f : f = [k \in 0 .. i |-> Doubled(f, k)]}
<1>0. ASSUME NEW i \in Nat, NEW k \in 0 .. i, k # 0
      PROVE  k \div 2 \in 0 .. i /\ k \div 2 < k
  BY <1>0, SMT
<1>1. 0 \in S
  <2>1. [k \in 0 .. 0 |-> Infinity] = [k \in 0 .. 0 |-> Doubled([j \in 0 .. 0 |-> Infinity], k)]
    BY DEF Doubled
  <2>2. QED
    BY <2>1
<1>2. ASSUME NEW i \in Nat, i \in S PROVE i + 1 \in S
  <2>1. PICK f : f = [k \in 0 .. i |-> Doubled(f, k)]
    BY <1>2
  <2> DEFINE g == [k \in 0 .. i + 1 |-> IF k = i + 1 THEN Doubled(f, k) ELSE f[k]]
  <2>2. ASSUME NEW k \in 0 .. i + 1 PROVE Doubled(g, k) = Doubled(f, k)
    <3>1. CASE k = 0
      BY <3>1 DEF Doubled
    <3>2. CASE k # 0
      <4>1. k \div 2 \in 0 .. i + 1 /\ k \div 2 < k /\ k \div 2 # i + 1
        BY <1>0, <3>2, i + 1 \in Nat
      <4>2. g[k \div 2] = f[k \div 2]
        BY <4>1
      <4> HIDE DEF g
      <4>3. QED
        BY <4>2 DEF Doubled
    <3>3. QED
      BY <3>1, <3>2
  <2>3. ASSUME NEW k \in 0 .. i + 1 PROVE g[k] = Doubled(f, k)
    <3>1. CASE k = i + 1
      BY <3>1
    <3>2. CASE k # i + 1
      <4>1. k \in 0 .. i /\ g[k] = f[k]
        BY <3>2
      <4> HIDE DEF g
      <4>2. f[k] = Doubled(f, k)
        BY <2>1, <4>1
      <4>3. QED
        BY <4>1, <4>2
    <3>3. QED
      BY <3>1, <3>2
  <2>4. g = [k \in 0 .. i + 1 |-> g[k]]
    OBVIOUS
  <2> HIDE DEF g
  <2>5. g = [k \in 0 .. i + 1 |-> Doubled(g, k)]
    BY <2>2, <2>3, <2>4
  <2>6. i + 1 \in Nat
    OBVIOUS
  <2>7. QED
    BY <2>5, <2>6
<1> HIDE DEF S
<1>3. \A i \in Nat : i \in S
  BY <1>1, <1>2, Induction
<1>4. QED
  BY <1>3 DEF S

LEMMA TimesStep == ASSUME NEW k \in Scalars PROVE Times[k] = Doubled(Times, k)
<1>1. N - 1 \in Nat /\ Scalars = 0 .. N - 1
  BY Sizes DEF Scalars
<1>2. PICK f : f = [j \in Scalars |-> Doubled(f, j)]
  BY <1>1, TimesExists
<1>3. Times = CHOOSE t : t = [j \in Scalars |-> Doubled(t, j)]
  BY DEF Times, Doubled
<1>4. Times = [j \in Scalars |-> Doubled(Times, j)]
  BY <1>2, <1>3
<1>5. QED
  BY <1>4

LEMMA GeneratorIsOne ==
    /\ 1 \in Scalars /\ G = Times[1] /\ G \in Points /\ G # Infinity /\ Log[G] = 1
<1>1. 1 \in Scalars /\ 0 \in Scalars
  BY Sizes DEF Scalars
<1>2. Times[0] = Infinity
  BY <1>1, TimesStep DEF Doubled
<1>3. 1 \div 2 = 0 /\ 1 % 2 = 1
  BY SMT
<1>4. PointAdd(Infinity, Infinity) = Infinity /\ PointAdd(Infinity, G) = G
  BY DEF PointAdd
<1>5. Times[1] = G
  BY <1>1, <1>2, <1>3, <1>4, TimesStep DEF Doubled
<1>6. G \in Points
  BY <1>1, <1>5, TimesPoint
<1>7. G # Infinity
  BY <1>1, <1>2, <1>5, GeneratorAssumption
<1>8. QED
  BY <1>1, <1>5, <1>6, <1>7, LogTimes

\* The multiple of G by any integer.
TimesOf(x) == Times[x % N]

\* N times G is the point at infinity, and no sooner.
LEMMA Order ==
    N \in Nat /\ N > 3 /\ N > 0 /\ Scalars = 0 .. N - 1 /\ Scalars \subseteq Int
BY Sizes DEF Scalars

LEMMA TimesOfPoint == ASSUME NEW x \in Int PROVE TimesOf(x) \in Points /\ x % N \in Scalars
BY Order, DivisionOf, TimesPoint DEF TimesOf

LEMMA TimesOfCong ==
    ASSUME NEW x \in Int, NEW y \in Int
    PROVE  TimesOf(x) = TimesOf(y) <=> Cong(N, x, y)
<1>1. x % N \in Scalars /\ y % N \in Scalars
  BY TimesOfPoint
<1>2. TimesOf(x) = TimesOf(y) <=> x % N = y % N
  BY <1>1, GeneratorAssumption DEF TimesOf
<1>3. QED
  BY <1>2, Order, CongEqual, Zenon

LEMMA TimesOfScalar == ASSUME NEW k \in Scalars PROVE TimesOf(k) = Times[k] /\ k % N = k
BY Order, SMT DEF TimesOf

LEMMA TimesOfAdd ==
    ASSUME NEW x \in Int, NEW y \in Int
    PROVE  PointAdd(TimesOf(x), TimesOf(y)) = TimesOf(x + y)
<1>1. PICK s \in Scalars, t \in Scalars : s = x % N /\ t = y % N
  BY TimesOfPoint
<1>2. PointAdd(TimesOf(x), TimesOf(y)) = Times[(s + t) % N]
  BY <1>1, GeneratorAssumption DEF TimesOf
<1>3. s \in Int /\ t \in Int /\ s + t \in Int /\ x + y \in Int
  BY Order
<1>4. Cong(N, s, x) /\ Cong(N, t, y)
  BY <1>1, Order, CongMod, Zenon
<1>5. Cong(N, s + t, x + y)
  BY <1>3, <1>4, Order, CongAdd, Zenon
<1>6. (s + t) % N = (x + y) % N
  BY <1>3, <1>5, Order, CongEqual, Zenon
<1>7. QED
  BY <1>2, <1>6 DEF TimesOf

LEMMA TimesOfNeg == ASSUME NEW x \in Int PROVE PointNeg(TimesOf(x)) = TimesOf(-x)
<1>1. PICK s \in Scalars : s = x % N
  BY TimesOfPoint
<1>2. PointNeg(TimesOf(x)) = Times[(-s) % N]
  BY <1>1, NegTimes DEF TimesOf
<1>3. s \in Int /\ -s \in Int /\ -x \in Int
  BY Order
<1>4. Cong(N, s, x)
  BY <1>1, Order, CongMod, Zenon
<1>5. Cong(N, -s, -x)
  BY <1>3, <1>4, Order, CongNeg, Zenon
<1>6. (-s) % N = (-x) % N
  BY <1>3, <1>5, Order, CongEqual, Zenon
<1>7. QED
  BY <1>2, <1>6 DEF TimesOf

LEMMA TimesOfLog == ASSUME NEW p \in Points PROVE Log[p] \in Int /\ TimesOf(Log[p]) = p
BY LogPoint, TimesOfScalar, Order

LEMMA TimesOfZero ==
    /\ TimesOf(0) = Infinity
    /\ \A x \in Int : TimesOf(x) = Infinity <=> Cong(N, x, 0)
<1>1. TimesOf(0) = Infinity
  BY InfinityIsZero, TimesOfScalar
<1>2. QED
  BY <1>1, TimesOfCong

LEMMA TimesOfOne == TimesOf(1) = G
BY GeneratorIsOne, TimesOfScalar

---------------------------------------------------------------------------
(* Jacobian points, also on the curve isomorphic by Z, as multiples of G.  *)

\* On the isomorphic curve of Z, a stands for x*G.
Rep(Z, a, x) == a \in Gejs /\ Stands(On(Z, a), TimesOf(x))

\* The affine entry e of a table on that curve stands for x*G.
Entry(Z, e, x) ==
    /\ e.x \in Field /\ e.y \in Field /\ e.infinity = FALSE
    /\ Stands(Gej(e.x, e.y, Z), TimesOf(x))

LEMMA RepIsStands ==
    ASSUME NEW a, NEW x
    PROVE  Rep(1, a, x) <=> Stands(a, TimesOf(x))
<1>1. a \in Gejs => On(1, a) = a
  BY OnItself
<1>2. Stands(a, TimesOf(x)) => a \in Gejs
  BY DEF Stands
<1>3. QED
  BY <1>1, <1>2 DEF Rep

\* Only the multiple modulo N matters.
LEMMA RepCong ==
    ASSUME NEW Z, NEW a, NEW x \in Int, NEW y \in Int, Rep(Z, a, x), Cong(N, x, y)
    PROVE  Rep(Z, a, y)
<1>1. TimesOf(x) = TimesOf(y)
  BY TimesOfCong
<1>2. QED
  BY <1>1 DEF Rep

LEMMA OnGejs == ASSUME NEW Z \in Field, NEW a \in Gejs PROVE On(Z, a) \in Gejs
<1>1. a.z \in Int /\ Z \in Int
  BY Prime DEF Gejs
<1>2. a.z * Z \in Int
  BY <1>1, SMT
<1>3. F(a.z * Z) \in Field
  BY <1>2, InField
<1>4. QED
  BY <1>3 DEF On, Gejs

LEMMA OffGejs ==
    ASSUME NEW Z, NEW u, NEW v, NEW z \in Field, NEW i,
           \/ On(Z, Gej(u, v, z)) \in Gejs /\ i = FALSE
           \/ On(Z, [x |-> u, y |-> v, z |-> z, infinity |-> i]) \in Gejs
    PROVE  [x |-> u, y |-> v, z |-> z, infinity |-> i] \in Gejs
BY DEF On, Gej, Gejs

LEMMA OnZ ==
    ASSUME NEW Z \in Int, NEW v \in Int, NEW w \in Int
    PROVE  /\ F(F(v * w) * Z) = F(F(v * Z) * w) /\ F(F(v * w) * Z) \in Field
           /\ F(F(2 * v * w) * Z) = F(2 * F(v * Z) * w)
<1>1. /\ Is(F(v * w), v * w) /\ Is(F(v * Z), v * Z) /\ Is(Z, Z) /\ Is(w, w)
  BY IsItself, IsProduct, Zenon
<1>2. /\ Is(F(F(v * w) * Z), (v * w) * Z) /\ F(F(v * w) * Z) \in Field
      /\ Is(F(F(v * Z) * w), (v * Z) * w) /\ F(F(v * Z) * w) \in Field
  BY <1>1, IsProduct, Zenon
<1>3. Is(2 * v, 2 * v) /\ 2 * v \in Int
  BY IsItself
<1>4. Is(F(2 * v * w), (2 * v) * w)
  BY <1>1, <1>3, IsProduct, Zenon
<1>5. Is(F(F(2 * v * w) * Z), ((2 * v) * w) * Z) /\ F(F(2 * v * w) * Z) \in Field
  BY <1>1, <1>4, IsProduct, Zenon
<1>6. Is(2 * F(v * Z), 2 * (v * Z))
  BY <1>1, IsTimes, 2 \in Int, Zenon
<1>7. Is(F(2 * F(v * Z) * w), (2 * (v * Z)) * w) /\ F(2 * F(v * Z) * w) \in Field
  BY <1>1, <1>6, IsProduct, Zenon
<1>8. (v * w) * Z = (v * Z) * w /\ ((2 * v) * w) * Z = (2 * (v * Z)) * w
  BY SMT
<1>9. QED
  BY <1>2, <1>5, <1>7, <1>8, IsUnique

\* The formulas on the isomorphic curve are those of the curve.
LEMMA OnDouble ==
    ASSUME NEW Z \in Field, NEW a \in Gejs
    PROVE  On(Z, GejDouble(a)) = GejDouble(On(Z, a))
<1>1. a.z \in Int /\ a.y \in Int /\ Z \in Int
  BY Prime DEF Gejs
<1>2. /\ On(Z, a).x = a.x /\ On(Z, a).y = a.y /\ On(Z, a).z = F(a.z * Z)
      /\ On(Z, a).infinity = a.infinity
  BY DEF On
<1>3. CASE a.infinity
  BY <1>2, <1>3 DEF GejDouble, Flagged, On
<1>4. CASE ~a.infinity
  <2>1. F(F(2 * a.z * a.y) * Z) = F(2 * F(a.z * Z) * a.y)
    BY <1>1, OnZ
  <2>2. PICK x, y : /\ GejDouble(a) = Gej(x, y, F(2 * a.z * a.y))
                    /\ GejDouble(On(Z, a)) = Gej(x, y, F(2 * F(a.z * Z) * a.y))
    BY <1>2, <1>4 DEF GejDouble
  <2>3. On(Z, Gej(x, y, F(2 * a.z * a.y))) = Gej(x, y, F(2 * F(a.z * Z) * a.y))
    BY <2>1 DEF On, Gej
  <2>4. QED
    BY <2>2, <2>3
<1>5. QED
  BY <1>3, <1>4

LEMMA OnAddFinite ==
    ASSUME NEW Z \in Field, NEW a \in Gejs, NEW az \in Field, NEW e,
           e.x \in Field, e.y \in Field
    PROVE  On(Z, AddFinite(a, az, e, 1, a.z))
               = AddFinite(On(Z, a), az, e, 1, F(a.z * Z))
<1> DEFINE u1 == F(a.x * Sqr(1))
           u2 == F(e.x * Sqr(az))
           s1 == F(F(a.y * Sqr(1)) * 1)
           s2 == F(F(e.y * Sqr(az)) * az)
           h  == F(u2 - u1)
           i  == F(s2 - s1)
<1>1. a.x \in Int /\ a.z \in Int /\ a.y \in Int /\ Z \in Int /\ az \in Int /\ e.x \in Int
  BY Prime DEF Gejs
<1>2. /\ On(Z, a).x = a.x /\ On(Z, a).y = a.y
  BY DEF On
<1>3. h \in Int
  <2>1. u1 \in Int /\ u2 \in Int
    <3>1. Is(1, 1) /\ Is(a.x, a.x) /\ Is(az, az) /\ Is(e.x, e.x)
      BY <1>1, IsItself
    <3>2. u1 \in Field /\ u2 \in Field
      BY <3>1, IsTimesSqr, Zenon
    <3> HIDE DEF u1, u2
    <3>3. QED
      BY <3>2, Prime
  <2> HIDE DEF u1, u2
  <2>2. QED
    BY <2>1, InField
<1>4. AddFinite(a, az, e, 1, a.z) =
          CASE h # 0 -> Chord(h, i, u1, s1, F(a.z * h))
            [] h = 0 /\ i = 0 -> GejDouble(a)
            [] OTHER -> Flagged(a)
  BY Zenon DEF AddFinite
<1>5. AddFinite(On(Z, a), az, e, 1, F(a.z * Z)) =
          CASE h # 0 -> Chord(h, i, u1, s1, F(F(a.z * Z) * h))
            [] h = 0 /\ i = 0 -> GejDouble(On(Z, a))
            [] OTHER -> Flagged(On(Z, a))
  BY <1>2, Zenon DEF AddFinite
<1> HIDE DEF u1, u2, s1, s2, h, i
<1>6. CASE h # 0
  <2>1. F(F(a.z * h) * Z) = F(F(a.z * Z) * h)
    BY <1>1, <1>3, OnZ
  <2>2. PICK x, y : /\ Chord(h, i, u1, s1, F(a.z * h)) = Gej(x, y, F(a.z * h))
                    /\ Chord(h, i, u1, s1, F(F(a.z * Z) * h)) = Gej(x, y, F(F(a.z * Z) * h))
    BY DEF Chord
  <2>3. On(Z, Gej(x, y, F(a.z * h))) = Gej(x, y, F(F(a.z * Z) * h))
    BY <2>1 DEF On, Gej
  <2>4. QED
    BY <1>4, <1>5, <1>6, <2>2, <2>3
<1>7. CASE h = 0 /\ i = 0
  BY <1>4, <1>5, <1>7, OnDouble
<1>8. CASE h = 0 /\ i # 0
  <2>1. On(Z, Flagged(a)) = Flagged(On(Z, a))
    BY DEF On, Flagged
  <2>2. QED
    BY <1>4, <1>5, <1>8, <2>1
<1>9. QED
  BY <1>6, <1>7, <1>8

LEMMA EntryFacts ==
    ASSUME NEW Z, NEW e, NEW x, Entry(Z, e, x), Z \in Field, x \in Int
    PROVE  /\ Z \in Int /\ Z # 0 /\ e.x \in Field /\ e.y \in Field /\ e.infinity = FALSE
           /\ \E p1, p2 \in Field :
                 /\ TimesOf(x) = <<p1, p2>> /\ TimesOf(x) \in Points
                 /\ Is(e.x, p1 * (Z * Z)) /\ Is(e.y, p2 * (Z * Z * Z))
<1>1. /\ Gej(e.x, e.y, Z).x = e.x /\ Gej(e.x, e.y, Z).y = e.y
      /\ Gej(e.x, e.y, Z).z = Z /\ Gej(e.x, e.y, Z).infinity = FALSE
  BY DEF Gej
<1>2. Z # 0 /\ e.x \in Field /\ e.y \in Field /\ e.infinity = FALSE
  BY <1>1 DEF Entry, Stands
<1>3. PICK p1 \in Field, p2 \in Field :
          /\ TimesOf(x) = <<p1, p2>> /\ TimesOf(x) \in Points
          /\ Is(e.x, p1 * (Z * Z)) /\ Is(e.y, p2 * (Z * Z * Z))
  BY <1>1, StandsFor, Zenon DEF Entry
<1>4. QED
  BY <1>2, <1>3, Prime

LEMMA RepInfinity ==
    ASSUME NEW Z \in Field, NEW x \in Int, Cong(N, x, 0), NEW a \in Gejs, a.infinity
    PROVE  Rep(Z, a, x)
<1>1. On(Z, a) \in Gejs /\ On(Z, a).infinity
  BY OnGejs DEF On
<1>2. TimesOf(x) = Infinity
  BY TimesOfZero
<1>3. QED
  BY <1>1, <1>2, InfinityIsZero DEF Rep, Stands

LEMMA RepOfInfinity ==
    ASSUME NEW Z, NEW a, NEW x \in Int, Rep(Z, a, x), a.infinity
    PROVE  Cong(N, x, 0)
<1>1. On(Z, a).infinity
  BY DEF On
<1>2. TimesOf(x) = Infinity
  BY <1>1 DEF Rep, Stands
<1>3. QED
  BY <1>2, TimesOfZero

LEMMA RepNothing == ASSUME NEW Z \in Field PROVE Rep(Z, GejSetInfinity, 0)
<1>1. GejSetInfinity \in Gejs /\ GejSetInfinity.infinity
  BY InfinityStands DEF Stands, GejSetInfinity
<1>2. Cong(N, 0, 0)
  BY Order, CongRefl
<1>3. 0 \in Int
  OBVIOUS
<1>4. QED
  BY <1>1, <1>2, <1>3, RepInfinity, Zenon

\* gej_double, by the multiples.
LEMMA RepDouble ==
    ASSUME NEW Z \in Field, NEW a, NEW x \in Int, Rep(Z, a, x)
    PROVE  Rep(Z, GejDouble(a), 2 * x)
<1>1. a \in Gejs /\ Stands(On(Z, a), TimesOf(x)) /\ x + x = 2 * x
  BY DEF Rep
<1>2. On(Z, GejDouble(a)) = GejDouble(On(Z, a))
  BY <1>1, OnDouble
<1>3. On(Z, a).infinity = a.infinity
  BY DEF On
<1>4. CASE a.infinity
  <2>1. GejDouble(a) = Flagged(a) /\ Flagged(a) \in Gejs /\ Flagged(a).infinity
    BY <1>1, <1>4 DEF GejDouble, Flagged, Gejs
  <2>2. Cong(N, x, 0)
    BY <1>4, RepOfInfinity
  <2>3. Cong(N, x + x, 0 + 0)
    <3>1. 0 \in Int
      OBVIOUS
    <3>2. QED
      BY <2>2, <3>1, Order, CongAdd, Zenon
  <2>4. Cong(N, 2 * x, 0) /\ 2 * x \in Int
    BY <1>1, <2>3
  <2>5. QED
    BY <2>1, <2>4, RepInfinity
<1>5. CASE ~a.infinity
  <2>1. Stands(On(Z, GejDouble(a)), PointAdd(TimesOf(x), TimesOf(x)))
    BY <1>1, <1>2, <1>3, <1>5, DoubleStands
  <2>2. Stands(On(Z, GejDouble(a)), TimesOf(2 * x))
    BY <1>1, <2>1, TimesOfAdd
  <2>3. GejDouble(a) \in Gejs
    <3>1. PICK u, v : GejDouble(a) = Gej(u, v, F(2 * a.z * a.y))
      BY <1>5 DEF GejDouble
    <3>2. On(Z, GejDouble(a)) \in Gejs
      BY <2>2 DEF Stands
    <3>3. F(2 * a.z * a.y) \in Field
      <4>1. a.z \in Int /\ a.y \in Int
        BY <1>1, Prime DEF Gejs
      <4>2. 2 * a.z * a.y \in Int
        BY <4>1, SMT
      <4>3. QED
        BY <4>2, InField
    <3>4. QED
      BY <3>1, <3>2, <3>3, OffGejs DEF Gej
  <2>4. QED
    BY <2>2, <2>3 DEF Rep
<1>6. QED
  BY <1>4, <1>5

LEMMA RepAddFinite ==
    ASSUME NEW Z \in Field, NEW a, NEW x \in Int, Rep(Z, a, x), ~a.infinity,
           NEW y \in Int, NEW p1 \in Field, NEW p2 \in Field, TimesOf(y) = <<p1, p2>>,
           NEW az \in Field, NEW e, e.x \in Field, e.y \in Field, NEW w \in Field,
           w = F(a.z * Z),
           Is(F(e.x * Sqr(az)), p1 * (w * w)),
           Is(F(F(e.y * Sqr(az)) * az), p2 * (w * w * w))
    PROVE  Rep(Z, AddFinite(a, az, e, 1, a.z), x + y)
<1>1. /\ a \in Gejs /\ Stands(On(Z, a), TimesOf(x)) /\ On(Z, a).z = w
      /\ On(Z, a).infinity = a.infinity /\ <<p1, p2>> \in Points
  BY TimesOfPoint DEF Rep, On
<1>2. Stands(AddFinite(On(Z, a), az, e, 1, On(Z, a).z), PointAdd(TimesOf(x), <<p1, p2>>))
  BY <1>1, AddAffineStands, Zenon
<1> DEFINE s == AddFinite(a, az, e, 1, a.z)
<1>3. On(Z, s) = AddFinite(On(Z, a), az, e, 1, w)
  <2>1. On(Z, s) = AddFinite(On(Z, a), az, e, 1, F(a.z * Z))
    BY <1>1, OnAddFinite, Zenon
  <2>2. QED
    BY <2>1, Zenon
<1>4. Stands(On(Z, s), TimesOf(x + y))
  BY <1>1, <1>2, <1>3, TimesOfAdd, Zenon
<1>5. s \in Gejs
  <2>0. a.x \in Int /\ a.z \in Int /\ az \in Int /\ e.x \in Int
    BY <1>1, Prime DEF Gejs
  <2>1. PICK h, i, u, v :
            /\ h = F(F(e.x * Sqr(az)) - F(a.x * Sqr(1)))
            /\ s = CASE h # 0 -> Chord(h, i, u, v, F(a.z * h))
                     [] h = 0 /\ i = 0 -> GejDouble(a)
                     [] OTHER -> Flagged(a)
    BY Zenon DEF AddFinite
  <2> HIDE DEF s
  <2>2. CASE h # 0
    <3>1. PICK u2, v2 : Chord(h, i, u, v, F(a.z * h)) = Gej(u2, v2, F(a.z * h))
      BY DEF Chord
    <3>2. h \in Int
      <4>1. Is(1, 1) /\ Is(a.x, a.x) /\ Is(az, az) /\ Is(e.x, e.x)
        BY <2>0, IsItself
      <4>2. F(e.x * Sqr(az)) \in Int /\ F(a.x * Sqr(1)) \in Int
        BY <4>1, IsTimesSqr, Prime
      <4>3. QED
        BY <2>1, <4>2, InField
    <3>3. F(a.z * h) \in Field
      <4>1. a.z * h \in Int
        BY <2>0, <3>2, SMT
      <4>2. QED
        BY <4>1, InField
    <3>4. s = Gej(u2, v2, F(a.z * h))
      BY <2>1, <2>2, <3>1
    <3>5. On(Z, Gej(u2, v2, F(a.z * h))) \in Gejs
      BY <1>4, <3>4 DEF Stands
    <3>6. QED
      BY <3>3, <3>4, <3>5, OffGejs DEF Gej
  <2>3. CASE h = 0 /\ i = 0
    BY <1>1, <2>1, <2>3, RepDouble DEF Rep
  <2>4. CASE h = 0 /\ i # 0
    BY <1>1, <2>1, <2>4 DEF Flagged, Gejs
  <2>5. QED
    BY <2>2, <2>3, <2>4
<1>6. QED
  BY <1>4, <1>5 DEF Rep

LEMMA RepOfEntry ==
    ASSUME NEW Z \in Field, NEW e, NEW x \in Int, Entry(Z, e, x)
    PROVE  Rep(Z, GejSetGe(e), x)
<1>1. Z \in Int /\ Z # 0 /\ e.x \in Field /\ e.y \in Field /\ e.infinity = FALSE
  BY EntryFacts
<1>2. 1 \in Field /\ 1 * Z = Z /\ F(Z) = Z
  BY <1>1, Prime, FieldFixed
<1>3. GejSetGe(e) = [x |-> e.x, y |-> e.y, z |-> 1, infinity |-> FALSE]
  BY <1>1 DEF GejSetGe
<1>4. GejSetGe(e) \in Gejs
  BY <1>1, <1>2, <1>3 DEF Gejs
<1>5. On(Z, GejSetGe(e)) = Gej(e.x, e.y, Z)
  <2>1. PICK g : g = GejSetGe(e)
    OBVIOUS
  <2>2. g.x = e.x /\ g.y = e.y /\ g.z = 1 /\ g.infinity = FALSE
    BY <1>3, <2>1
  <2>3. F(g.z * Z) = Z
    BY <1>2, <2>2
  <2>4. On(Z, g) = Gej(e.x, e.y, Z)
    BY <2>2, <2>3, Zenon DEF On, Gej
  <2>5. QED
    BY <2>1, <2>4
<1>6. QED
  BY <1>4, <1>5 DEF Rep, Entry

\* gej_add_ge_var with an entry of a table.
LEMMA RepAddGeVar ==
    ASSUME NEW Z \in Field, NEW a, NEW x \in Int, Rep(Z, a, x),
           NEW e, NEW y \in Int, Entry(Z, e, y)
    PROVE  Rep(Z, GejAddGeVar(a, e), x + y)
<1>1. Z \in Int /\ Z # 0 /\ e.x \in Field /\ e.y \in Field /\ e.infinity = FALSE
  BY EntryFacts
<1>2. CASE a.infinity
  <2>1. Cong(N, x, 0) /\ Cong(N, y, y)
    BY <1>2, RepOfInfinity, Order, CongRefl
  <2>2. 0 \in Int /\ 0 + y = y /\ x + y \in Int
    OBVIOUS
  <2>3. Cong(N, x + y, 0 + y)
    BY <2>1, <2>2, Order, CongAdd, Zenon
  <2>4. Cong(N, y, x + y)
    BY <2>2, <2>3, Order, CongSym
  <2>5. Rep(Z, GejSetGe(e), y)
    BY RepOfEntry
  <2>6. Rep(Z, GejSetGe(e), x + y)
    BY <2>2, <2>4, <2>5, RepCong
  <2>7. QED
    BY <1>2, <2>6 DEF GejAddGeVar
<1>3. CASE ~a.infinity
  <2>1. PICK p1 \in Field, p2 \in Field :
            /\ TimesOf(y) = <<p1, p2>>
            /\ Is(e.x, p1 * (Z * Z)) /\ Is(e.y, p2 * (Z * Z * Z))
    BY EntryFacts
  <2>2. a.z \in Field /\ a.z \in Int
    BY Prime DEF Rep, Gejs
  <2>3. PICK v \in Field : v = a.z /\ v \in Int
    BY <2>2
  <2>4. PICK w \in Field : w = F(a.z * Z) /\ Is(v * Z, w) /\ w \in Int
    <3>1. Is(v, v) /\ Is(Z, Z)
      BY <1>1, <2>3, IsItself
    <3>2. Is(F(v * Z), v * Z) /\ F(v * Z) \in Field
      BY <3>1, IsProduct, Zenon
    <3>3. QED
      BY <2>3, <3>2, IsSym, Prime
  <2>5. p1 \in Int /\ p2 \in Int /\ Is(p1, p1) /\ Is(p2, p2) /\ Is(v, v)
    BY <2>3, Prime, IsItself
  <2>6. Is(F(e.x * Sqr(v)), p1 * (w * w))
    <3>1. Is(F(e.x * Sqr(v)), (p1 * (Z * Z)) * (v * v))
      BY <2>1, <2>5, IsTimesSqr, Zenon
    <3>2. Is(p1 * ((v * Z) * (v * Z)), p1 * (w * w))
      BY <2>4, <2>5, IsMul, Zenon
    <3>3. (p1 * (Z * Z)) * (v * v) = p1 * ((v * Z) * (v * Z))
      BY <1>1, <2>3, <2>5, SMT
    <3>4. QED
      BY <3>1, <3>2, <3>3, IsTrans, Zenon
  <2>7. Is(F(F(e.y * Sqr(v)) * v), p2 * (w * w * w))
    <3>1. Is(F(F(e.y * Sqr(v)) * v), (p2 * (Z * Z * Z)) * (v * v * v))
      BY <2>1, <2>5, IsTimesCube, Zenon
    <3>2. Is(p2 * ((v * Z) * (v * Z) * (v * Z)), p2 * (w * w * w))
      BY <2>4, <2>5, IsMul, Zenon
    <3>3. (p2 * (Z * Z * Z)) * (v * v * v) = p2 * ((v * Z) * (v * Z) * (v * Z))
      BY <1>1, <2>3, <2>5, SMT
    <3>4. QED
      BY <3>1, <3>2, <3>3, IsTrans, Zenon
  <2>8. Rep(Z, AddFinite(a, v, e, 1, a.z), x + y)
    BY <1>1, <1>3, <2>1, <2>4, <2>6, <2>7, RepAddFinite, Zenon
  <2>9. GejAddGeVar(a, e) = AddFinite(a, a.z, e, 1, a.z)
    BY <1>1, <1>3 DEF GejAddGeVar
  <2>10. QED
    BY <2>3, <2>8, <2>9
<1>4. QED
  BY <1>2, <1>3

LEMMA EntryNeg ==
    ASSUME NEW Z \in Field, NEW e, NEW x \in Int, Entry(Z, e, x)
    PROVE  Entry(Z, GeNeg(e), -x)
<1>1. Z \in Int /\ Z # 0 /\ e.x \in Field /\ e.y \in Field /\ e.infinity = FALSE
  BY EntryFacts
<1>2. GeNeg(e).x = e.x /\ GeNeg(e).y = F(-e.y) /\ GeNeg(e).infinity = FALSE
  BY <1>1 DEF GeNeg
<1>3. F(-e.y) \in Field
  <2>1. -e.y \in Int
    BY <1>1, Prime
  <2>2. QED
    BY <2>1, InField
<1>4. GejNeg(Gej(e.x, e.y, Z)) = Gej(e.x, F(-e.y), Z)
  BY DEF GejNeg, Gej
<1>5. Stands(GejNeg(Gej(e.x, e.y, Z)), PointNeg(TimesOf(x)))
  BY NegStands DEF Entry
<1>6. QED
  BY <1>1, <1>2, <1>3, <1>4, <1>5, TimesOfNeg DEF Entry

\* gej_add_ge with an entry of a table.
LEMMA RepAddGe ==
    ASSUME NEW Z \in Field, NEW a, NEW x \in Int, Rep(Z, a, x),
           NEW e, NEW y \in Int, Entry(Z, e, y)
    PROVE  Rep(Z, GejAddGe(a, e), x + y)
<1>1. Z \in Int /\ Z # 0 /\ e.x \in Field /\ e.y \in Field /\ e.infinity = FALSE
  BY EntryFacts
<1>2. CASE a.infinity
  <2>1. GejAddGe(a, e) = GejAddGeVar(a, e)
    BY <1>2 DEF GejAddGe, GejAddGeVar
  <2>2. QED
    BY <2>1, RepAddGeVar
<1>3. CASE ~a.infinity
  <2>1. a \in Gejs /\ Stands(On(Z, a), TimesOf(x)) /\ Stands(Gej(e.x, e.y, Z), TimesOf(y))
    BY DEF Rep, Entry
  <2>2. Stands(On(Z, GejAddGe(a, e)), PointAdd(TimesOf(x), TimesOf(y)))
    BY <1>3, <2>1, AddGeOn, Zenon
  <2>3. Stands(On(Z, GejAddGe(a, e)), TimesOf(x + y))
    BY <2>2, TimesOfAdd
  <2>4. GejAddGe(a, e) \in Gejs
    <3> DEFINE u2 == F(e.x * Sqr(a.z))
               s2 == F(F(e.y * Sqr(a.z)) * a.z)
               m == F(a.y + s2)
               rr == F(Sqr(F(a.x + u2)) - a.x * u2)
               mAlt == IF m = 0 /\ rr = 0 THEN F(a.x - u2) ELSE m
    <3>1. PICK u, v, i : GejAddGe(a, e) = [x |-> u, y |-> v, z |-> F(2 * F(a.z * mAlt)),
                                           infinity |-> i]
      BY <1>3, Zenon DEF GejAddGe
    <3>2. a.x \in Int /\ a.y \in Int /\ a.z \in Int /\ e.x \in Int /\ e.y \in Int
      BY <1>1, <2>1, Prime DEF Gejs
    <3>3. u2 \in Int /\ s2 \in Int
      BY <3>2, IsItself, IsTimesSqr, IsTimesCube, Prime
    <3> HIDE DEF u2, s2, rr
    <3>4. mAlt \in Int
      BY <3>2, <3>3, InField
    <3> HIDE DEF mAlt
    <3>5. F(2 * F(a.z * mAlt)) \in Field
      <4>1. a.z * mAlt \in Int
        BY <3>2, <3>4, SMT
      <4>2. 2 * F(a.z * mAlt) \in Int
        BY <4>1, InField
      <4>3. QED
        BY <4>2, InField
    <3>6. On(Z, GejAddGe(a, e)) \in Gejs
      BY <2>3 DEF Stands
    <3>7. QED
      BY <3>1, <3>5, <3>6, OffGejs
  <2>5. QED
    BY <2>3, <2>4 DEF Rep
<1>4. QED
  BY <1>2, <1>3

\* An affine point of the curve itself as an entry.
LEMMA EntryOfPoint ==
    ASSUME NEW x \in Int, TimesOf(x) # Infinity
    PROVE  Entry(1, ToGe(TimesOf(x)), x)
<1>1. TimesOf(x) \in Points
  BY TimesOfPoint
<1>2. PICK p1 \in Field, p2 \in Field : TimesOf(x) = <<p1, p2>>
  BY <1>1, PointCoordinates, Zenon
<1>3. ToGe(TimesOf(x)) = Ge(p1, p2)
  BY <1>2 DEF ToGe
<1>4. GejSetGe(Ge(p1, p2)) = Gej(p1, p2, 1)
  BY DEF GejSetGe, Ge, Gej
<1>5. Stands(Gej(p1, p2, 1), TimesOf(x))
  BY <1>1, <1>3, <1>4, GeStands
<1>6. QED
  BY <1>3, <1>5 DEF Entry, Ge

\* gej_add_zinv_var: an affine point of the curve itself is added.
LEMMA RepAddZinvVar ==
    ASSUME NEW Z \in Field, Z # 0, NEW a, NEW x \in Int, Rep(Z, a, x),
           NEW y \in Int, TimesOf(y) # Infinity
    PROVE  Rep(Z, GejAddZinvVar(a, ToGe(TimesOf(y)), Z), x + y)
<1> DEFINE e == ToGe(TimesOf(y))
<1>1. TimesOf(y) \in Points
  BY TimesOfPoint
<1>2. PICK p1 \in Field, p2 \in Field : TimesOf(y) = <<p1, p2>>
  BY <1>1, PointCoordinates, Zenon
<1>3. e = Ge(p1, p2) /\ e.x = p1 /\ e.y = p2 /\ e.infinity = FALSE
  BY <1>2 DEF ToGe, Ge
<1> HIDE DEF e
<1>4. p1 \in Int /\ p2 \in Int /\ Z \in Int /\ Is(p1, p1) /\ Is(p2, p2) /\ Is(Z, Z) /\ ~Is(Z, 0)
  BY Prime, IsItself, FieldNonZero
<1>5. CASE a.infinity
  <2> DEFINE g == GeSetGejZinv(e, Z)
  <2>1. g.x = F(p1 * Sqr(Z)) /\ g.y = F(p2 * F(Sqr(Z) * Z)) /\ g.infinity = FALSE
    BY <1>3 DEF GeSetGejZinv
  <2> HIDE DEF g
  <2>2. /\ Is(g.x, p1 * (Z * Z)) /\ g.x \in Field
        /\ Is(g.y, p2 * (Z * Z * Z)) /\ g.y \in Field
    BY <1>4, <2>1, IsTimesSqr, IsTimesCube, Zenon
  <2>3. Stands(Gej(g.x, g.y, Z), TimesOf(y))
    BY <1>1, <1>2, <1>4, <2>2, StandsFinite, Zenon
  <2>4. Entry(Z, g, y)
    BY <2>1, <2>2, <2>3 DEF Entry
  <2>5. Rep(Z, GejAddGeVar(a, g), x + y)
    BY <2>4, RepAddGeVar
  <2>6. GejAddZinvVar(a, e, Z) = GejAddGeVar(a, g)
    BY <1>3, <1>5 DEF GejAddZinvVar, GejAddGeVar, g
  <2>7. QED
    BY <2>5, <2>6 DEF e
<1>6. CASE ~a.infinity
  <2>1. a.z \in Field /\ a.z \in Int
    BY Prime DEF Rep, Gejs
  <2>2. PICK w \in Field : w = F(a.z * Z) /\ w \in Int /\ Is(w, w)
    <3>1. a.z * Z \in Int
      BY <1>4, <2>1, SMT
    <3>2. QED
      BY <3>1, InField, IsItself
  <2>3. Is(F(e.x * Sqr(w)), p1 * (w * w)) /\ Is(F(F(e.y * Sqr(w)) * w), p2 * (w * w * w))
    BY <1>3, <1>4, <2>2, IsTimesSqr, IsTimesCube, Zenon
  <2>4. e.x \in Field /\ e.y \in Field
    BY <1>3
  <2>5. Rep(Z, AddFinite(a, w, e, 1, a.z), x + y)
    BY <1>2, <1>6, <2>2, <2>3, <2>4, RepAddFinite, Zenon
  <2>6. GejAddZinvVar(a, e, Z) = AddFinite(a, F(a.z * Z), e, 1, a.z)
    BY <1>3, <1>6 DEF GejAddZinvVar
  <2>7. QED
    BY <2>2, <2>5, <2>6 DEF e
<1>7. QED
  BY <1>5, <1>6

\* gej_add_var, by the multiples.
LEMMA RepAddVar ==
    ASSUME NEW a, NEW x \in Int, Rep(1, a, x), NEW b, NEW y \in Int, Rep(1, b, y)
    PROVE  Rep(1, GejAddVar(a, b), x + y)
BY RepIsStands, AddVarStands, TimesOfAdd

LEMMA RepNeg ==
    ASSUME NEW a, NEW x \in Int, Rep(1, a, x)
    PROVE  Rep(1, GejNeg(a), -x)
BY RepIsStands, NegStands, TimesOfNeg

---------------------------------------------------------------------------
(* Pippenger: what a bucket receives.                                      *)

LEMMA Ones == 1 \in Field /\ 1 # 0 /\ 0 \in Field
BY Prime

---------------------------------------------------------------------------
(* The tables of odd multiples.                                            *)

\* There are no divisors of zero modulo N.
LEMMA ScalarZeroProduct ==
    ASSUME NEW k \in 1 .. N - 1, NEW x \in Int, Cong(N, k * x, 0)
    PROVE  Cong(N, x, 0)
<1>1. k \in Scalars /\ k # 0 /\ k \in Int /\ N \in Nat
  BY Order
<1>2. PICK i \in Int : Cong(N, k * i, 1)
  BY <1>1, ScalarInverses, Order
<1>3. QED
  BY <1>1, <1>2, CongCancelZero

\* Rescaling an entry.
LEMMA EntryScaled ==
    ASSUME NEW Z \in Field, NEW e, NEW x \in Int, Entry(Z, e, x), NEW s \in Field, s # 0
    PROVE  F(Z * s) \in Field /\ F(Z * s) # 0 /\ Entry(F(Z * s), GeSetGejZinv(e, s), x)
<1>1. Z \in Int /\ Z # 0 /\ e.x \in Field /\ e.y \in Field /\ e.infinity = FALSE
      /\ e.x \in Int /\ e.y \in Int /\ s \in Int
  BY EntryFacts, Prime
<1>2. Stands(Gej(e.x, e.y, Z), TimesOf(x))
  BY DEF Entry
<1>3. Stands(GejRescale(Gej(e.x, e.y, Z), s), TimesOf(x))
  BY <1>2, RescaleStands
<1> DEFINE u == F(e.x * Sqr(s))
           v == F(F(e.y * Sqr(s)) * s)
           w == F(Z * s)
<1>4. GejRescale(Gej(e.x, e.y, Z), s) = Gej(u, v, w)
  BY DEF GejRescale, Gej
<1>5. v = F(e.y * F(Sqr(s) * s))
  BY <1>1, CubeTwice
<1>6. GeSetGejZinv(e, s) = [x |-> u, y |-> v, infinity |-> FALSE]
  BY <1>1, <1>5 DEF GeSetGejZinv
<1> HIDE DEF u, v, w
<1>7. Stands(Gej(u, v, w), TimesOf(x))
  BY <1>3, <1>4
<1>8. u \in Field /\ v \in Field /\ w \in Field /\ w # 0
  BY <1>7 DEF Stands, Gejs, Gej
<1>9. Entry(w, GeSetGejZinv(e, s), x)
  BY <1>6, <1>7, <1>8 DEF Entry
<1>10. QED
  BY <1>8, <1>9 DEF w

\* Rescaled by the inverse of its z coordinate it is affine.
LEMMA EntryAffine ==
    ASSUME NEW Z \in Field, NEW e, NEW x \in Int, Entry(Z, e, x), NEW s \in Field,
           Is(Z * s, 1)
    PROVE  GeSetGejZinv(e, s) = ToGe(TimesOf(x)) /\ TimesOf(x) # Infinity
<1>1. e.infinity = FALSE
  BY EntryFacts
<1>2. s = FieldInverse[Z]
  BY InverseOf
<1>3. Stands(Gej(e.x, e.y, Z), TimesOf(x))
  BY DEF Entry
<1>4. PICK a : a = Gej(e.x, e.y, Z)
  OBVIOUS
<1>5. a.x = e.x /\ a.y = e.y /\ a.z = Z /\ a.infinity = FALSE
  BY <1>4 DEF Gej
<1>6. GeSetGejZinv(a, FieldInverse[a.z]) = ToGe(TimesOf(x))
  BY <1>3, <1>4, <1>5, AffineOf
<1>7. GeSetGejZinv(a, FieldInverse[a.z]) = GeSetGejZinv(e, s)
  BY <1>1, <1>2, <1>5 DEF GeSetGejZinv
<1>8. TimesOf(x) # Infinity
  BY <1>3, <1>4, <1>5 DEF Stands
<1>9. QED
  BY <1>6, <1>7, <1>8

\* A table in the making: z[i] is the z coordinate of the i-th point on the
\* curve itself, of which only ratios are kept, and v[i] its multiple of G.
Chain(t, z, v, n) ==
    /\ n \in Nat /\ t.prej \in Seq(Gejs) /\ t.zr \in Seq(Field)
    /\ Len(t.prej) = n /\ Len(t.zr) = n
    /\ \A i \in 1 .. n : /\ z[i] \in Field /\ v[i] \in Int
                         /\ Entry(z[i], t.prej[i], v[i])
    /\ \A i \in 1 .. n - 1 : z[i + 1] = F(z[i] * t.zr[i + 1])
    /\ n > 0 => t.prej[n].z = z[n]

\* e is added time and again.
ClimbOf(b, e, n) ==
    LET D[i \in 1 .. n] == IF i = 1 THEN b ELSE GejAddGeVar(D[i - 1], e) IN D

LEMMA Climbed ==
    ASSUME NEW Z \in Field, NEW b, NEW x \in Int, Rep(Z, b, x), NEW e, NEW y \in Int,
           Entry(Z, e, y), NEW n \in Nat, n >= 1, NEW D, D = ClimbOf(b, e, n)
    PROVE  /\ D[1] = b
           /\ \A i \in 1 .. n - 1 : D[i + 1] = GejAddGeVar(D[i], e)
           /\ \A i \in 1 .. n : x + (i - 1) * y \in Int /\ Rep(Z, D[i], x + (i - 1) * y)
<1> DEFINE A == {a \in Gejs : \E z \in Int : Rep(Z, a, z)}
           f == [k \in Nat |-> [a \in A |-> GejAddGeVar(a, e)]]
<1>1. b \in A
  BY DEF Rep
<1>2. ASSUME NEW a \in A PROVE GejAddGeVar(a, e) \in A
  <2>1. PICK z \in Int : Rep(Z, a, z)
    OBVIOUS
  <2>2. Rep(Z, GejAddGeVar(a, e), z + y) /\ z + y \in Int
    BY <2>1, RepAddGeVar
  <2>3. GejAddGeVar(a, e) \in Gejs
    BY <2>2 DEF Rep
  <2>4. QED
    BY <2>2, <2>3
<1>3. f \in [Nat -> [A -> A]]
  BY <1>2
<1> HIDE DEF A
<1>4. PICK h : Iterates(h, n - 1, A, b, f)
  <2> HIDE DEF f
  <2>1. n - 1 \in Nat
    OBVIOUS
  <2>2. QED
    BY <1>1, <1>3, <2>1, Recursion
<1>5. h \in [0 .. n - 1 -> A] /\ h[0] = b /\ \A k \in 0 .. (n - 1) - 1 : h[k + 1] = f[k][h[k]]
  BY <1>4 DEF Iterates
<1> DEFINE d == [i \in 1 .. n |-> h[i - 1]]
<1>6. d = [i \in 1 .. n |-> IF i = 1 THEN b ELSE GejAddGeVar(d[i - 1], e)]
  <2>1. ASSUME NEW i \in 1 .. n PROVE d[i] = IF i = 1 THEN b ELSE GejAddGeVar(d[i - 1], e)
    <3>1. CASE i = 1
      BY <1>5, <3>1
    <3>2. CASE i # 1
      <4>1. PICK k \in 0 .. (n - 1) - 1 : k + 1 = i - 1 /\ k = (i - 1) - 1
        BY <3>2
      <4>2. k \in Nat /\ k \in 0 .. n - 1 /\ i - 1 \in 1 .. n
        BY <4>1
      <4>3. h[k] \in A /\ h[k + 1] = f[k][h[k]]
        BY <1>5, <4>1, <4>2
      <4>4. f[k][h[k]] = GejAddGeVar(h[k], e)
        BY <4>2, <4>3
      <4>5. d[i] = h[k + 1] /\ d[i - 1] = h[k]
        BY <4>1, <4>2
      <4> HIDE DEF d, f
      <4>6. QED
        BY <3>2, <4>3, <4>4, <4>5
    <3>3. QED
      BY <3>1, <3>2
  <2>2. d = [i \in 1 .. n |-> d[i]]
    OBVIOUS
  <2> HIDE DEF d
  <2>3. QED
    BY <2>1, <2>2
<1> HIDE DEF d
<1>7. D = [i \in 1 .. n |-> IF i = 1 THEN b ELSE GejAddGeVar(D[i - 1], e)]
  BY <1>6 DEF ClimbOf
<1> HIDE DEF f
<1>8. D[1] = b
  <2>1. 1 \in 1 .. n
    OBVIOUS
  <2>2. PICK X : X = D
    OBVIOUS
  <2>3. X = [i \in 1 .. n |-> IF i = 1 THEN b ELSE GejAddGeVar(X[i - 1], e)]
    BY <1>7, <2>2, Zenon
  <2>4. X[1] = b
    BY <2>1, <2>3
  <2>5. QED
    BY <2>2, <2>4
<1>9. ASSUME NEW i \in 1 .. n - 1 PROVE D[i + 1] = GejAddGeVar(D[i], e)
  <2>1. i + 1 \in 1 .. n /\ i + 1 # 1 /\ (i + 1) - 1 = i
    OBVIOUS
  <2>2. D[i + 1] = IF i + 1 = 1 THEN b ELSE GejAddGeVar(D[(i + 1) - 1], e)
    BY <1>7, <2>1
  <2>3. QED
    BY <2>1, <2>2
<1> DEFINE S == {k \in Nat : k < n => x + k * y \in Int /\ Rep(Z, D[k + 1], x + k * y)}
<1>10. 0 \in S
  <2>1. 0 + 1 = 1 /\ x + 0 = x /\ 0 * y = 0
    OBVIOUS
  <2>2. x + 0 * y = x
    BY <2>1
  <2>3. QED
    BY <1>8, <2>1, <2>2
<1>11. ASSUME NEW k \in Nat, k \in S PROVE k + 1 \in S
  <2> SUFFICES ASSUME k + 1 < n
               PROVE  x + (k + 1) * y \in Int /\ Rep(Z, D[(k + 1) + 1], x + (k + 1) * y)
    BY <1>11
  <2>1. PICK i \in 1 .. n - 1 : i = k + 1
    OBVIOUS
  <2>2. D[i + 1] = GejAddGeVar(D[i], e)
    BY <1>9
  <2>3. PICK z \in Int : z = x + k * y
    BY <1>11
  <2>4. Rep(Z, D[i], z)
    BY <1>11, <2>1, <2>3
  <2>5. Rep(Z, GejAddGeVar(D[i], e), z + y)
    <3>1. PICK a : a = D[i]
      OBVIOUS
    <3>2. QED
      BY <2>4, <3>1, RepAddGeVar
  <2>6. x + (k + 1) * y = (x + k * y) + y /\ x + (k + 1) * y \in Int
    BY SMT
  <2>7. x + (k + 1) * y = z + y
    BY <2>3, <2>6
  <2>8. Rep(Z, D[i + 1], x + (k + 1) * y)
    BY <2>2, <2>5, <2>7
  <2>9. QED
    BY <2>1, <2>6, <2>8
<1> HIDE DEF S
<1>12. \A k \in Nat : k \in S
  BY <1>10, <1>11, Induction
<1>13. ASSUME NEW i \in 1 .. n
       PROVE  x + (i - 1) * y \in Int /\ Rep(Z, D[i], x + (i - 1) * y)
  <2>1. PICK k \in Nat : k = i - 1 /\ k + 1 = i /\ k < n
    OBVIOUS
  <2>2. x + k * y \in Int /\ Rep(Z, D[k + 1], x + k * y)
    BY <1>12, <2>1 DEF S
  <2>3. QED
    BY <2>1, <2>2
<1>14. QED
  BY <1>8, <1>9, <1>13

\* An addition in the table is one the ratios are about.
LEMMA AddEntryIsAddVar ==
    ASSUME NEW a \in Gejs, NEW e, ~a.infinity, e.infinity = FALSE
    PROVE  GejAddGeVar(a, e) = GejAddVar(a, GejSetGe(e))
<1>1. PICK b : b = GejSetGe(e)
  OBVIOUS
<1>2. b.x = e.x /\ b.y = e.y /\ b.z = 1 /\ b.infinity = FALSE
  BY <1>1 DEF GejSetGe
<1>3. F(a.z * 1) = a.z
  BY FieldFixed DEF Gejs
<1>4. GejAddVar(a, b) = AddFinite(a, a.z, b, 1, a.z)
  BY <1>2, <1>3, Zenon DEF GejAddVar
<1>5. GejAddGeVar(a, e) = AddFinite(a, a.z, e, 1, a.z)
  BY Zenon DEF GejAddGeVar
<1>6. AddFinite(a, a.z, b, 1, a.z) = AddFinite(a, a.z, e, 1, a.z)
  BY <1>2, Zenon DEF AddFinite
<1>7. QED
  BY <1>1, <1>4, <1>5, <1>6

\* A point on the isomorphic curve as an entry.
LEMMA EntryOfRep ==
    ASSUME NEW Z \in Field, NEW a, NEW x \in Int, Rep(Z, a, x), ~a.infinity
    PROVE  F(a.z * Z) \in Field /\ Entry(F(a.z * Z), a, x)
<1>1. a.x \in Field /\ a.y \in Field /\ a.infinity = FALSE
  BY DEF Rep, Gejs
<1>2. On(Z, a) = Gej(a.x, a.y, F(a.z * Z))
  BY <1>1 DEF On, Gej
<1>3. Stands(Gej(a.x, a.y, F(a.z * Z)), TimesOf(x))
  BY <1>2 DEF Rep
<1>4. F(a.z * Z) \in Field
  BY <1>3 DEF Stands, Gejs, Gej
<1>5. QED
  BY <1>1, <1>3, <1>4 DEF Entry

\* The multiples in a table of n points.
Odds(l, n) == [i \in 1 .. n |-> (2 * i - 1) * l]

\* No odd multiple in a table is the point at infinity.
LEMMA OddsFinite ==
    ASSUME NEW l \in Int, ~Cong(N, l, 0), NEW n \in Nat, 2 * n - 1 < N, NEW i \in 1 .. n
    PROVE  /\ Odds(l, n)[i] \in Int /\ ~Cong(N, Odds(l, n)[i], 0)
           /\ Odds(l, n)[i] = l + (i - 1) * (2 * l)
<1>1. 2 * i - 1 \in 1 .. N - 1
  BY Order
<1>2. PICK k \in 1 .. N - 1 : k = 2 * i - 1
  BY <1>1
<1>3. k * l \in Int /\ (2 * i - 1) * l = l + (i - 1) * (2 * l)
  BY <1>2, Order, SMT
<1>4. ~Cong(N, k * l, 0)
  BY ScalarZeroProduct
<1>5. QED
  BY <1>2, <1>3, <1>4 DEF Odds

\* ecmult_odd_multiples_table
LEMMA OddChain ==
    ASSUME NEW a, NEW l \in Int, Rep(1, a, l), ~a.infinity,
           NEW n \in Nat, n >= 1, 2 * n - 1 < N
    PROVE  LET t == OddMultiples(n, a)
           IN  \E z : Chain(t, z, Odds(l, n), n) /\ z[1] = F(a.z * t.zr[1])
<1> DEFINE d == GejDouble(a)
           e == Ge(d.x, d.y)
           first == GeSetGejZinv(a, d.z)
           b == Gej(first.x, first.y, a.z)
           D == ClimbOf(b, e, n)
           t == OddMultiples(n, a)
<1>1. /\ a \in Gejs /\ Stands(a, TimesOf(l)) /\ 1 \in Field /\ ~Cong(N, l, 0) /\ a.z \in Field
      /\ TimesOf(l) # Infinity
  <2>1. a \in Gejs /\ Stands(a, TimesOf(l)) /\ 1 \in Field
    BY RepIsStands, Ones DEF Rep
  <2>2. TimesOf(l) # Infinity
    BY <2>1 DEF Stands
  <2>3. QED
    BY <2>1, <2>2, TimesOfZero DEF Gejs
<1>2. t = [prej |-> [i \in 1 .. n |-> IF i < n THEN D[i] ELSE Gej(D[n].x, D[n].y, F(D[n].z * d.z))],
           zr |-> [i \in 1 .. n |-> IF i = 1 THEN d.z ELSE AddRatio(D[i - 1], GejSetGe(e))]]
  BY Zenon DEF OddMultiples, ClimbOf
<1>3. Rep(1, d, 2 * l) /\ 2 * l \in Int /\ Stands(d, TimesOf(2 * l))
  BY <1>1, RepDouble, RepIsStands
<1>4. d.infinity = FALSE /\ d.x \in Field /\ d.y \in Field /\ d.z \in Field /\ d.z # 0
  <2>1. d.infinity = FALSE
    BY <1>1 DEF GejDouble, Gej
  <2> HIDE DEF d
  <2>2. d.z # 0 /\ d \in Gejs
    BY <1>3, <2>1 DEF Stands
  <2>3. QED
    BY <2>1, <2>2 DEF Gejs
<1> HIDE DEF d
<1>5. PICK Z \in Field : Z = d.z /\ Z # 0 /\ Z \in Int
  BY <1>4, Prime
<1>6. Entry(Z, e, 2 * l) /\ e.infinity = FALSE /\ GejSetGe(e) \in Gejs
  <2>1. d = Gej(e.x, e.y, Z) /\ e.x = d.x /\ e.y = d.y /\ e.infinity = FALSE
    <3>1. e.x = d.x /\ e.y = d.y /\ e.infinity = FALSE
      BY DEF Ge
    <3>2. d \in Gejs
      BY <1>3 DEF Stands
    <3>3. d = Gej(d.x, d.y, d.z)
      BY <1>4, <3>2 DEF Gejs, Gej
    <3>4. QED
      BY <1>5, <3>1, <3>3
  <2> HIDE DEF e
  <2>2. Entry(Z, e, 2 * l)
    BY <1>3, <1>4, <2>1 DEF Entry
  <2>3. Rep(Z, GejSetGe(e), 2 * l)
    BY <1>3, <2>2, RepOfEntry
  <2>4. QED
    BY <2>1, <2>2, <2>3 DEF Rep
<1>7. Rep(Z, b, l) /\ b.z = a.z /\ ~b.infinity
  <2>1. Stands(GejRescale(a, Z), TimesOf(l))
    BY <1>1, <1>5, RescaleStands
  <2>2. a.x \in Int /\ a.y \in Int /\ a.z \in Int /\ a.infinity = FALSE
    BY <1>1, Prime DEF Gejs
  <2> DEFINE u == F(a.x * Sqr(Z))
             v == F(F(a.y * Sqr(Z)) * Z)
  <2>3. v = F(a.y * F(Sqr(Z) * Z))
    BY <1>5, <2>2, CubeTwice
  <2>4. first.x = u /\ first.y = v
    BY <1>5, <2>3 DEF GeSetGejZinv
  <2>5. GejRescale(a, Z) = Gej(u, v, F(a.z * Z))
    BY <2>2 DEF GejRescale, Gej
  <2> HIDE DEF u, v, first
  <2>6. b = Gej(u, v, a.z)
    BY <2>4
  <2> HIDE DEF b
  <2>7. On(Z, b) = Gej(u, v, F(a.z * Z))
    BY <2>6 DEF On, Gej
  <2>8. u \in Field /\ v \in Field
    BY <2>1, <2>5 DEF Stands, Gejs, Gej
  <2>9. b \in Gejs
    BY <1>1, <2>6, <2>8 DEF Gejs, Gej
  <2>10. Rep(Z, b, l)
    BY <2>1, <2>5, <2>7, <2>9 DEF Rep
  <2>11. QED
    BY <2>6, <2>10 DEF Gej
<1> HIDE DEF b, e, first
<1>8. /\ D[1] = b
      /\ \A i \in 1 .. n - 1 : D[i + 1] = GejAddGeVar(D[i], e)
      /\ \A i \in 1 .. n : l + (i - 1) * (2 * l) \in Int /\ Rep(Z, D[i], l + (i - 1) * (2 * l))
  <2>1. PICK X : X = D
    OBVIOUS
  <2>2. X = ClimbOf(b, e, n)
    BY <2>1
  <2> HIDE DEF D
  <2>3. /\ X[1] = b
        /\ \A i \in 1 .. n - 1 : X[i + 1] = GejAddGeVar(X[i], e)
        /\ \A i \in 1 .. n : l + (i - 1) * (2 * l) \in Int /\ Rep(Z, X[i], l + (i - 1) * (2 * l))
    <3>1. PICK y \in Int : y = 2 * l
      BY <1>3
    <3>2. Entry(Z, e, y) /\ Rep(Z, b, l)
      BY <1>6, <1>7, <3>1
    <3>3. /\ X[1] = b
          /\ \A i \in 1 .. n - 1 : X[i + 1] = GejAddGeVar(X[i], e)
          /\ \A i \in 1 .. n : l + (i - 1) * y \in Int /\ Rep(Z, X[i], l + (i - 1) * y)
      BY <2>2, <3>2, Climbed
    <3>4. QED
      BY <3>1, <3>3
  <2>4. QED
    BY <2>1, <2>3
<1> HIDE DEF D
<1> DEFINE v == Odds(l, n)
           z == [i \in 1 .. n |-> F(D[i].z * Z)]
<1>9. ASSUME NEW i \in 1 .. n
      PROVE  /\ v[i] \in Int /\ Rep(Z, D[i], v[i]) /\ ~D[i].infinity /\ D[i] \in Gejs
             /\ z[i] \in Field /\ Entry(z[i], D[i], v[i])
  <2>1. v[i] \in Int /\ ~Cong(N, v[i], 0) /\ v[i] = l + (i - 1) * (2 * l)
    BY <1>1, OddsFinite
  <2>2. Rep(Z, D[i], v[i])
    BY <1>8, <2>1
  <2>3. ~D[i].infinity
    BY <2>1, <2>2, RepOfInfinity
  <2> HIDE DEF v
  <2>4. F(D[i].z * Z) \in Field /\ Entry(F(D[i].z * Z), D[i], v[i])
    BY <2>1, <2>2, <2>3, EntryOfRep
  <2>5. QED
    BY <2>1, <2>2, <2>3, <2>4 DEF Rep
<1>10. ASSUME NEW i \in 1 .. n - 1
       PROVE  /\ AddRatio(D[i], GejSetGe(e)) \in Field
              /\ z[i + 1] = F(z[i] * AddRatio(D[i], GejSetGe(e)))
  <2>1. i \in 1 .. n /\ i + 1 \in 1 .. n
    OBVIOUS
  <2>2. D[i] \in Gejs /\ ~D[i].infinity /\ ~D[i + 1].infinity
    BY <1>9, <2>1
  <2>3. PICK g, h, c : g = D[i] /\ h = D[i + 1] /\ c = GejSetGe(e)
    OBVIOUS
  <2>4. g \in Gejs /\ c \in Gejs /\ ~g.infinity /\ ~h.infinity /\ h = GejAddVar(g, c)
    BY <1>6, <1>8, <2>2, <2>3, AddEntryIsAddVar
  <2>5. h.z = F(g.z * AddRatio(g, c)) /\ AddRatio(g, c) \in Field
    BY <2>4, AddVarRatio, AddRatioField
  <2>6. PICK k \in Field, m \in Field : k = AddRatio(g, c) /\ m = g.z /\ k \in Int /\ m \in Int
    BY <2>4, <2>5, Prime DEF Gejs
  <2>7. F(F(m * k) * Z) = F(F(m * Z) * k)
    BY <1>5, <2>6, OnZ
  <2>8. z[i + 1] = F(F(m * k) * Z) /\ z[i] = F(m * Z)
    BY <2>1, <2>3, <2>5, <2>6
  <2> HIDE DEF z
  <2>9. QED
    BY <2>3, <2>5, <2>6, <2>7, <2>8
<1> HIDE DEF t, v
<1>11. PICK p, q : t = [prej |-> p, zr |-> q] /\ t.prej = p /\ t.zr = q
                 /\ p = [i \in 1 .. n |-> IF i < n THEN D[i] ELSE Gej(D[n].x, D[n].y, F(D[n].z * d.z))]
                 /\ q = [i \in 1 .. n |-> IF i = 1 THEN d.z ELSE AddRatio(D[i - 1], GejSetGe(e))]
  BY <1>2
<1>12. ASSUME NEW i \in 1 .. n
       PROVE  p[i] \in Gejs /\ Entry(z[i], p[i], v[i]) /\ (i = n => p[i].z = z[n])
  <2>1. CASE i < n
    <3>1. p[i] = D[i]
      BY <1>11, <2>1
    <3> HIDE DEF z
    <3>2. QED
      BY <1>9, <2>1, <3>1
  <2>2. CASE i = n
    <3>1. p[i] = Gej(D[n].x, D[n].y, F(D[n].z * Z))
      BY <1>5, <1>11, <2>2
    <3>2. z[n] = F(D[n].z * Z) /\ n \in 1 .. n
      OBVIOUS
    <3> HIDE DEF z
    <3>3. D[n] \in Gejs /\ z[n] \in Field /\ Entry(z[n], D[n], v[n]) /\ ~D[n].infinity
      BY <1>9, <3>2
    <3>4. p[i].x = D[n].x /\ p[i].y = D[n].y /\ p[i].z = z[n] /\ p[i].infinity = FALSE
          /\ p[i] \in Gejs
      BY <3>1, <3>2, <3>3 DEF Gej, Gejs
    <3>5. Entry(z[n], p[i], v[n])
      BY <3>3, <3>4 DEF Entry
    <3>6. QED
      BY <2>2, <3>4, <3>5
  <2>3. QED
    BY <2>1, <2>2
<1>13. ASSUME NEW i \in 1 .. n PROVE q[i] \in Field
  <2>1. CASE i = 1
    BY <1>4, <1>11, <2>1
  <2>2. CASE i # 1
    <3>1. PICK k \in 1 .. n - 1 : k = i - 1
      BY <2>2
    <3>2. q[i] = AddRatio(D[k], GejSetGe(e))
      BY <1>11, <2>2, <3>1
    <3> HIDE DEF z
    <3>3. QED
      BY <1>10, <3>1, <3>2
  <2>3. QED
    BY <2>1, <2>2
<1>14. ASSUME NEW i \in 1 .. n - 1 PROVE z[i + 1] = F(z[i] * q[i + 1])
  <2>1. q[i + 1] = AddRatio(D[i], GejSetGe(e))
    <3>1. i + 1 \in 1 .. n /\ i + 1 # 1 /\ (i + 1) - 1 = i
      OBVIOUS
    <3> HIDE DEF z
    <3>2. QED
      BY <1>11, <3>1
  <2> HIDE DEF z
  <2>2. QED
    BY <1>10, <2>1
<1>15. z[1] = F(a.z * q[1])
  <2>1. 1 \in 1 .. n
    OBVIOUS
  <2>2. q[1] = Z
    BY <1>5, <1>11, <2>1
  <2>3. z[1] = F(D[1].z * Z)
    BY <2>1
  <2> HIDE DEF z
  <2>4. QED
    BY <1>7, <1>8, <2>2, <2>3
<1> HIDE DEF z
<1>16. p \in Seq(Gejs) /\ Len(p) = n /\ q \in Seq(Field) /\ Len(q) = n
  <2>1. p = [i \in 1 .. n |-> p[i]] /\ q = [i \in 1 .. n |-> q[i]]
    BY <1>11
  <2>2. \A i \in 1 .. n : p[i] \in Gejs /\ q[i] \in Field
    BY <1>12, <1>13
  <2>3. p \in [1 .. n -> Gejs] /\ q \in [1 .. n -> Field]
    BY <2>1, <2>2
  <2>4. QED
    BY <2>3
<1>17. Chain(t, z, v, n)
  <2>1. \A i \in 1 .. n : z[i] \in Field /\ v[i] \in Int /\ Entry(z[i], p[i], v[i])
    BY <1>9, <1>12
  <2>2. p[n].z = z[n]
    BY <1>12
  <2>3. \A i \in 1 .. n - 1 : z[i + 1] = F(z[i] * q[i + 1])
    BY <1>14
  <2>4. QED
    BY <1>11, <1>16, <2>1, <2>2, <2>3 DEF Chain
<1>18. z[1] = F(a.z * t.zr[1])
  BY <1>11, <1>15
<1>19. QED
  BY <1>17, <1>18 DEF t, v

LEMMA ThreeProduct ==
    ASSUME NEW a \in Field, NEW b \in Field, NEW c \in Field
    PROVE  /\ F(F(a * b) * c) = F(b * F(c * a)) /\ F(F(a * b) * c) = F(a * F(c * b))
           /\ F(a * b) \in Field /\ F(F(a * b) * c) \in Field
<1>1. a \in Int /\ b \in Int /\ c \in Int /\ Is(a, a) /\ Is(b, b) /\ Is(c, c)
  BY Prime, IsItself
<1>2. /\ Is(F(F(a * b) * c), (a * b) * c) /\ F(F(a * b) * c) \in Field
      /\ Is(F(b * F(c * a)), b * (c * a)) /\ F(b * F(c * a)) \in Field
      /\ Is(F(a * F(c * b)), a * (c * b)) /\ F(a * F(c * b)) \in Field
      /\ F(a * b) \in Field
  BY <1>1, IsProduct, Zenon
<1>3. (a * b) * c = b * (c * a) /\ (a * b) * c = a * (c * b)
  BY <1>1, SMT
<1>4. QED
  BY <1>2, <1>3, IsUnique, Zenon

\* Where the table of the next point joins those before it.
LEMMA Joining ==
    ASSUME NEW S, NEW p \in Seq(S), NEW q \in Seq(S), NEW c, c = p \o q
    PROVE  /\ c \in Seq(S) /\ Len(c) = Len(p) + Len(q)
           /\ \A i \in 1 .. Len(p) : c[i] = p[i]
           /\ \A i \in 1 .. Len(q) : c[Len(p) + i] = q[i]
OBVIOUS

LEMMA RescaleRep ==
    ASSUME NEW a, NEW l \in Int, Rep(1, a, l), ~a.infinity, NEW s \in Field, s # 0
    PROVE  LET b == GejRescale(a, s)
           IN  Rep(1, b, l) /\ ~b.infinity /\ b.z = F(a.z * s)
<1>1. Stands(GejRescale(a, s), TimesOf(l))
  BY RepIsStands, RescaleStands
<1>2. GejRescale(a, s).infinity = a.infinity /\ GejRescale(a, s).z = F(a.z * s)
  BY DEF GejRescale
<1>3. QED
  BY <1>1, <1>2, RepIsStands

\* The multiples in the tables of two parts.
Joined(v, m, w) == [i \in Nat |-> IF i <= m THEN v[i] ELSE w[i - m]]

\* The tables of one more point.
LEMMA ChainAppend ==
    ASSUME NEW t, NEW z, NEW v, NEW m, Chain(t, z, v, m),
           NEW a, NEW l \in Int, Rep(1, a, l), ~a.infinity,
           NEW n \in Nat, n >= 1, 2 * n - 1 < N
    PROVE  \E y : Chain(AppendOddMultiples(t, n, a), y, Joined(v, m, Odds(l, n)), m + n)
<1>0. /\ m \in Nat /\ t.prej \in Seq(Gejs) /\ t.zr \in Seq(Field)
      /\ Len(t.prej) = m /\ Len(t.zr) = m
      /\ \A i \in 1 .. m : z[i] \in Field /\ v[i] \in Int /\ Entry(z[i], t.prej[i], v[i])
      /\ \A i \in 1 .. m - 1 : z[i + 1] = F(z[i] * t.zr[i + 1])
      /\ m > 0 => t.prej[m].z = z[m]
  BY DEF Chain
<1>1. CASE m = 0
  <2>1. AppendOddMultiples(t, n, a) = OddMultiples(n, a)
    <3>1. PICK p \in Seq(Gejs) : p = t.prej
      BY <1>0
    <3>2. Len(p) = 0
      BY <1>0, <1>1, <3>1
    <3>3. p = << >>
      BY <3>2
    <3>4. QED
      BY <3>1, <3>3, Zenon DEF AppendOddMultiples
  <2>2. PICK y : Chain(OddMultiples(n, a), y, Odds(l, n), n)
    BY OddChain
  <2>3. \A i \in 1 .. n : Joined(v, m, Odds(l, n))[i] = Odds(l, n)[i]
    BY <1>1 DEF Joined
  <2>4. Chain(OddMultiples(n, a), y, Joined(v, m, Odds(l, n)), n)
    BY <2>2, <2>3 DEF Chain
  <2>5. m + n = n
    BY <1>1
  <2>6. QED
    BY <2>1, <2>4, <2>5
<1>2. CASE m > 0
  <2>1. t.prej # << >> /\ Last(t.prej) = t.prej[m] /\ m \in 1 .. m
    BY <1>0, <1>2 DEF Last
  <2>2. PICK s \in Field : s = Last(t.prej).z /\ s = z[m] /\ s # 0
    <3>1. z[m] \in Field /\ Entry(z[m], t.prej[m], v[m]) /\ v[m] \in Int
      BY <1>0, <2>1
    <3>2. z[m] # 0
      BY <3>1, EntryFacts
    <3>3. QED
      BY <1>0, <1>2, <2>1, <3>1, <3>2
  <2>3. PICK b : b = GejRescale(a, s) /\ Rep(1, b, l) /\ ~b.infinity /\ b.z = F(a.z * s)
    BY <2>2, RescaleRep
  <2>4. PICK next : next = OddMultiples(n, b)
    OBVIOUS
  <2>5. PICK y : Chain(next, y, Odds(l, n), n) /\ y[1] = F(b.z * next.zr[1])
    BY <2>3, <2>4, OddChain
  <2>6. /\ next.prej \in Seq(Gejs) /\ next.zr \in Seq(Field)
        /\ Len(next.prej) = n /\ Len(next.zr) = n
        /\ \A i \in 1 .. n : y[i] \in Field /\ Odds(l, n)[i] \in Int
                             /\ Entry(y[i], next.prej[i], Odds(l, n)[i])
        /\ \A i \in 1 .. n - 1 : y[i + 1] = F(y[i] * next.zr[i + 1])
        /\ next.prej[n].z = y[n]
    BY <2>5 DEF Chain
  <2> DEFINE q == [next.zr EXCEPT ![1] = F(@ * a.z)]
             x == [i \in 1 .. m + n |-> IF i <= m THEN z[i] ELSE y[i - m]]
             u == Joined(v, m, Odds(l, n))
  <2>7. a.z \in Field /\ next.zr[1] \in Field /\ 1 \in 1 .. n
    BY <2>6 DEF Rep, Gejs
  <2>8. F(next.zr[1] * a.z) \in Field /\ y[1] = F(s * F(next.zr[1] * a.z))
    <3>1. F(F(a.z * s) * next.zr[1]) = F(s * F(next.zr[1] * a.z))
          /\ F(next.zr[1] * a.z) \in Field
      BY <2>2, <2>7, ThreeProduct
    <3>2. QED
      BY <2>3, <2>5, <3>1
  <2>9. /\ q \in Seq(Field) /\ Len(q) = n /\ q[1] = F(next.zr[1] * a.z)
        /\ \A i \in 2 .. n : q[i] = next.zr[i]
    BY <2>6, <2>7, <2>8
  <2>10. PICK r2 : /\ r2 = AppendOddMultiples(t, n, a)
                   /\ r2.prej = t.prej \o next.prej /\ r2.zr = t.zr \o q
    <3>1. AppendOddMultiples(t, n, a) = [prej |-> t.prej \o next.prej, zr |-> t.zr \o q]
      BY <2>1, <2>2, <2>3, <2>4, Zenon DEF AppendOddMultiples
    <3> HIDE DEF q, x, u
    <3>2. PICK c, e : c = t.prej \o next.prej /\ e = t.zr \o q
      OBVIOUS
    <3>3. PICK r3 : r3 = AppendOddMultiples(t, n, a) /\ r3 = [prej |-> c, zr |-> e]
      BY <3>1, <3>2
    <3>4. r3.prej = c /\ r3.zr = e
      BY <3>3
    <3>5. QED
      BY <3>2, <3>3, <3>4
  <2> HIDE DEF q
  <2>11. /\ r2.prej \in Seq(Gejs) /\ r2.zr \in Seq(Field)
         /\ Len(r2.prej) = m + n /\ Len(r2.zr) = m + n /\ m + n \in Nat
         /\ \A i \in 1 .. m : r2.prej[i] = t.prej[i] /\ r2.zr[i] = t.zr[i]
         /\ \A i \in 1 .. n : r2.prej[m + i] = next.prej[i] /\ r2.zr[m + i] = q[i]
    <3> HIDE DEF x, u
    <3>1. PICK c, e : c = r2.prej /\ e = r2.zr
      OBVIOUS
    <3>2. PICK p1, p2, q1 : p1 = t.prej /\ p2 = next.prej /\ q1 = t.zr
      OBVIOUS
    <3>3. /\ c \in Seq(Gejs) /\ Len(c) = Len(p1) + Len(p2)
          /\ \A i \in 1 .. Len(p1) : c[i] = p1[i]
          /\ \A i \in 1 .. Len(p2) : c[Len(p1) + i] = p2[i]
      <4>1. p1 \in Seq(Gejs) /\ p2 \in Seq(Gejs) /\ c = p1 \o p2
        BY <1>0, <2>6, <2>10, <3>1, <3>2
      <4>2. QED
        BY <4>1, Joining
    <3>4. /\ e \in Seq(Field) /\ Len(e) = Len(q1) + Len(q)
          /\ \A i \in 1 .. Len(q1) : e[i] = q1[i]
          /\ \A i \in 1 .. Len(q) : e[Len(q1) + i] = q[i]
      <4>1. q1 \in Seq(Field) /\ q \in Seq(Field) /\ e = q1 \o q
        BY <1>0, <2>9, <2>10, <3>1, <3>2
      <4>2. QED
        BY <4>1, Joining
    <3>5. Len(p1) = m /\ Len(p2) = n /\ Len(q1) = m /\ Len(q) = n /\ m + n \in Nat
      BY <1>0, <2>6, <2>9, <3>2
    <3>6. QED
      BY <3>1, <3>2, <3>3, <3>4, <3>5
  <2>12. ASSUME NEW i \in 1 .. m + n
         PROVE  x[i] \in Field /\ u[i] \in Int /\ Entry(x[i], r2.prej[i], u[i])
    <3>1. CASE i <= m
      <4>1. i \in 1 .. m /\ x[i] = z[i] /\ u[i] = v[i]
        BY <1>0, <3>1 DEF Joined
      <4>2. QED
        BY <1>0, <2>11, <4>1
    <3>2. CASE ~(i <= m)
      <4>1. PICK k \in 1 .. n : k = i - m /\ m + k = i
        BY <1>0, <3>2
      <4>2. x[i] = y[k] /\ u[i] = Odds(l, n)[k]
        BY <1>0, <3>2, <4>1 DEF Joined
      <4>3. r2.prej[i] = next.prej[k]
        BY <2>11, <4>1
      <4>4. QED
        BY <2>6, <4>2, <4>3
    <3>3. QED
      BY <3>1, <3>2
  <2>13. ASSUME NEW i \in 1 .. (m + n) - 1 PROVE x[i + 1] = F(x[i] * r2.zr[i + 1])
    <3>1. CASE i < m
      <4>1. i \in 1 .. m - 1 /\ i + 1 \in 1 .. m /\ x[i] = z[i] /\ x[i + 1] = z[i + 1]
        BY <1>0, <3>1
      <4>2. r2.zr[i + 1] = t.zr[i + 1]
        BY <2>11, <4>1
      <4>3. QED
        BY <1>0, <4>1, <4>2
    <3>2. CASE i = m
      <4>1. x[i] = s /\ x[i + 1] = y[1] /\ r2.zr[i + 1] = q[1]
        <5>1. x[m] = z[m] /\ (m + 1) - m = 1 /\ m + 1 \in 1 .. m + n /\ ~(m + 1 <= m)
          BY <1>0, <2>1
        <5>2. x[m + 1] = y[1]
          BY <5>1
        <5>3. r2.zr[m + 1] = q[1]
          BY <2>7, <2>11
        <5>4. QED
          BY <2>2, <3>2, <5>1, <5>2, <5>3
      <4>2. QED
        BY <2>8, <2>9, <4>1
    <3>3. CASE i > m
      <4>1. PICK k \in 1 .. n - 1 : k = i - m /\ m + k = i
        BY <1>0, <3>3
      <4>2. /\ k + 1 \in 2 .. n /\ k + 1 \in 1 .. n /\ m + (k + 1) = i + 1
            /\ x[i] = y[k] /\ x[i + 1] = y[k + 1]
        <5>1. k + 1 \in 2 .. n /\ k + 1 \in 1 .. n /\ m + (k + 1) = i + 1 /\ (i + 1) - m = k + 1
              /\ ~(i <= m) /\ ~(i + 1 <= m) /\ i \in 1 .. m + n /\ i + 1 \in 1 .. m + n
          BY <1>0, <3>3, <4>1
        <5>2. QED
          BY <4>1, <5>1
      <4>3. r2.zr[i + 1] = next.zr[k + 1]
        BY <2>9, <2>11, <4>2
      <4>4. QED
        BY <2>6, <4>1, <4>2, <4>3
    <3>4. QED
      BY <1>0, <3>1, <3>2, <3>3
  <2>14. r2.prej[m + n].z = x[m + n]
    <3>1. n \in 1 .. n /\ m + n \in 1 .. m + n /\ ~(m + n <= m) /\ (m + n) - m = n
      BY <1>0
    <3>2. x[m + n] = y[n]
      BY <3>1
    <3>3. r2.prej[m + n] = next.prej[n]
      BY <2>11, <3>1
    <3>4. QED
      BY <2>6, <3>2, <3>3
  <2> HIDE DEF x, u
  <2>15. Chain(r2, x, u, m + n)
    BY <2>11, <2>12, <2>13, <2>14 DEF Chain
  <2>16. QED
    BY <2>10, <2>15 DEF u
<1>3. QED
  BY <1>0, <1>1, <1>2

---------------------------------------------------------------------------
(* Tables brought to one z coordinate, and to affine coordinates.          *)

\* Recursion from the end of a sequence.
Descends(d, n, A, b, f) ==
    d \in [1 .. n -> A] /\ d[n] = b /\ \A i \in 1 .. n - 1 : d[i] = f[i][d[i + 1]]

LEMMA RecursionDown ==
    ASSUME NEW A, NEW b, b \in A, NEW f, f \in [Nat -> [A -> A]], NEW n \in Nat, n >= 1
    PROVE  \E d : Descends(d, n, A, b, f)
<1> DEFINE h == [k \in Nat |-> IF n - (k + 1) \in Nat THEN f[n - (k + 1)] ELSE f[0]]
<1>1. h \in [Nat -> [A -> A]]
  OBVIOUS
<1>2. PICK g : Iterates(g, n - 1, A, b, h)
  <2> HIDE DEF h
  <2>1. n - 1 \in Nat
    OBVIOUS
  <2>2. QED
    BY <1>1, <2>1, Recursion
<1>3. g \in [0 .. n - 1 -> A] /\ g[0] = b /\ \A k \in 0 .. (n - 1) - 1 : g[k + 1] = h[k][g[k]]
  BY <1>2 DEF Iterates
<1> DEFINE d == [i \in 1 .. n |-> g[n - i]]
<1>4. d \in [1 .. n -> A] /\ d[n] = b
  <2>1. \A i \in 1 .. n : n - i \in 0 .. n - 1
    OBVIOUS
  <2>2. n - n = 0 /\ n \in 1 .. n
    OBVIOUS
  <2>3. \A i \in 1 .. n : g[n - i] \in A
    BY <1>3, <2>1
  <2>4. QED
    BY <1>3, <2>2, <2>3
<1>5. ASSUME NEW i \in 1 .. n - 1 PROVE d[i] = f[i][d[i + 1]]
  <2>1. PICK k \in 0 .. (n - 1) - 1 : k = n - (i + 1) /\ k + 1 = n - i /\ n - (k + 1) = i /\ k \in Nat
    OBVIOUS
  <2>2. g[k + 1] = h[k][g[k]]
    BY <1>3, <2>1
  <2>3. h[k] = f[i]
    BY <2>1
  <2>4. d[i] = g[k + 1] /\ d[i + 1] = g[k]
    BY <2>1
  <2> HIDE DEF d, h
  <2>5. QED
    BY <2>2, <2>3, <2>4
<1> HIDE DEF d
<1>6. Descends(d, n, A, b, f)
  BY <1>4, <1>5 DEF Descends
<1>7. QED
  BY <1>6

LEMMA ChainEntries ==
    ASSUME NEW t, NEW z, NEW v, NEW n, Chain(t, z, v, n)
    PROVE  /\ n \in Nat /\ Len(t.prej) = n /\ t.prej \in Seq(Gejs)
           /\ \A i \in 1 .. n : /\ z[i] \in Field /\ z[i] # 0 /\ z[i] \in Int /\ v[i] \in Int
                                /\ Entry(z[i], t.prej[i], v[i]) /\ t.zr[i] \in Field
           /\ \A i \in 1 .. n - 1 : z[i + 1] = F(z[i] * t.zr[i + 1])
           /\ n > 0 => t.prej[n].z = z[n]
<1>1. ASSUME NEW i \in 1 .. n
      PROVE  /\ z[i] \in Field /\ z[i] # 0 /\ z[i] \in Int /\ v[i] \in Int
             /\ Entry(z[i], t.prej[i], v[i]) /\ t.zr[i] \in Field
  <2>1. z[i] \in Field /\ v[i] \in Int /\ Entry(z[i], t.prej[i], v[i])
    BY DEF Chain
  <2>2. t.zr \in Seq(Field) /\ Len(t.zr) = n
    BY DEF Chain
  <2>3. t.zr[i] \in Field
    BY <2>2
  <2>4. QED
    BY <2>1, <2>3, EntryFacts
<1>2. QED
  BY <1>1 DEF Chain

ScalesOf(q, n) == LET Zs[i \in 1 .. n] == IF i >= n - 1 THEN q[n] ELSE F(Zs[i + 1] * q[i + 1])
                  IN  Zs

\* The ratios, multiplied from the last entry to the first.
LEMMA ScalesExist ==
    ASSUME NEW n \in Nat, n >= 1, NEW q, \A i \in 1 .. n : q[i] \in Field
    PROVE  LET Zs == ScalesOf(q, n)
           IN  /\ \A i \in 1 .. n : Zs[i] \in Field
               /\ n > 1 => Zs[n - 1] = q[n]
               /\ \A i \in 1 .. n - 2 : Zs[i] = F(Zs[i + 1] * q[i + 1])
<1> DEFINE D == CHOOSE d : d = [i \in 1 .. n |-> IF i >= n - 1 THEN q[n] ELSE F(d[i + 1] * q[i + 1])]
           f == [i \in Nat |-> [s \in Field |->
                    IF i \in 1 .. n - 2 THEN F(s * q[i + 1]) ELSE q[n]]]
<1>1. ScalesOf(q, n) = D
  BY DEF ScalesOf
<1>2. f \in [Nat -> [Field -> Field]]
  <2>1. ASSUME NEW i \in Nat, NEW s \in Field
        PROVE  (IF i \in 1 .. n - 2 THEN F(s * q[i + 1]) ELSE q[n]) \in Field
    <3>1. CASE i \in 1 .. n - 2
      <4>1. PICK k \in Field : k = q[i + 1]
        <5>1. i + 1 \in 1 .. n
          BY <3>1
        <5>2. QED
          BY <5>1
      <4>2. F(s * k) \in Field
        BY <4>1, ThreeProduct
      <4>3. QED
        BY <3>1, <4>1, <4>2
    <3>2. CASE i \notin 1 .. n - 2
      <4>1. n \in 1 .. n
        OBVIOUS
      <4>2. QED
        BY <3>2, <4>1
    <3>3. QED
      BY <3>1, <3>2
  <2>2. QED
    BY <2>1
<1>3. q[n] \in Field
  OBVIOUS
<1>4. PICK d : /\ d \in [1 .. n -> Field] /\ d[n] = q[n]
               /\ \A i \in 1 .. n - 1 : d[i] = f[i][d[i + 1]]
  <2> HIDE DEF f
  <2>1. PICK d : Descends(d, n, Field, q[n], f)
    BY <1>2, <1>3, RecursionDown
  <2>2. QED
    BY <2>1 DEF Descends
<1>5. ASSUME NEW i \in 1 .. n
      PROVE  d[i] = IF i >= n - 1 THEN q[n] ELSE F(d[i + 1] * q[i + 1])
  <2>1. CASE i = n
    BY <1>4, <2>1
  <2>2. CASE i = n - 1
    <3>1. i \in 1 .. n - 1 /\ i \in Nat /\ i \notin 1 .. n - 2 /\ i + 1 \in 1 .. n
      BY <2>2
    <3>2. d[i] = f[i][d[i + 1]] /\ d[i + 1] \in Field
      BY <1>4, <3>1
    <3>3. f[i][d[i + 1]] = q[n]
      BY <3>1, <3>2
    <3>4. QED
      BY <2>2, <3>2, <3>3
  <2>3. CASE i < n - 1
    <3>1. i \in 1 .. n - 1 /\ i \in Nat /\ i \in 1 .. n - 2 /\ i + 1 \in 1 .. n /\ ~(i >= n - 1)
      BY <2>3
    <3>2. d[i] = f[i][d[i + 1]] /\ d[i + 1] \in Field
      BY <1>4, <3>1
    <3>3. f[i][d[i + 1]] = F(d[i + 1] * q[i + 1])
      BY <3>1, <3>2
    <3>4. QED
      BY <3>1, <3>2, <3>3
  <2>4. QED
    BY <2>1, <2>2, <2>3
<1>6. d = [i \in 1 .. n |-> IF i >= n - 1 THEN q[n] ELSE F(d[i + 1] * q[i + 1])]
  <2>1. d = [i \in 1 .. n |-> d[i]]
    BY <1>4
  <2>2. QED
    BY <1>5, <2>1
<1>7. D = [i \in 1 .. n |-> IF i >= n - 1 THEN q[n] ELSE F(D[i + 1] * q[i + 1])]
  BY <1>6
<1> HIDE DEF f, D
<1> DEFINE S == {k \in Nat : k < n => D[n - k] \in Field}
<1>8. 0 \in S
  <2>1. n - 0 = n /\ n \in 1 .. n /\ n >= n - 1
    OBVIOUS
  <2>2. D[n] = q[n]
    BY <1>7, <2>1
  <2>3. QED
    BY <1>3, <2>1, <2>2
<1>9. ASSUME NEW k \in Nat, k \in S PROVE k + 1 \in S
  <2> SUFFICES ASSUME k + 1 < n PROVE D[n - (k + 1)] \in Field
    BY <1>9
  <2>1. PICK i \in 1 .. n - 1 : i = n - (k + 1) /\ i + 1 = n - k
    OBVIOUS
  <2>2. D[i + 1] \in Field /\ q[i + 1] \in Field /\ i \in 1 .. n
    BY <1>9, <2>1
  <2>3. F(D[i + 1] * q[i + 1]) \in Field
    BY <2>2, ThreeProduct
  <2>4. D[i] = IF i >= n - 1 THEN q[n] ELSE F(D[i + 1] * q[i + 1])
    BY <1>7, <2>2
  <2>5. QED
    BY <1>3, <2>1, <2>3, <2>4
<1> HIDE DEF S
<1>10. \A k \in Nat : k \in S
  BY <1>8, <1>9, Induction
<1>11. ASSUME NEW i \in 1 .. n PROVE D[i] \in Field
  <2>1. n - i \in Nat /\ n - i < n /\ n - (n - i) = i
    OBVIOUS
  <2>2. QED
    BY <1>10, <2>1 DEF S
<1>12. n > 1 => D[n - 1] = q[n]
  <2> SUFFICES ASSUME n > 1 PROVE D[n - 1] = q[n]
    OBVIOUS
  <2>1. PICK i \in 1 .. n : i = n - 1 /\ i >= n - 1
    OBVIOUS
  <2>2. QED
    BY <1>7, <2>1
<1>13. ASSUME NEW i \in 1 .. n - 2 PROVE D[i] = F(D[i + 1] * q[i + 1])
  <2>1. i \in 1 .. n /\ ~(i >= n - 1)
    OBVIOUS
  <2>2. QED
    BY <1>7, <2>1
<1>14. QED
  BY <1>1, <1>11, <1>12, <1>13

\* ge_globalz_set_table_gej
LEMMA GlobalzRight ==
    ASSUME NEW t, NEW z, NEW v, NEW n, Chain(t, z, v, n), n >= 1
    PROVE  /\ Len(Globalz(t)) = n /\ DOMAIN Globalz(t) = 1 .. n
           /\ \A i \in 1 .. n : Entry(z[n], Globalz(t)[i], v[i])
<1> DEFINE Zs == ScalesOf(t.zr, n)
<1>0. /\ n \in Nat /\ Len(t.prej) = n
      /\ \A i \in 1 .. n : /\ z[i] \in Field /\ z[i] # 0 /\ v[i] \in Int
                           /\ Entry(z[i], t.prej[i], v[i]) /\ t.zr[i] \in Field
      /\ \A i \in 1 .. n - 1 : z[i + 1] = F(z[i] * t.zr[i + 1])
  BY ChainEntries
<1>1. Globalz(t) = [i \in 1 .. n |-> IF i = n THEN Ge(t.prej[i].x, t.prej[i].y)
                                     ELSE GeSetGejZinv(t.prej[i], Zs[i])]
  <2>1. Globalz(t) = [i \in 1 .. Len(t.prej) |->
                         IF i = Len(t.prej) THEN Ge(t.prej[i].x, t.prej[i].y)
                         ELSE GeSetGejZinv(t.prej[i], ScalesOf(t.zr, Len(t.prej))[i])]
    BY Zenon DEF Globalz, ScalesOf
  <2>2. QED
    BY <1>0, <2>1
<1>2. PICK q : q = t.zr
  OBVIOUS
<1>3. /\ \A i \in 1 .. n : Zs[i] \in Field
      /\ n > 1 => Zs[n - 1] = q[n]
      /\ \A i \in 1 .. n - 2 : Zs[i] = F(Zs[i + 1] * q[i + 1])
  <2>1. \A i \in 1 .. n : q[i] \in Field
    BY <1>0, <1>2
  <2>2. Zs = ScalesOf(q, n)
    BY <1>2
  <2> HIDE DEF Zs
  <2>3. QED
    BY <1>0, <2>1, <2>2, ScalesExist
<1> HIDE DEF Zs
<1> DEFINE S == {k \in Nat : k + 1 < n => F(z[n - (k + 1)] * Zs[n - (k + 1)]) = z[n]}
<1>4. 0 \in S
  <2> SUFFICES ASSUME 1 < n PROVE F(z[n - 1] * Zs[n - 1]) = z[n]
    OBVIOUS
  <2>1. PICK i \in 1 .. n - 1 : i = n - 1 /\ i + 1 = n
    BY <1>0
  <2>2. z[i + 1] = F(z[i] * q[i + 1])
    BY <1>0, <1>2
  <2>3. QED
    BY <1>3, <2>1, <2>2
<1>5. ASSUME NEW k \in Nat, k \in S PROVE k + 1 \in S
  <2> SUFFICES ASSUME (k + 1) + 1 < n
               PROVE  F(z[n - ((k + 1) + 1)] * Zs[n - ((k + 1) + 1)]) = z[n]
    BY <1>5
  <2>1. PICK i \in 1 .. n - 2 : i = n - ((k + 1) + 1) /\ i + 1 = n - (k + 1)
    BY <1>0
  <2>2. F(z[i + 1] * Zs[i + 1]) = z[n]
    <3>1. k + 1 < n
      BY <1>0
    <3>2. F(z[n - (k + 1)] * Zs[n - (k + 1)]) = z[n]
      BY <1>5, <3>1
    <3>3. QED
      BY <2>1, <3>2
  <2>3. i \in 1 .. n - 1 /\ i \in 1 .. n /\ i + 1 \in 1 .. n
    BY <1>0
  <2>4. z[i + 1] = F(z[i] * q[i + 1]) /\ Zs[i] = F(Zs[i + 1] * q[i + 1])
    BY <1>0, <1>2, <1>3, <2>3
  <2>5. z[i] \in Field /\ q[i + 1] \in Field /\ Zs[i + 1] \in Field
    BY <1>0, <1>2, <1>3, <2>3
  <2>6. F(F(z[i] * q[i + 1]) * Zs[i + 1]) = F(z[i] * F(Zs[i + 1] * q[i + 1]))
    BY <2>5, ThreeProduct
  <2>7. QED
    BY <2>1, <2>2, <2>4, <2>6
<1> HIDE DEF S
<1>6. \A k \in Nat : k \in S
  BY <1>4, <1>5, Induction
<1>7. ASSUME NEW i \in 1 .. n PROVE Entry(z[n], Globalz(t)[i], v[i])
  <2>1. CASE i = n
    <3>1. Globalz(t)[n] = Ge(t.prej[n].x, t.prej[n].y)
      BY <1>1, <2>1
    <3>2. Entry(z[n], t.prej[n], v[n])
      BY <1>0, <2>1
    <3>3. PICK e, p : e = Globalz(t)[n] /\ p = t.prej[n]
      OBVIOUS
    <3>4. e = Ge(p.x, p.y)
      BY <3>1, <3>3
    <3>5. e.x = p.x /\ e.y = p.y /\ e.infinity = FALSE
      BY <3>4 DEF Ge
    <3>6. Entry(z[n], e, v[n])
      BY <3>2, <3>3, <3>5 DEF Entry
    <3>7. QED
      BY <2>1, <3>3, <3>6
  <2>2. CASE i # n
    <3>1. PICK k \in Nat : k + 1 < n /\ i = n - (k + 1)
      <4>1. n - i - 1 \in Nat /\ (n - i - 1) + 1 < n /\ i = n - ((n - i - 1) + 1)
        BY <1>0, <2>2
      <4>2. QED
        BY <4>1
    <3>2. F(z[i] * Zs[i]) = z[n]
      BY <1>6, <3>1 DEF S
    <3>3. PICK s \in Field : s = Zs[i]
      BY <1>3
    <3>4. z[i] \in Field /\ z[i] \in Int /\ z[n] # 0
      BY <1>0, Prime
    <3>5. s # 0
      <4>1. z[i] * 0 = 0
        BY <3>4
      <4>2. F(0) = 0
        BY Prime, FieldFixed
      <4>3. QED
        BY <3>2, <3>3, <3>4, <4>1, <4>2
    <3>6. Entry(z[i], t.prej[i], v[i]) /\ v[i] \in Int
      BY <1>0
    <3>7. Entry(F(z[i] * s), GeSetGejZinv(t.prej[i], s), v[i])
      BY <3>3, <3>4, <3>5, <3>6, EntryScaled
    <3>8. Globalz(t)[i] = GeSetGejZinv(t.prej[i], s)
      BY <1>1, <2>2, <3>3
    <3>9. QED
      BY <3>2, <3>3, <3>7, <3>8
  <2>3. QED
    BY <2>1, <2>2
<1>8. Len(Globalz(t)) = n /\ DOMAIN Globalz(t) = 1 .. n
  <2>1. PICK g : g = Globalz(t)
    OBVIOUS
  <2>2. DOMAIN g = 1 .. n
    BY <1>1, <2>1
  <2>3. g = [i \in 1 .. n |-> g[i]]
    BY <1>1, <2>1
  <2>4. Len(g) = n
    BY <1>0, <2>3
  <2>5. QED
    BY <2>1, <2>2, <2>4
<1>9. QED
  BY <1>7, <1>8

InversesOf(p, q, n) == LET Zi[i \in 1 .. n] == IF i = n THEN FieldInverse[p[i].z]
                                                ELSE F(Zi[i + 1] * q[i + 1])
                       IN  Zi

Invertible(p, q, n, c) ==
    /\ n \in Nat /\ n >= 1 /\ c \in Field /\ c = FieldInverse[p[n].z]
    /\ \A i \in 1 .. n : q[i] \in Field

LEMMA InversesDown ==
    ASSUME NEW n, NEW p, NEW c, NEW q, Invertible(p, q, n, c)
    PROVE  LET Zi == InversesOf(p, q, n)
           IN  /\ \A i \in 1 .. n : Zi[i] \in Field
               /\ Zi[n] = c
               /\ \A i \in 1 .. n - 1 : Zi[i] = F(Zi[i + 1] * q[i + 1])
<1> n \in Nat /\ n >= 1 /\ c \in Field /\ c = FieldInverse[p[n].z]
  BY DEF Invertible
<1> \A i \in 1 .. n : q[i] \in Field
  BY DEF Invertible
<1> DEFINE D == CHOOSE d : d = [i \in 1 .. n |-> IF i = n THEN FieldInverse[p[i].z]
                                                  ELSE F(d[i + 1] * q[i + 1])]
           f == [i \in Nat |-> [s \in Field |->
                    IF i \in 1 .. n - 1 THEN F(s * q[i + 1]) ELSE c]]
<1>1. InversesOf(p, q, n) = D
  BY DEF InversesOf
<1>2. f \in [Nat -> [Field -> Field]]
  <2>1. ASSUME NEW i \in Nat, NEW s \in Field
        PROVE  (IF i \in 1 .. n - 1 THEN F(s * q[i + 1]) ELSE c) \in Field
    <3>1. CASE i \in 1 .. n - 1
      <4>1. PICK k \in Field : k = q[i + 1]
        <5>1. i + 1 \in 1 .. n
          BY <3>1
        <5>2. QED
          BY <5>1
      <4>2. F(s * k) \in Field
        BY <4>1, ThreeProduct
      <4>3. QED
        BY <3>1, <4>1, <4>2
    <3>2. QED
      BY <3>1
  <2>2. QED
    BY <2>1
<1>4. PICK d : /\ d \in [1 .. n -> Field] /\ d[n] = c
               /\ \A i \in 1 .. n - 1 : d[i] = f[i][d[i + 1]]
  <2> HIDE DEF f
  <2>1. PICK d : Descends(d, n, Field, c, f)
    BY <1>2, RecursionDown
  <2>2. QED
    BY <2>1 DEF Descends
<1>5. ASSUME NEW i \in 1 .. n
      PROVE  d[i] = IF i = n THEN FieldInverse[p[i].z] ELSE F(d[i + 1] * q[i + 1])
  <2>1. CASE i = n
    BY <1>4, <2>1
  <2>2. CASE i # n
    <3>1. i \in 1 .. n - 1 /\ i \in Nat /\ i + 1 \in 1 .. n
      BY <2>2
    <3>2. d[i] = f[i][d[i + 1]] /\ d[i + 1] \in Field
      BY <1>4, <3>1
    <3>3. f[i][d[i + 1]] = F(d[i + 1] * q[i + 1])
      BY <3>1, <3>2
    <3>4. QED
      BY <2>2, <3>2, <3>3
  <2>3. QED
    BY <2>1, <2>2
<1>6. d = [i \in 1 .. n |-> IF i = n THEN FieldInverse[p[i].z] ELSE F(d[i + 1] * q[i + 1])]
  <2>1. d = [i \in 1 .. n |-> d[i]]
    BY <1>4
  <2>2. QED
    BY <1>5, <2>1
<1>7. D = [i \in 1 .. n |-> IF i = n THEN FieldInverse[p[i].z] ELSE F(D[i + 1] * q[i + 1])]
  BY <1>6
<1> HIDE DEF f, D
<1>8. D[n] = c
  <2>1. n \in 1 .. n
    OBVIOUS
  <2>2. QED
    BY <1>7, <2>1
<1>9. ASSUME NEW i \in 1 .. n - 1 PROVE D[i] = F(D[i + 1] * q[i + 1])
  <2>1. i \in 1 .. n /\ i # n
    OBVIOUS
  <2>2. QED
    BY <1>7, <2>1
<1> DEFINE S == {k \in Nat : k < n => D[n - k] \in Field}
<1>10. 0 \in S
  <2>1. n - 0 = n
    OBVIOUS
  <2>2. QED
    BY <1>8, <2>1
<1>11. ASSUME NEW k \in Nat, k \in S PROVE k + 1 \in S
  <2> SUFFICES ASSUME k + 1 < n PROVE D[n - (k + 1)] \in Field
    BY <1>11
  <2>1. PICK i \in 1 .. n - 1 : i = n - (k + 1) /\ i + 1 = n - k
    OBVIOUS
  <2>2. D[i + 1] \in Field /\ q[i + 1] \in Field /\ i \in 1 .. n
    BY <1>11, <2>1
  <2>3. F(D[i + 1] * q[i + 1]) \in Field
    BY <2>2, ThreeProduct
  <2>4. QED
    BY <1>9, <2>1, <2>3
<1> HIDE DEF S
<1>12. \A k \in Nat : k \in S
  BY <1>10, <1>11, Induction
<1>13. ASSUME NEW i \in 1 .. n PROVE D[i] \in Field
  <2>1. n - i \in Nat /\ n - i < n /\ n - (n - i) = i
    OBVIOUS
  <2>2. QED
    BY <1>12, <2>1 DEF S
<1>14. QED
  BY <1>1, <1>8, <1>9, <1>13

\* ge_set_table_gej_var
LEMMA SetTableRight ==
    ASSUME NEW t, NEW z, NEW v, NEW n, Chain(t, z, v, n), n >= 1, NEW i \in 1 .. n
    PROVE  SetTable(t)[i] = ToGe(TimesOf(v[i])) /\ TimesOf(v[i]) # Infinity
<1> DEFINE Zi == InversesOf(t.prej, t.zr, n)
<1>0. /\ n \in Nat /\ Len(t.prej) = n /\ t.prej[n].z = z[n]
      /\ \A j \in 1 .. n : /\ z[j] \in Field /\ z[j] # 0 /\ v[j] \in Int
                           /\ Entry(z[j], t.prej[j], v[j]) /\ t.zr[j] \in Field
      /\ \A j \in 1 .. n - 1 : z[j + 1] = F(z[j] * t.zr[j + 1])
  BY ChainEntries
<1>1. SetTable(t) = [j \in 1 .. n |-> GeSetGejZinv(t.prej[j], Zi[j])]
  <2>1. SetTable(t) = [j \in 1 .. Len(t.prej) |->
                         GeSetGejZinv(t.prej[j], InversesOf(t.prej, t.zr, Len(t.prej))[j])]
    BY Zenon DEF SetTable, InversesOf
  <2>2. QED
    BY <1>0, <2>1
<1>2. PICK q, c : q = t.zr /\ c = FieldInverse[t.prej[n].z]
  OBVIOUS
<1>3. c \in Field /\ Is(z[n] * c, 1)
  <2>1. n \in 1 .. n
    BY <1>0
  <2>2. PICK a \in Field : a = z[n] /\ a # 0
    BY <1>0, <2>1
  <2>3. FieldInverse[a] \in Field /\ Cong(P, a * FieldInverse[a], 1)
    BY <2>2, FieldInverses
  <2>4. PICK b \in Field : b = FieldInverse[a] /\ b = c
    BY <1>0, <1>2, <2>2, <2>3
  <2>5. Cong(P, a * b, 1) /\ a * b \in Int /\ 1 \in Int
    <3>1. a \in Int /\ b \in Int
      BY Prime
    <3>2. a * b \in Int
      BY <3>1, SMT
    <3>3. QED
      BY <2>3, <2>4, <3>2
  <2>6. QED
    BY <2>2, <2>4, <2>5 DEF Is
<1>4. /\ \A j \in 1 .. n : Zi[j] \in Field
      /\ Zi[n] = c
      /\ \A j \in 1 .. n - 1 : Zi[j] = F(Zi[j + 1] * q[j + 1])
  <2>1. \A j \in 1 .. n : q[j] \in Field
    BY <1>0, <1>2
  <2>2. PICK p : p = t.prej
    OBVIOUS
  <2>3. Zi = InversesOf(p, q, n) /\ c = FieldInverse[p[n].z]
    BY <1>2, <2>2
  <2>4. Invertible(p, q, n, c)
    BY <1>0, <1>3, <2>1, <2>3 DEF Invertible
  <2>5. LET Y == InversesOf(p, q, n)
        IN  /\ \A j \in 1 .. n : Y[j] \in Field
            /\ Y[n] = c
            /\ \A j \in 1 .. n - 1 : Y[j] = F(Y[j + 1] * q[j + 1])
    BY <2>4, InversesDown
  <2> HIDE DEF Zi
  <2>6. QED
    BY <2>3, <2>5
<1> HIDE DEF Zi
<1> DEFINE S == {k \in Nat : k < n => F(z[n - k] * Zi[n - k]) = F(1)}
<1>5. 0 \in S
  <2>1. n - 0 = n
    BY <1>0
  <2>2. F(z[n] * c) = F(1)
    <3>1. PICK m \in Int : m = z[n] * c
      BY <1>3 DEF Is
    <3>2. Is(m, 1) /\ Is(1, 1)
      BY <1>3, <3>1, IsItself
    <3>3. Is(F(m), 1) /\ F(m) \in Field /\ Is(F(1), 1) /\ F(1) \in Field
      BY <3>2, IsF
    <3>4. QED
      BY <3>1, <3>3, IsUnique
  <2>3. QED
    BY <1>4, <2>1, <2>2
<1>6. ASSUME NEW k \in Nat, k \in S PROVE k + 1 \in S
  <2> SUFFICES ASSUME k + 1 < n PROVE F(z[n - (k + 1)] * Zi[n - (k + 1)]) = F(1)
    BY <1>6
  <2>1. PICK j \in 1 .. n - 1 : j = n - (k + 1) /\ j + 1 = n - k
    BY <1>0
  <2>2. F(z[j + 1] * Zi[j + 1]) = F(1)
    <3>1. k < n
      BY <1>0
    <3>2. F(z[n - k] * Zi[n - k]) = F(1)
      BY <1>6, <3>1
    <3>3. QED
      BY <2>1, <3>2
  <2>3. j \in 1 .. n /\ j + 1 \in 1 .. n
    BY <1>0
  <2>4. z[j + 1] = F(z[j] * q[j + 1]) /\ Zi[j] = F(Zi[j + 1] * q[j + 1])
    BY <1>0, <1>2, <1>4
  <2>5. z[j] \in Field /\ q[j + 1] \in Field /\ Zi[j + 1] \in Field
    BY <1>0, <1>2, <1>4, <2>3
  <2>6. F(F(z[j] * q[j + 1]) * Zi[j + 1]) = F(z[j] * F(Zi[j + 1] * q[j + 1]))
    BY <2>5, ThreeProduct
  <2>7. QED
    BY <2>1, <2>2, <2>4, <2>6
<1> HIDE DEF S
<1>7. \A k \in Nat : k \in S
  BY <1>5, <1>6, Induction
<1>8. F(z[i] * Zi[i]) = F(1)
  <2>1. n - i \in Nat /\ n - i < n /\ n - (n - i) = i
    BY <1>0
  <2>2. QED
    BY <1>7, <2>1 DEF S
<1>9. PICK a \in Field, b \in Field : a = z[i] /\ b = Zi[i] /\ a \in Int /\ b \in Int
  BY <1>0, <1>4, Prime
<1>10. Is(a * b, 1)
  <2>1. a * b \in Int
    BY <1>9, SMT
  <2>2. PICK m \in Int : m = a * b
    BY <2>1
  <2>3. Is(m, m) /\ Is(1, 1)
    BY <2>2, IsItself
  <2>4. Is(F(m), m) /\ Is(F(1), 1) /\ F(m) = F(1)
    BY <1>8, <1>9, <2>2, <2>3, IsF
  <2>5. Is(m, F(m))
    BY <2>4, IsSym
  <2>6. Is(m, 1)
    BY <2>4, <2>5, IsTrans
  <2>7. QED
    BY <2>2, <2>6
<1>11. Entry(a, t.prej[i], v[i]) /\ v[i] \in Int
  BY <1>0, <1>9
<1>12. GeSetGejZinv(t.prej[i], b) = ToGe(TimesOf(v[i])) /\ TimesOf(v[i]) # Infinity
  BY <1>10, <1>11, EntryAffine
<1>13. QED
  BY <1>1, <1>9, <1>12
=============================================================================
