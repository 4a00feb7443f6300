---------------------------- MODULE EcdsaProofs ----------------------------
(***************************************************************************)
(* What holds of key pairs and their signatures (DerivedKeys, Ecdsa) on    *)
(* every curve of the kind: the two halves of a pair stay together, both   *)
(* functions sign alike, and a signature verifies in one form and recovers *)
(* its signer.                                                             *)
(***************************************************************************)
EXTENDS DerivedKeys, PointProofs, SequenceTheorems

---------------------------------------------------------------------------
(* Arithmetic modulo N.                                                    *)

LEMMA ScalarSet ==
    /\ N \in Nat /\ N > 0 /\ Scalars \subseteq Int /\ 0 \in Scalars /\ 1 \in Scalars
    /\ \A a \in Int : a \in Scalars <=> 0 <= a /\ a < N
    /\ \A a \in Scalars : a % N = a
    /\ \A a \in Int : a % N \in Scalars /\ Cong(N, a % N, a) /\ Cong(N, a, a % N)
<1>1. N \in Nat /\ N > 3
  BY Sizes
<1>2. ASSUME NEW a \in Int
      PROVE  a % N \in Scalars /\ Cong(N, a % N, a) /\ Cong(N, a, a % N)
  <2>1. a % N \in Scalars
    BY <1>1, DivisionOf DEF Scalars
  <2>2. QED
    BY <1>1, <2>1, CongMod
<1>3. \A a \in Scalars : a % N = a
  BY <1>1, SMT DEF Scalars
<1>4. QED
  BY <1>1, <1>2, <1>3 DEF Scalars

LEMMA MulCong ==
    ASSUME NEW a \in Scalars, NEW b \in Scalars
    PROVE  /\ Mul(a, b) \in Scalars /\ Mul(a, b) = Mul(b, a)
           /\ a * b \in Int /\ Cong(N, Mul(a, b), a * b)
<1>1. a \in Int /\ b \in Int
  BY ScalarSet
<1>2. a * b \in Int /\ a * b = b * a
  BY <1>1, SMT
<1>3. QED
  BY <1>2, ScalarSet, Zenon DEF Mul

LEMMA NegateCong ==
    ASSUME NEW a \in Scalars
    PROVE  Negate(a) \in Scalars /\ Cong(N, Negate(a), -a)
<1>1. -a \in Int
  BY ScalarSet
<1>2. QED
  BY <1>1, ScalarSet, Zenon DEF Negate

LEMMA SumCong ==
    ASSUME NEW a \in Scalars, NEW b \in Scalars
    PROVE  (a + b) % N \in Scalars /\ Cong(N, (a + b) % N, a + b)
<1>1. a + b \in Int
  BY ScalarSet
<1>2. QED
  BY <1>1, ScalarSet, Zenon

\* Congruent scalars are equal.
LEMMA SameScalar ==
    ASSUME NEW a \in Scalars, NEW b \in Scalars
    PROVE  Cong(N, a, b) <=> a = b
BY ScalarSet, CongUnique, CongRefl DEF Scalars

\* A unit moves to the other side.
LEMMA UnitMoves ==
    ASSUME NEW u \in Int, NEW v \in Int, NEW x \in Int, NEW y \in Int,
           Cong(N, u * v, 1)
    PROVE  Cong(N, x, v * y) <=> Cong(N, u * x, y)
<1>1. /\ N \in Nat /\ 1 \in Int
      /\ u * v \in Int /\ u * x \in Int /\ v * y \in Int
      /\ u * (v * y) \in Int /\ v * (u * x) \in Int
      /\ u * (v * y) = (u * v) * y /\ v * (u * x) = (u * v) * x
      /\ 1 * x = x /\ 1 * y = y
  BY ScalarSet, SMT
<1>2. \A z \in Int : Cong(N, (u * v) * z, 1 * z)
  BY <1>1, CongMul, CongRefl
<1>3. Cong(N, u * (v * y), y) /\ Cong(N, v * (u * x), x)
  BY <1>1, <1>2, Zenon
<1>4. ASSUME Cong(N, x, v * y) PROVE Cong(N, u * x, y)
  <2>1. Cong(N, u, u)
    BY <1>1, CongRefl
  <2>2. Cong(N, u * x, u * (v * y))
    BY <1>1, <1>4, <2>1, CongMul
  <2>3. QED
    BY <1>1, <1>3, <2>2, CongTrans
<1>5. ASSUME Cong(N, u * x, y) PROVE Cong(N, x, v * y)
  <2>1. Cong(N, v, v)
    BY <1>1, CongRefl
  <2>2. Cong(N, v * (u * x), v * y)
    BY <1>1, <1>5, <2>1, CongMul
  <2>3. Cong(N, x, v * (u * x))
    BY <1>1, <1>3, CongSym
  <2>4. QED
    BY <1>1, <2>2, <2>3, CongTrans
<1>6. QED
  BY <1>4, <1>5

\* The product of two scalars that are not zero is not zero.
LEMMA NonzeroProduct ==
    ASSUME NEW a \in Scalars, NEW b \in Scalars, a # 0, b # 0
    PROVE  Mul(a, b) # 0
<1> SUFFICES ASSUME Mul(a, b) = 0 PROVE FALSE
  OBVIOUS
<1>1. PICK i \in Int : Cong(N, a * i, 1)
  BY ScalarInverses, ScalarSet
<1>2. N \in Nat /\ a \in Int /\ b \in Int /\ a * b \in Int /\ 0 \in Scalars /\ 0 \in Int
  BY MulCong, ScalarSet
<1>3. Cong(N, a * b, 0)
  BY <1>2, MulCong, CongSym
<1>4. Cong(N, b, 0)
  BY <1>1, <1>2, <1>3, CongCancelZero
<1>5. QED
  BY <1>2, <1>4, SameScalar
---------------------------------------------------------------------------
(* The two equations of ECDSA: a pair (r, s), a key d, a message m and the *)
(* nonce j belong together if s j = r d + m.                               *)

\* The logarithms of the point that verification computes, and of the key
\* that recovery computes from the point with logarithm j.
VerifiedLog(r, s, d, m) ==
    (Mul(Mul(ScalarInverse[s], r), d) + Mul(ScalarInverse[s], m)) % N
RecoveredLog(r, s, j, m) ==
    (Mul(Mul(ScalarInverse[r], s), j) + Negate(Mul(ScalarInverse[r], m))) % N

\* Solving c x = a b + e for x.
LEMMA Solved ==
    ASSUME NEW a \in Scalars, NEW b \in Scalars, NEW c \in Scalars, NEW e \in Int,
           NEW f \in Scalars, NEW x \in Scalars, c # 0,
           Cong(N, f, ScalarInverse[c] * e)
    PROVE  (Mul(Mul(ScalarInverse[c], a), b) + f) % N = x
                <=> Cong(N, c * x, a * b + e)
<1>1. PICK i \in Scalars : i = ScalarInverse[c] /\ Cong(N, c * i, 1)
  BY ScalarInverses
<1>2. Mul(i, a) \in Scalars /\ Mul(Mul(i, a), b) \in Scalars
  BY MulCong
<1>3. /\ N \in Nat /\ i \in Int /\ a \in Int /\ b \in Int /\ c \in Int
      /\ x \in Int /\ f \in Int
      /\ Mul(i, a) \in Int /\ Mul(Mul(i, a), b) \in Int
  BY <1>2, ScalarSet
<1>4. /\ i * a \in Int /\ (i * a) * b \in Int /\ i * e \in Int /\ a * b \in Int
      /\ Mul(i, a) * b \in Int /\ a * b + e \in Int
      /\ (i * a) * b + i * e = i * (a * b + e)
      /\ (i * a) * b + i * e \in Int
      /\ Mul(Mul(i, a), b) + f \in Int /\ i * (a * b + e) \in Int
  BY <1>3, SMT
<1>5. Cong(N, Mul(i, a), i * a) /\ Cong(N, Mul(Mul(i, a), b), Mul(i, a) * b)
  BY <1>2, MulCong
<1>6. Cong(N, Mul(i, a) * b, (i * a) * b)
  <2>1. Cong(N, b, b)
    BY <1>3, CongRefl
  <2>2. QED
    BY <1>3, <1>4, <1>5, <2>1, CongMul
<1>7. Cong(N, Mul(Mul(i, a), b), (i * a) * b)
  BY <1>3, <1>4, <1>5, <1>6, CongTrans
<1>8. Cong(N, Mul(Mul(i, a), b) + f, i * (a * b + e))
  <2>1. Cong(N, f, i * e)
    BY <1>1
  <2>2. Cong(N, Mul(Mul(i, a), b) + f, (i * a) * b + i * e)
    BY <1>3, <1>4, <1>7, <2>1, CongAdd
  <2>3. QED
    BY <1>4, <2>2, Zenon
<1> DEFINE t == Mul(Mul(i, a), b) + f
           u == i * (a * b + e)
<1>9. t % N \in Scalars /\ t % N \in Int /\ Cong(N, t % N, t) /\ Cong(N, t, t % N)
  BY <1>4, ScalarSet
<1>10. (t % N = x) <=> Cong(N, x, u)
  <2>1. t \in Int /\ u \in Int /\ Cong(N, t, u) /\ Cong(N, u, t)
    BY <1>3, <1>4, <1>8, CongSym
  <2> HIDE DEF t, u
  <2>2. ASSUME t % N = x PROVE Cong(N, x, u)
    BY <1>3, <1>9, <2>1, <2>2, CongTrans
  <2>3. ASSUME Cong(N, x, u) PROVE t % N = x
    <3>1. Cong(N, x, t)
      BY <1>3, <2>1, <2>3, CongTrans
    <3>2. Cong(N, x, t % N)
      BY <1>3, <1>9, <2>1, <3>1, CongTrans
    <3>3. QED
      BY <1>9, <3>2, SameScalar
  <2>4. QED
    BY <2>2, <2>3
<1>11. Cong(N, x, u) <=> Cong(N, c * x, a * b + e)
  BY <1>1, <1>3, <1>4, UnitMoves
<1>12. QED
  BY <1>1, <1>10, <1>11, Zenon

LEMMA Verified ==
    ASSUME NEW r \in Scalars, NEW s \in Scalars, NEW d \in Scalars, NEW m \in Scalars,
           NEW j \in Scalars, s # 0
    PROVE  VerifiedLog(r, s, d, m) = j <=> Cong(N, s * j, r * d + m)
<1>1. ScalarInverse[s] \in Scalars
  BY ScalarInverses
<1>2. Mul(ScalarInverse[s], m) \in Scalars
      /\ Cong(N, Mul(ScalarInverse[s], m), ScalarInverse[s] * m)
  BY <1>1, MulCong
<1>3. m \in Int
  BY ScalarSet
<1>4. QED
  BY <1>2, <1>3, Solved DEF VerifiedLog

LEMMA Recovered ==
    ASSUME NEW r \in Scalars, NEW s \in Scalars, NEW d \in Scalars, NEW m \in Scalars,
           NEW j \in Scalars, r # 0
    PROVE  RecoveredLog(r, s, j, m) = d <=> Cong(N, s * j, r * d + m)
<1>1. PICK i \in Scalars : i = ScalarInverse[r]
  BY ScalarInverses
<1>2. /\ Mul(i, m) \in Scalars /\ Mul(i, m) \in Int /\ i * m \in Int
      /\ Cong(N, Mul(i, m), i * m)
  BY MulCong, ScalarSet
<1>3. Negate(Mul(i, m)) \in Scalars /\ Negate(Mul(i, m)) \in Int
      /\ Cong(N, Negate(Mul(i, m)), -Mul(i, m))
  BY <1>2, NegateCong, ScalarSet
<1>4. N \in Nat /\ i \in Int /\ m \in Int /\ -m \in Int /\ -Mul(i, m) \in Int
      /\ -(i * m) \in Int /\ i * (-m) = -(i * m)
  BY <1>2, ScalarSet, SMT
<1>5. Cong(N, -Mul(i, m), -(i * m))
  BY <1>2, <1>4, CongNeg
<1>6. Cong(N, Negate(Mul(i, m)), i * (-m))
  <2>1. Cong(N, Negate(Mul(i, m)), -(i * m))
    BY <1>3, <1>4, <1>5, CongTrans
  <2>2. QED
    BY <1>4, <2>1, Zenon
<1>7. (RecoveredLog(r, s, j, m) = d) <=> Cong(N, r * d, s * j + -m)
  <2> DEFINE f == Negate(Mul(ScalarInverse[r], m))
             e == -m
  <2>1. f \in Scalars /\ e \in Int /\ Cong(N, f, ScalarInverse[r] * e)
    BY <1>1, <1>3, <1>4, <1>6, Zenon
  <2>2. RecoveredLog(r, s, j, m) = (Mul(Mul(ScalarInverse[r], s), j) + f) % N
    BY DEF RecoveredLog
  <2> HIDE DEF f, e
  <2>3. (Mul(Mul(ScalarInverse[r], s), j) + f) % N = d <=> Cong(N, r * d, s * j + e)
    BY <2>1, Solved
  <2>4. QED
    BY <2>2, <2>3 DEF e
<1>8. Cong(N, r * d, s * j + -m) <=> Cong(N, s * j, r * d + m)
  <2>1. PICK x \in Int, y \in Int : x = r * d /\ y = s * j
    BY MulCong
  <2>2. ASSUME Cong(N, x, y + -m) PROVE Cong(N, y, x + m)
    <3>1. PICK k \in Int : x = y + -m + k * N
      BY <2>2 DEF Cong
    <3>2. -k \in Int /\ y = x + m + (-k) * N
      BY <1>4, <2>1, <3>1, SMT
    <3>3. QED
      BY <3>2 DEF Cong
  <2>3. ASSUME Cong(N, y, x + m) PROVE Cong(N, x, y + -m)
    <3>1. PICK k \in Int : y = x + m + k * N
      BY <2>3 DEF Cong
    <3>2. -k \in Int /\ x = y + -m + (-k) * N
      BY <1>4, <2>1, <3>1, SMT
    <3>3. QED
      BY <3>2 DEF Cong
  <2>4. QED
    BY <2>1, <2>2, <2>3
<1>9. QED
  BY <1>7, <1>8
---------------------------------------------------------------------------
(* Verification and recovery.                                              *)

\* The point that verification computes.
NoncePoint(r, s, d, m) == Times[VerifiedLog(r, s, d, m)]

LEMMA VerifiedScalar ==
    ASSUME NEW r \in Scalars, NEW s \in Scalars, NEW d \in Scalars, NEW m \in Scalars,
           s # 0
    PROVE  VerifiedLog(r, s, d, m) \in Scalars
<1>1. ScalarInverse[s] \in Scalars
  BY ScalarInverses
<1>2. /\ Mul(Mul(ScalarInverse[s], r), d) \in Scalars
      /\ Mul(ScalarInverse[s], m) \in Scalars
  BY <1>1, MulCong
<1>3. QED
  BY <1>2, SumCong DEF VerifiedLog

LEMMA RecoveredScalar ==
    ASSUME NEW r \in Scalars, NEW s \in Scalars, NEW j \in Scalars, NEW m \in Scalars,
           r # 0
    PROVE  RecoveredLog(r, s, j, m) \in Scalars
<1>1. ScalarInverse[r] \in Scalars
  BY ScalarInverses
<1>2. /\ Mul(Mul(ScalarInverse[r], s), j) \in Scalars
      /\ Mul(ScalarInverse[r], m) \in Scalars
  BY <1>1, MulCong
<1>3. Negate(Mul(ScalarInverse[r], m)) \in Scalars
  BY <1>2, NegateCong
<1>4. QED
  BY <1>2, <1>3, SumCong DEF RecoveredLog

LEMMA VerifyPoint ==
    ASSUME NEW r \in Scalars, NEW s \in Scalars, NEW d \in Scalars, NEW m
    PROVE  SigVerify(r, s, Times[d], m) <=>
               /\ r # 0 /\ s # 0
               /\ NoncePoint(r, s, d, m) # Infinity
               /\ \/ r = NoncePoint(r, s, d, m)[1]
                  \/ r < P - N /\ r + N = NoncePoint(r, s, d, m)[1]
<1>1. Ecmult(Mul(ScalarInverse[s], r), Times[d], Mul(ScalarInverse[s], m))
        = NoncePoint(r, s, d, m)
  BY LogTimes DEF Ecmult, NoncePoint, VerifiedLog
<1>2. QED
  BY <1>1 DEF SigVerify

\* The key that recovery computes from the point R is Times[d] if R is the
\* point that verification computes for Times[d], and for no other R.
LEMMA RecoveredKey ==
    ASSUME NEW r \in Scalars, NEW s \in Scalars, NEW d \in Scalars, NEW m \in Scalars,
           r # 0, s # 0, NEW R \in Points
    PROVE  Ecmult(Mul(ScalarInverse[r], s), R, Negate(Mul(ScalarInverse[r], m)))
                = Times[d]
           <=> R = NoncePoint(r, s, d, m)
<1>1. PICK j \in Scalars : j = Log[R] /\ Times[j] = R
  BY LogPoint
<1>2. Ecmult(Mul(ScalarInverse[r], s), R, Negate(Mul(ScalarInverse[r], m)))
        = Times[RecoveredLog(r, s, j, m)]
  BY <1>1 DEF Ecmult, RecoveredLog
<1>3. RecoveredLog(r, s, j, m) \in Scalars /\ VerifiedLog(r, s, d, m) \in Scalars
  BY RecoveredScalar, VerifiedScalar
<1>4. Times[RecoveredLog(r, s, j, m)] = Times[d] <=> RecoveredLog(r, s, j, m) = d
  BY <1>3, GeneratorAssumption
<1>5. R = NoncePoint(r, s, d, m) <=> VerifiedLog(r, s, d, m) = j
  BY <1>1, <1>3, GeneratorAssumption DEF NoncePoint
<1>6. (RecoveredLog(r, s, j, m) = d) <=> (VerifiedLog(r, s, d, m) = j)
  BY Verified, Recovered
<1>7. QED
  BY <1>2, <1>4, <1>5, <1>6

LEMMA RecoverPoint ==
    ASSUME NEW r \in Scalars, NEW s \in Scalars, NEW d \in Scalars, NEW m \in Scalars,
           Times[d] # Infinity, NEW i \in 0 .. 3
    PROVE  Times[d] \in Recover(r, s, i, m) <=>
               /\ r # 0 /\ s # 0
               /\ NoncePoint(r, s, d, m) # Infinity
               /\ NoncePoint(r, s, d, m)[1] = (IF i >= 2 THEN r + N ELSE r)
               /\ NoncePoint(r, s, d, m)[2] % 2 = i % 2
               /\ i >= 2 => r < P - N
<1> DEFINE x == IF i >= 2 THEN r + N ELSE r
           Key(R) == Ecmult(Mul(ScalarInverse[r], s), R, Negate(Mul(ScalarInverse[r], m)))
           nonce == NoncePoint(r, s, d, m)
<1>1. Times[d] \in Recover(r, s, i, m) <=>
          /\ r # 0 /\ s # 0 /\ (i >= 2 => r < P - N)
          /\ \E R \in SetXo(x, i % 2) : Times[d] = Key(R)
  BY DEF Recover
<1>2. ASSUME r # 0, s # 0
      PROVE  (\E R \in SetXo(x, i % 2) : Times[d] = Key(R)) <=>
                  nonce # Infinity /\ nonce[1] = x /\ nonce[2] % 2 = i % 2
  <2>1. nonce \in Points
    BY <1>2, VerifiedScalar, TimesPoint DEF NoncePoint
  <2>2. \A R \in Points : Key(R) = Times[d] <=> R = nonce
    BY <1>2, RecoveredKey
  <2> HIDE DEF Key, x, nonce
  <2>3. QED
    BY <2>1, <2>2 DEF SetXo
<1>3. QED
  BY <1>1, <1>2
---------------------------------------------------------------------------
(* Signing.                                                                *)

LEMMA OddOrder == N % 2 = 1
<1>1. N \in Nat /\ 2 \in Scalars /\ 2 # 0
  BY Sizes DEF Scalars
<1>2. ScalarInverse[2] \in Int /\ Cong(N, 2 * ScalarInverse[2], 1)
  BY <1>1, ScalarInverses, ScalarSet
<1>3. PICK i \in Int, k \in Int : 2 * i = 1 + k * N
  BY <1>2 DEF Cong
<1>4. ASSUME N % 2 = 0 PROVE FALSE
  <2>1. PICK n \in Int : N = 2 * n
    BY <1>1, <1>4, SMT
  <2>2. PICK l \in Int : l = k * n
    BY SMT
  <2>3. k * N = 2 * l
    BY <2>1, <2>2, SMT
  <2>4. 2 * i = 1 + 2 * l
    BY <1>3, <2>3
  <2>5. QED
    BY <2>4, SMT
<1>5. QED
  BY <1>1, <1>4, SMT

\* The larger of s and -s becomes the smaller.
LEMMA LowerHalf ==
    ASSUME NEW s \in Scalars, s # 0
    PROVE  /\ Negate(s) = N - s /\ Negate(s) \in Scalars /\ Negate(s) # 0
           /\ IsHigh(s) => ~IsHigh(Negate(s))
           /\ ~IsHigh(s) => IsHigh(Negate(s))
<1>1. s \in Int /\ 0 < s /\ s < N /\ N \in Nat /\ N % 2 = 1
  BY ScalarSet, OddOrder
<1>2. Negate(s) = N - s
  BY <1>1, SMT DEF Negate
<1>3. N - s \in Scalars /\ N - s # 0
  BY <1>1, ScalarSet
<1>4. PICK h \in Int : h = (N - 1) \div 2 /\ N = 2 * h + 1
  BY <1>1, SMT
<1>5. QED
  BY <1>1, <1>2, <1>3, <1>4 DEF IsHigh

\* The nonce point of a call, its x modulo N and whether that wrapped.
LEMMA DrawnPoint ==
    ASSUME NEW k \in Scalars, k # 0
    PROVE  /\ Times[k] \in Points /\ Times[k] # Infinity
           /\ Times[k][1] \in Int /\ Times[k][2] % 2 \in {0, 1}
           /\ SetB32(Times[k][1]) \in Scalars
           /\ Overflow(Times[k][1]) =>
                /\ Times[k][1] = SetB32(Times[k][1]) + N
                /\ SetB32(Times[k][1]) < P - N
           /\ ~Overflow(Times[k][1]) => Times[k][1] = SetB32(Times[k][1])
<1>1. Times[k] \in Points /\ Times[k] # Infinity
  BY TimesPoint, ScalarSet, InfinityIsZero, GeneratorAssumption
<1>2. PICK x \in Field, y \in Field : x = Times[k][1] /\ y = Times[k][2]
  BY <1>1, Finite
<1>3. x \in Int /\ y \in Int /\ 0 <= x /\ x < P /\ P < 2 * N /\ N \in Nat /\ P \in Nat /\ N > 0
  BY Sizes DEF Field
<1>4. x % N \in Scalars /\ y % 2 \in {0, 1}
  BY <1>3, ScalarSet, SMT
<1>5. x >= N => x = (x % N) + N /\ (x % N) < P - N
  <2>1. ASSUME x >= N PROVE x % N = x - N
    BY <1>3, <2>1, SMT
  <2>2. QED
    BY <1>3, <2>1
<1>6. ~(x >= N) => x = x % N
  BY <1>3, SMT
<1>7. QED
  BY <1>1, <1>2, <1>3, <1>4, <1>5, <1>6 DEF SetB32, Overflow

\* What ecdsa_sig_sign makes of a nonce.
Drawn(d, m, k) == Mul(ScalarInverse[k], (Mul(SetB32(Times[k][1]), d) + m) % N)
Wrap(k) == IF Overflow(Times[k][1]) THEN 2 ELSE 0

LEMMA SignParts ==
    ASSUME NEW d, NEW m, NEW k
    PROVE  /\ SigSign(d, m, k).ok = (Drawn(d, m, k) # 0)
           /\ SigSign(d, m, k).r = SetB32(Times[k][1])
           /\ SigSign(d, m, k).s = IF IsHigh(Drawn(d, m, k))
                                   THEN Negate(Drawn(d, m, k)) ELSE Drawn(d, m, k)
           /\ SigSign(d, m, k).recid =
                LET recid == Wrap(k) + (Times[k][2] % 2)
                IN  IF ~IsHigh(Drawn(d, m, k)) THEN recid
                    ELSE IF recid % 2 = 0 THEN recid + 1 ELSE recid - 1
BY DEF SigSign, Drawn, Wrap

\* k s = r d + m for the s that is drawn.
LEMMA DrawnScalar ==
    ASSUME NEW d \in Scalars, NEW m \in Scalars, NEW k \in Scalars, k # 0
    PROVE  /\ Drawn(d, m, k) \in Scalars
           /\ Cong(N, Drawn(d, m, k) * k, SetB32(Times[k][1]) * d + m)
<1>1. PICK r \in Scalars : r = SetB32(Times[k][1])
  BY DrawnPoint
<1>2. PICK i \in Scalars : i = ScalarInverse[k] /\ Cong(N, k * i, 1)
  BY ScalarInverses
<1>3. PICK e \in Scalars : e = (Mul(r, d) + m) % N /\ Cong(N, e, Mul(r, d) + m)
  BY MulCong, SumCong
<1>4. PICK s \in Scalars : s = Mul(i, e) /\ Cong(N, s, i * e)
  BY MulCong
<1>5. /\ N \in Nat /\ r \in Int /\ d \in Int /\ m \in Int /\ k \in Int
      /\ i \in Int /\ e \in Int /\ s \in Int
      /\ Mul(r, d) \in Int /\ r * d \in Int /\ Cong(N, Mul(r, d), r * d)
  BY ScalarSet, MulCong
<1>6. r * d + m \in Int /\ k * s \in Int /\ Mul(r, d) + m \in Int /\ k * s = s * k
  BY <1>5, SMT
<1>7. Cong(N, k * s, e)
  BY <1>2, <1>4, <1>5, UnitMoves
<1>8. Cong(N, Mul(r, d) + m, r * d + m)
  BY <1>5, CongAdd, CongRefl
<1>9. Cong(N, k * s, Mul(r, d) + m)
  BY <1>3, <1>5, <1>6, <1>7, CongTrans
<1>10. Cong(N, k * s, r * d + m)
  BY <1>5, <1>6, <1>8, <1>9, CongTrans
<1>11. s = Drawn(d, m, k)
  BY <1>1, <1>2, <1>3, <1>4 DEF Drawn
<1>12. QED
  BY <1>1, <1>6, <1>10, <1>11, Zenon

\* The signature has the lower s, and verification computes a point for it
\* that its recovery id tells from all others.
LEMMA SignedPair ==
    ASSUME NEW d \in Scalars, NEW m \in Scalars, NEW k \in Scalars, k # 0,
           NEW r, NEW s, NEW recid,
           SigSign(d, m, k).ok,
           r = SigSign(d, m, k).r, s = SigSign(d, m, k).s,
           recid = SigSign(d, m, k).recid
    PROVE  /\ r \in Scalars /\ s \in Scalars /\ s # 0 /\ ~IsHigh(s)
           /\ recid \in 0 .. 3
           /\ NoncePoint(r, s, d, m) # Infinity
           /\ NoncePoint(r, s, d, m)[1] = (IF recid >= 2 THEN r + N ELSE r)
           /\ NoncePoint(r, s, d, m)[2] % 2 = recid % 2
           /\ recid >= 2 => r < P - N
<1>1. PICK s0 \in Scalars : s0 = Drawn(d, m, k)
  BY DrawnScalar
<1>2. s0 # 0
  BY <1>1, SignParts
<1>3. r \in Scalars /\ r = SetB32(Times[k][1]) /\ Cong(N, s0 * k, r * d + m)
  BY <1>1, SignParts, DrawnPoint, DrawnScalar
<1>4. PICK y \in {0, 1} : y = Times[k][2] % 2
  BY DrawnPoint
<1>5. PICK w \in {0, 2} : w = Wrap(k)
  BY DEF Wrap
<1>6. /\ Times[k] \in Points /\ Times[k] # Infinity
      /\ Times[k][1] = (IF w >= 2 THEN r + N ELSE r)
      /\ w >= 2 => r < P - N
  BY <1>3, <1>5, DrawnPoint DEF Wrap
<1>7. CASE ~IsHigh(s0)
  <2>1. s = s0 /\ recid = w + y
    BY <1>1, <1>4, <1>5, <1>7, SignParts
  <2>2. NoncePoint(r, s, d, m) = Times[k]
    BY <1>2, <1>3, <2>1, Verified DEF NoncePoint
  <2>3. recid \in 0 .. 3 /\ recid % 2 = y /\ (recid >= 2 <=> w >= 2)
    BY <2>1
  <2>4. QED
    BY <1>2, <1>3, <1>4, <1>6, <1>7, <2>1, <2>2, <2>3
<1>8. CASE IsHigh(s0)
  <2>1. s = Negate(s0) /\ recid = w + (1 - y)
    <3>1. recid = IF (w + y) % 2 = 0 THEN (w + y) + 1 ELSE (w + y) - 1
      BY <1>1, <1>4, <1>5, <1>8, SignParts
    <3>2. s = Negate(s0)
      BY <1>1, <1>8, SignParts
    <3>3. (w = 0 \/ w = 2) /\ (y = 0 \/ y = 1)
      OBVIOUS
    <3>4. QED
      BY <3>1, <3>2, <3>3, SMT
  <2>2. s \in Scalars /\ s # 0 /\ ~IsHigh(s) /\ Cong(N, s, -s0)
    BY <1>2, <1>8, <2>1, LowerHalf, NegateCong
  <2>3. PICK j \in Scalars : j = Negate(k) /\ Cong(N, j, -k)
    BY NegateCong
  <2>4. NoncePoint(r, s, d, m) = Times[j]
    <3>1. /\ N \in Nat /\ s \in Int /\ s0 \in Int /\ -s0 \in Int /\ j \in Int
          /\ k \in Int /\ -k \in Int /\ r \in Int /\ d \in Int /\ m \in Int
      BY <1>3, <2>2, ScalarSet
    <3>2. Cong(N, s * j, (-s0) * (-k))
      BY <2>2, <2>3, <3>1, CongMul
    <3>3. /\ (-s0) * (-k) = s0 * k /\ s0 * k \in Int /\ s * j \in Int
          /\ r * d + m \in Int
      BY <3>1, SMT
    <3>4. Cong(N, s * j, s0 * k)
      BY <3>2, <3>3, Zenon
    <3>5. Cong(N, s * j, r * d + m)
      BY <1>3, <3>1, <3>3, <3>4, CongTrans
    <3>6. QED
      BY <1>3, <2>2, <3>5, Verified DEF NoncePoint
  <2>5. Times[j] = PointNeg(Times[k])
    BY <2>3, NegTimes DEF Negate
  <2>6. /\ Times[j] # Infinity /\ Times[j][1] = Times[k][1]
        /\ Times[j][2] % 2 = 1 - y
    BY <1>4, <1>6, <2>5, NegParity
  <2>7. recid \in 0 .. 3 /\ recid % 2 = 1 - y /\ (recid >= 2 <=> w >= 2)
    BY <2>1
  <2>8. QED
    BY <1>3, <1>6, <2>2, <2>4, <2>6, <2>7
<1>9. QED
  BY <1>7, <1>8
---------------------------------------------------------------------------
(* Keys and their bytes.                                                   *)

LEMMA KeyScalar ==
    ASSUME NEW b \in Nat
    PROVE  /\ ValidKey(b) <=> b \in Scalars \ {0}
           /\ ValidKey(b) => SetB32(b) = b /\ PubkeyCreate(b) = {Times[b]}
           /\ ~ValidKey(b) => PubkeyCreate(b) = {}
<1>1. b < N => b % N = b /\ b \in Scalars
  BY ScalarSet
<1>2. b \in Scalars => b < N
  BY ScalarSet
<1> /\ N \in Nat /\ (b >= N <=> ~(b < N))
  BY ScalarSet
<1>3. ValidKey(b) <=> b \in Scalars \ {0}
  BY <1>1, <1>2 DEF ValidKey, Overflow, SetB32
<1>4. ValidKey(b) => SetB32(b) = b
  BY <1>1 DEF ValidKey, Overflow, SetB32
<1>5. PubkeyCreate(b) = IF ValidKey(b) THEN {Times[SetB32(b)]} ELSE {}
  BY DEF PubkeyCreate
<1>6. QED
  BY <1>3, <1>4, <1>5

\* Keys that are not zero have public keys that are not infinite.
LEMMA PublicKey ==
    ASSUME NEW d \in Scalars \ {0}
    PROVE  Times[d] \in Points /\ Times[d] # Infinity /\ Log[Times[d]] = d
BY TimesPoint, LogTimes, InfinityIsZero

LEMMA LongBytes ==
    ASSUME NEW Q \in Points, Q # Infinity
    PROVE  /\ PubkeySerialize(Q, FALSE) = <<4, Q[1], Q[2]>>
           /\ PubkeySerialize(Q, FALSE) # << >>
           /\ PubkeySerialize(Q, FALSE) \in Seq(Nat)
           /\ PubkeyParse(PubkeySerialize(Q, FALSE)) = {Q}
<1>1. /\ Q = <<Q[1], Q[2]>> /\ OnCurve(Q[1], Q[2]) /\ Q[1] \in Nat /\ Q[2] \in Nat
      /\ Q[1] < P /\ Q[2] < P
  BY Finite, Sizes DEF Field
<1>2. PubkeySerialize(Q, FALSE) = <<4, Q[1], Q[2]>>
  BY DEF PubkeySerialize
<1> DEFINE b == <<4, Q[1], Q[2]>>
<1>3. b \in Seq(Nat) /\ Len(b) = 3 /\ b[1] = 4 /\ b[2] = Q[1] /\ b[3] = Q[2] /\ b # << >>
  BY <1>1
<1> HIDE DEF b
<1>4. PubkeyParse(b) = {Q}
  BY <1>1, <1>3 DEF PubkeyParse
<1>5. QED
  BY <1>2, <1>3, <1>4 DEF b

LEMMA NoBytes == PubkeyParse(<< >>) = {}
<1>1. Len(<< >>) = 0
  OBVIOUS
<1>2. QED
  BY <1>1 DEF PubkeyParse

LEMMA Computed ==
    ASSUME NEW sec \in Nat
    PROVE  ComputePubkey(sec) = IF ValidKey(sec) THEN PubkeySerialize(Times[sec], FALSE)
                                ELSE << >>
<1>1. ASSUME ValidKey(sec)
      PROVE  {PubkeySerialize(Q, FALSE) : Q \in PubkeyCreate(sec)}
                = {PubkeySerialize(Times[sec], FALSE)}
  BY <1>1, KeyScalar
<1>2. QED
  BY <1>1 DEF ComputePubkey

\* The two tweaks of a pair fail together, and if they do not they give the
\* two halves of a pair.
LEMMA TweakBoth ==
    ASSUME NEW d \in Scalars \ {0}, NEW op \in Ops, NEW t
    PROVE  \/ PrivkeyTweak(op, d, t) = {} /\ PubkeyTweak(op, Times[d], t) = {}
           \/ \E e \in Scalars \ {0} : /\ PrivkeyTweak(op, d, t) = {e}
                                       /\ PubkeyTweak(op, Times[d], t) = {Times[e]}
<1>1. d \in Scalars /\ d # 0 /\ SetB32(d) = d /\ Log[Times[d]] = d
  BY ScalarSet, PublicKey DEF SetB32
<1>2. CASE op = "add"
  <2>1. /\ PrivkeyTweak(op, d, t) = {(d + u) % N : u \in {t} \cap Scalars} \ {0}
        /\ PubkeyTweak(op, Times[d], t)
              = {Ecmult(1, Times[d], u) : u \in {t} \cap Scalars} \ {Infinity}
    BY <1>1, <1>2, Zenon DEF PrivkeyTweak, PubkeyTweak
  <2>2. CASE t \notin Scalars
    BY <2>1, <2>2
  <2>3. CASE t \in Scalars
    <3>1. PICK e \in Scalars : e = (d + t) % N
      BY <2>3, SumCong
    <3>2. Ecmult(1, Times[d], t) = Times[e]
      <4>1. Mul(1, d) = d
        BY ScalarSet DEF Mul
      <4>2. QED
        BY <1>1, <3>1, <4>1 DEF Ecmult
    <3>3. /\ PrivkeyTweak(op, d, t) = {e} \ {0}
          /\ PubkeyTweak(op, Times[d], t) = {Times[e]} \ {Infinity}
      BY <2>1, <2>3, <3>1, <3>2
    <3>4. Times[e] = Infinity <=> e = 0
      BY PublicKey, InfinityIsZero
    <3>5. QED
      BY <3>3, <3>4
  <2>4. QED
    BY <2>2, <2>3
<1>3. CASE op = "mul"
  <2>1. /\ PrivkeyTweak(op, d, t) = {Mul(d, u) : u \in {t} \cap (Scalars \ {0})}
        /\ PubkeyTweak(op, Times[d], t)
              = {Ecmult(u, Times[d], 0) : u \in {t} \cap (Scalars \ {0})}
    BY <1>1, <1>3, Zenon DEF PrivkeyTweak, PubkeyTweak
  <2>2. CASE t \notin Scalars \ {0}
    BY <2>1, <2>2
  <2>3. CASE t \in Scalars \ {0}
    <3>1. PICK e \in Scalars \ {0} : e = Mul(d, t) /\ e = Mul(t, d)
      BY <2>3, MulCong, NonzeroProduct
    <3>2. (e + 0) % N = e
      BY ScalarSet
    <3>3. Ecmult(t, Times[d], 0) = Times[e]
      BY <1>1, <3>1, <3>2 DEF Ecmult
    <3>4. QED
      BY <2>1, <2>3, <3>1, <3>3
  <2>4. QED
    BY <2>2, <2>3
<1>4. CASE op = "negate"
  <2>1. /\ PrivkeyTweak(op, d, t) = {Negate(d)}
        /\ PubkeyTweak(op, Times[d], t) = {PointNeg(Times[d])}
    BY <1>1, <1>4, Zenon DEF PrivkeyTweak, PubkeyTweak
  <2>2. Negate(d) \in Scalars \ {0}
    BY LowerHalf
  <2>3. PointNeg(Times[d]) = Times[Negate(d)]
    BY NegTimes DEF Negate
  <2>4. QED
    BY <2>1, <2>2, <2>3
<1>5. QED
  BY <1>2, <1>3, <1>4 DEF Ops
---------------------------------------------------------------------------
(* The inductive invariant.                                                *)

TypeInv ==
    /\ DerivedTypeOK
    /\ out \in [Kinds -> [done : BOOLEAN, ret : {0, 1}, sig : Sigs]]

\* The signer takes the nonce n, and what it signs with the i-th nonce is
\* sig: that is the first that it takes.
Takes(sec, msg, n) ==
    ~Overflow(n) /\ n # 0 /\ SigSign(SetB32(sec), SetB32(msg), n).ok
SigOf(sec, msg, n) ==
    [r     |-> SigSign(SetB32(sec), SetB32(msg), n).r,
     s     |-> SigSign(SetB32(sec), SetB32(msg), n).s,
     recid |-> SigSign(SetB32(sec), SetB32(msg), n).recid]
SignedAt(sec, msg, nonces, i, sig) ==
    /\ Takes(sec, msg, nonces[i]) /\ sig = SigOf(sec, msg, nonces[i])
    /\ \A j \in 1 .. i - 1 : ~Takes(sec, msg, nonces[j])

\* What a call has found, of the key, the message and the nonces.
Found(sec, msg, nonces, sig, result) ==
    \/ /\ result = 1 /\ ValidKey(sec)
       /\ \E i \in 1 .. Len(nonces) : SignedAt(sec, msg, nonces, i, sig)
    \/ result = 0 /\ ~ValidKey(sec) /\ sig = NoSig

CallInv ==
    /\ pc = "idle" <=> kind = "none"
    /\ pc = "loop" => /\ ValidKey(seckey) /\ count <= Len(stream)
                      /\ \A j \in 1 .. count : ~Takes(seckey, msg32, stream[j])
    /\ pc = "save" => Found(seckey, msg32, stream, cur, ret)
    /\ pc # "save" => cur = NoSig

OutInv ==
    \A f \in Kinds :
        out[f].done => Found(seckey, msg32, stream, out[f].sig, out[f].ret)

\* The other side is as far as the signer, or one tweak behind, and then
\* nothing has been signed.
PairInv ==
    /\ owed = << >> => pub = ComputePubkey(seckey)
    /\ owed # << >> =>
        /\ Deriving
        /\ \E d \in Scalars \ {0}, op \in Ops, t \in Strings :
              /\ owed = <<[op |-> op, t |-> t]>>
              /\ pub = ComputePubkey(d)
              /\ \E e \in {PrivkeyTweak(op, d, t)} :
                    seckey \in (IF e = {} THEN {0} ELSE e)

Inv == TypeInv /\ CallInv /\ OutInv /\ PairInv
LEMMA StringSet ==
    /\ Strings \subseteq Nat /\ Scalars \subseteq Strings /\ 0 \in Strings
    /\ \A b \in Nat : SetB32(b) \in Scalars
<1>1. N \in Nat /\ N > 0
  BY ScalarSet
<1>2. \A b \in Nat : SetB32(b) \in Scalars
  BY <1>1, ScalarSet DEF SetB32
<1>3. QED
  BY <1>1, <1>2, StringsAssumption DEF Scalars

LEMMA TakenNonce ==
    ASSUME NEW sec \in Nat, NEW msg \in Nat, NEW n \in Nat, Takes(sec, msg, n)
    PROVE  n \in Scalars /\ n # 0 /\ SigOf(sec, msg, n) \in Sigs
<1>1. n \in Scalars /\ n # 0
  BY ScalarSet DEF Takes, Overflow
<1>2. SetB32(sec) \in Scalars /\ SetB32(msg) \in Scalars
  BY StringSet
<1>3. /\ SigSign(SetB32(sec), SetB32(msg), n).r \in Scalars
      /\ SigSign(SetB32(sec), SetB32(msg), n).s \in Scalars
      /\ SigSign(SetB32(sec), SetB32(msg), n).recid \in 0 .. 3
  BY <1>1, <1>2, SignedPair DEF Takes
<1>4. QED
  BY <1>1, <1>3 DEF SigOf, Sigs

LEMMA Grown ==
    ASSUME NEW nonces \in Seq(Strings), NEW n \in Strings
    PROVE  /\ Append(nonces, n) \in Seq(Strings)
           /\ Len(Append(nonces, n)) = Len(nonces) + 1 /\ Len(nonces) \in Nat
           /\ \A i \in 1 .. Len(nonces) : Append(nonces, n)[i] = nonces[i]
           /\ Append(nonces, n)[Len(nonces) + 1] = n
OBVIOUS

\* What was found in a stream is found in the longer one.
LEMMA FoundGrown ==
    ASSUME NEW nonces \in Seq(Strings), NEW n \in Strings,
           NEW sec, NEW msg, NEW sig, NEW result,
           Found(sec, msg, nonces, sig, result)
    PROVE  Found(sec, msg, Append(nonces, n), sig, result)
<1> DEFINE longer == Append(nonces, n)
<1>1. /\ Len(longer) = Len(nonces) + 1 /\ Len(nonces) \in Nat
      /\ \A i \in 1 .. Len(nonces) : longer[i] = nonces[i]
  BY Grown
<1> HIDE DEF longer
<1>2. ASSUME NEW i \in 1 .. Len(nonces), SignedAt(sec, msg, nonces, i, sig)
      PROVE  i \in 1 .. Len(longer) /\ SignedAt(sec, msg, longer, i, sig)
  <2>1. longer[i] = nonces[i] /\ \A j \in 1 .. i - 1 : longer[j] = nonces[j]
    BY <1>1
  <2>2. i \in 1 .. Len(longer)
    BY <1>1
  <2>3. QED
    BY <1>2, <2>1, <2>2 DEF SignedAt
<1>3. QED
  BY <1>2 DEF Found, longer

\* No two signatures are found in one stream.
LEMMA FoundOnce ==
    ASSUME NEW nonces, NEW sec, NEW msg, NEW sig1, NEW result1, NEW sig2, NEW result2,
           Len(nonces) \in Nat,
           Found(sec, msg, nonces, sig1, result1),
           Found(sec, msg, nonces, sig2, result2)
    PROVE  sig1 = sig2 /\ result1 = result2
<1>1. CASE ~ValidKey(sec)
  BY <1>1 DEF Found
<1>2. CASE ValidKey(sec)
  <2>1. PICK i \in 1 .. Len(nonces) : SignedAt(sec, msg, nonces, i, sig1)
    BY <1>2 DEF Found
  <2>2. PICK j \in 1 .. Len(nonces) : SignedAt(sec, msg, nonces, j, sig2)
    BY <1>2 DEF Found
  <2>3. i \in Int /\ j \in Int /\ i >= 1 /\ j >= 1
    OBVIOUS
  <2>4. ~(i < j) /\ ~(j < i)
    <3>1. i < j => i \in 1 .. j - 1
      BY <2>3
    <3>2. j < i => j \in 1 .. i - 1
      BY <2>3
    <3>3. QED
      BY <2>1, <2>2, <3>1, <3>2 DEF SignedAt
  <2>5. i = j
    BY <2>3, <2>4
  <2>6. QED
    BY <1>2, <2>1, <2>2, <2>5 DEF SignedAt, Found
<1>3. QED
  BY <1>1, <1>2

\* The other side's bytes, and what it reads in them.
LEMMA PairBytes ==
    ASSUME NEW sec \in Nat
    PROVE  /\ PubkeyParse(ComputePubkey(sec)) = PubkeyCreate(sec)
           /\ ComputePubkey(sec) \in Seq(Nat)
           /\ ComputePubkey(sec) # << >> <=> sec \in Scalars \ {0}
           /\ sec \in Scalars \ {0} =>
                /\ PubkeyCreate(sec) = {Times[sec]}
                /\ ComputePubkey(sec) = PubkeySerialize(Times[sec], FALSE)
           /\ sec \notin Scalars \ {0} =>
                PubkeyCreate(sec) = {} /\ ComputePubkey(sec) = << >>
<1>1. CASE sec \in Scalars \ {0}
  <2>1. ValidKey(sec) /\ PubkeyCreate(sec) = {Times[sec]}
    BY <1>1, KeyScalar
  <2>2. ComputePubkey(sec) = PubkeySerialize(Times[sec], FALSE)
    BY <2>1, Computed
  <2>3. Times[sec] \in Points /\ Times[sec] # Infinity
    BY <1>1, PublicKey
  <2>4. QED
    BY <1>1, <2>1, <2>2, <2>3, LongBytes
<1>2. CASE sec \notin Scalars \ {0}
  <2>1. ~ValidKey(sec) /\ PubkeyCreate(sec) = {}
    BY <1>2, KeyScalar
  <2>2. ComputePubkey(sec) = << >>
    BY <2>1, Computed
  <2>3. << >> \in Seq(Nat)
    OBVIOUS
  <2>4. QED
    BY <1>2, <2>1, <2>2, <2>3, NoBytes
<1>3. QED
  BY <1>1, <1>2
LEMMA StartsInv == DerivedInit => Inv
<1> SUFFICES ASSUME DerivedInit PROVE Inv
  OBVIOUS
<1> USE DEF DerivedInit, Init
<1>1. seckey \in Nat /\ 0 \in Scalars /\ MaxTries \in Nat
  BY StringSet, ScalarSet, MaxTriesAssumption
<1>2. NoSig \in Sigs
  BY <1>1 DEF NoSig, Sigs
<1>3. stream \in Seq(Strings) /\ Len(stream) = 0 /\ owed \in Seq([op : Ops, t : Strings])
  OBVIOUS
<1>4. TypeInv
  <2>1. pub \in Seq(Nat)
    BY <1>1, PairBytes
  <2>2. out \in [Kinds -> [done : BOOLEAN, ret : {0, 1}, sig : Sigs]]
    BY <1>2 DEF NoOut
  <2>3. TypeOK
    BY <1>1, <1>2, <1>3 DEF TypeOK, NoOut
  <2>4. QED
    BY <1>3, <2>1, <2>2, <2>3 DEF TypeInv, DerivedTypeOK
<1>5. CallInv /\ OutInv
  BY DEF CallInv, OutInv, NoOut
<1>6. PairInv
  BY DEF PairInv
<1>7. QED
  BY <1>4, <1>5, <1>6 DEF Inv

LEMMA CallStep == ASSUME Inv, NEW f \in Kinds, Call(f), UNCHANGED <<pub, owed>>, owed = << >>
                  PROVE  Inv'
<1> USE DEF Inv, Call
<1>1. TypeInv'
  <2>1. count' \in 0 .. MaxTries
    BY MaxTriesAssumption
  <2>2. QED
    BY <2>1 DEF TypeInv, DerivedTypeOK, TypeOK, Kinds
<1>2. CallInv'
  <2>1. pc' = "loop" => ValidKey(seckey') /\ count' <= Len(stream') /\ count' = 0
    BY DEF TypeInv, DerivedTypeOK, TypeOK
  <2>2. pc' = "save" => Found(seckey', msg32', stream', cur', ret')
    BY DEF CallInv, Found
  <2>3. cur' = NoSig /\ pc' # "idle" /\ kind' # "none"
    BY DEF CallInv, Kinds
  <2>4. pc' = "loop" => \A j \in 1 .. count' : ~Takes(seckey', msg32', stream'[j])
    BY <2>1
  <2>5. QED
    BY <2>1, <2>2, <2>3, <2>4 DEF CallInv
<1>3. OutInv'
  BY DEF OutInv
<1>4. PairInv'
  BY DEF PairInv
<1>5. QED
  BY <1>1, <1>2, <1>3, <1>4

LEMMA TryStep == ASSUME Inv, TryNonce, UNCHANGED <<pub, owed>>, owed = << >>
                 PROVE  Inv'
<1> PICK n \in Strings :
        /\ Nonce(n)
        /\ ret' = 1
        /\ LET sig == SigSign(SetB32(seckey), SetB32(msg32), n) IN
             IF ~Overflow(n) /\ n # 0 /\ sig.ok
             THEN /\ cur' = [r |-> sig.r, s |-> sig.s, recid |-> sig.recid]
                  /\ pc' = "save"
                  /\ UNCHANGED count
             ELSE count' = count + 1 /\ UNCHANGED <<cur, pc>>
  BY DEF TryNonce
<1>1. /\ pc = "loop" /\ count < MaxTries
      /\ UNCHANGED <<seckey, msg32, kind, out>>
  BY DEF TryNonce
<1>2. \/ /\ Takes(seckey, msg32, n) /\ cur' = SigOf(seckey, msg32, n)
         /\ pc' = "save" /\ count' = count
      \/ ~Takes(seckey, msg32, n) /\ count' = count + 1 /\ cur' = cur /\ pc' = pc
  BY DEF Takes, SigOf
<1>3. /\ seckey \in Nat /\ msg32 \in Nat /\ n \in Nat /\ MaxTries \in Nat
      /\ stream \in Seq(Strings) /\ Len(stream) \in Nat /\ Len(stream) <= MaxTries
      /\ count \in 0 .. MaxTries /\ count <= Len(stream) /\ ValidKey(seckey)
      /\ \A j \in 1 .. count : ~Takes(seckey, msg32, stream[j])
  BY <1>1, StringSet, MaxTriesAssumption DEF Inv, TypeInv, DerivedTypeOK, TypeOK, CallInv
\* The stream as far as this draw, and the draw.
<1>4. /\ stream' \in Seq(Strings) /\ Len(stream') \in Nat /\ Len(stream') <= MaxTries
      /\ count + 1 <= Len(stream') /\ stream'[count + 1] = n
      /\ \A j \in 1 .. count : stream'[j] = stream[j]
      /\ \A sig, result : Found(seckey, msg32, stream, sig, result)
                            => Found(seckey, msg32, stream', sig, result)
  <2>1. CASE count < Len(stream)
    BY <1>3, <2>1 DEF Nonce
  <2>2. CASE ~(count < Len(stream))
    <3>1. count = Len(stream) /\ stream' = Append(stream, n)
      BY <1>3, <2>2 DEF Nonce
    <3>2. /\ stream' \in Seq(Strings) /\ Len(stream') = Len(stream) + 1
          /\ \A i \in 1 .. Len(stream) : stream'[i] = stream[i]
          /\ stream'[Len(stream) + 1] = n
      BY <1>3, <3>1, Grown
    <3>3. \A sig, result : Found(seckey, msg32, stream, sig, result)
                            => Found(seckey, msg32, stream', sig, result)
      BY <1>3, <3>1, FoundGrown
    <3>4. QED
      BY <1>1, <1>3, <3>1, <3>2, <3>3
  <2>3. QED
    BY <2>1, <2>2
<1>5. cur' \in Sigs /\ count' \in 0 .. MaxTries /\ pc' \in {"loop", "save"}
  <2>1. cur \in Sigs
    BY DEF Inv, TypeInv, DerivedTypeOK, TypeOK
  <2>2. QED
    BY <1>1, <1>2, <1>3, <2>1, TakenNonce
<1>6. TypeInv'
  BY <1>1, <1>4, <1>5 DEF Inv, TypeInv, DerivedTypeOK, TypeOK
<1>7. CallInv'
  <2>1. \A j \in 1 .. count : ~Takes(seckey', msg32', stream'[j])
    BY <1>1, <1>3, <1>4
  <2>2. pc' # "idle" /\ kind' # "none"
    BY <1>1, <1>5 DEF Inv, CallInv
  <2>3. CASE Takes(seckey, msg32, n)
    <3>1. pc' = "save" /\ cur' = SigOf(seckey, msg32, n)
      BY <1>2, <2>3
    <3>2. SignedAt(seckey', msg32', stream', count + 1, cur')
      <4>1. (count + 1) - 1 = count
        BY <1>3
      <4>2. QED
        BY <1>1, <1>4, <2>1, <2>3, <3>1, <4>1 DEF SignedAt
    <3>3. Found(seckey', msg32', stream', cur', ret')
      <4>1. count + 1 \in 1 .. Len(stream')
        BY <1>3, <1>4
      <4>2. QED
        BY <1>1, <1>3, <3>2, <4>1 DEF Found
    <3>4. QED
      BY <2>2, <3>1, <3>3 DEF CallInv
  <2>4. CASE ~Takes(seckey, msg32, n)
    <3>1. pc' = "loop" /\ count' = count + 1 /\ cur' = NoSig
      BY <1>1, <1>2, <2>4 DEF Inv, CallInv
    <3>2. \A j \in 1 .. count' : ~Takes(seckey', msg32', stream'[j])
      <4>1. \A j \in 1 .. count' : j \in 1 .. count \/ j = count + 1
        BY <1>3, <3>1
      <4>2. QED
        BY <1>1, <1>4, <2>1, <2>4, <4>1
    <3>3. QED
      BY <1>1, <1>3, <1>4, <2>2, <3>1, <3>2 DEF CallInv
  <2>5. QED
    BY <2>3, <2>4
<1>8. OutInv'
  BY <1>1, <1>4 DEF Inv, OutInv
<1>9. PairInv'
  BY <1>1 DEF Inv, PairInv
<1>10. QED
  BY <1>6, <1>7, <1>8, <1>9 DEF Inv

LEMMA SaveStep == ASSUME Inv, Save, UNCHANGED <<pub, owed>>, owed = << >>
                  PROVE  Inv'
<1>1. /\ pc = "save" /\ pc' = "idle" /\ kind' = "none" /\ cur' = NoSig
      /\ UNCHANGED <<seckey, msg32, stream, count, ret>>
      /\ out' = [out EXCEPT ![kind] = [done |-> TRUE, ret |-> ret,
                                       sig |-> IF ret = 1 THEN cur ELSE NoSig]]
  BY DEF Save
<1>2. kind \in Kinds /\ ret \in {0, 1} /\ cur \in Sigs /\ NoSig \in Sigs
  BY <1>1, ScalarSet DEF Inv, TypeInv, DerivedTypeOK, TypeOK, CallInv, NoSig, Sigs
<1>3. (IF ret = 1 THEN cur ELSE NoSig) = cur /\ Found(seckey, msg32, stream, cur, ret)
  BY <1>1, <1>2 DEF Inv, CallInv, Found
<1>4. /\ out \in [Kinds -> [done : BOOLEAN, ret : {0, 1}, sig : Sigs]]
      /\ out' = [out EXCEPT ![kind] = [done |-> TRUE, ret |-> ret, sig |-> cur]]
  BY <1>1, <1>3 DEF Inv, TypeInv
<1>5. out' \in [Kinds -> [done : BOOLEAN, ret : {0, 1}, sig : Sigs]]
  BY <1>2, <1>4
<1>6. TypeInv'
  BY <1>1, <1>2, <1>5 DEF Inv, TypeInv, DerivedTypeOK, TypeOK
<1>7. CallInv'
  BY <1>1 DEF CallInv
<1>8. OutInv'
  <2>1. \A f \in Kinds : out'[f] = IF f = kind
                                   THEN [done |-> TRUE, ret |-> ret, sig |-> cur]
                                   ELSE out[f]
    BY <1>2, <1>4
  <2>2. QED
    BY <1>1, <1>3, <2>1 DEF Inv, OutInv
<1>9. PairInv'
  BY <1>1 DEF Inv, PairInv
<1>10. QED
  BY <1>6, <1>7, <1>8, <1>9 DEF Inv
LEMMA TweakPrivateStep ==
    ASSUME Inv, NEW op \in Ops, NEW t \in Strings, TweakPrivate(op, t)
    PROVE  Inv'
<1>1. /\ pub # << >> /\ owed = << >> /\ Deriving
      /\ \E result \in {PrivkeyTweak(op, seckey, t)} :
            seckey' \in (IF result = {} THEN {0} ELSE result)
      /\ owed' = <<[op |-> op, t |-> t]>>
      /\ UNCHANGED <<msg32, stream, kind, pc, count, ret, cur, out, pub>>
  BY DEF TweakPrivate
<1>2. seckey \in Nat /\ pub = ComputePubkey(seckey)
  BY <1>1, StringSet DEF Inv, TypeInv, DerivedTypeOK, TypeOK, PairInv
<1>3. seckey \in Scalars \ {0}
  BY <1>1, <1>2, PairBytes
<1>4. seckey' \in Strings
  <2>1. \/ PrivkeyTweak(op, seckey, t) = {}
        \/ \E e \in Scalars \ {0} : PrivkeyTweak(op, seckey, t) = {e}
    BY <1>3, TweakBoth
  <2>2. QED
    BY <1>1, <2>1, StringSet
<1>5. TypeInv'
  <2>1. owed' \in Seq([op : Ops, t : Strings])
    BY <1>1
  <2>2. QED
    BY <1>1, <1>4, <2>1 DEF Inv, TypeInv, DerivedTypeOK, TypeOK
<1>6. pc = "idle" /\ \A f \in Kinds : ~out[f].done
  BY <1>1 DEF Deriving
<1>7. CallInv' /\ OutInv'
  BY <1>1, <1>6 DEF Inv, CallInv, OutInv
<1>8. PairInv'
  <2>1. owed' # << >> /\ Deriving'
    BY <1>1, <1>6 DEF Deriving
  <2>2. \E e \in {PrivkeyTweak(op, seckey, t)} :
            seckey' \in (IF e = {} THEN {0} ELSE e)
    BY <1>1
  <2>3. pub' = ComputePubkey(seckey)
    BY <1>1, <1>2
  <2>4. QED
    BY <1>1, <1>3, <2>1, <2>2, <2>3 DEF PairInv
<1>9. QED
  BY <1>5, <1>7, <1>8 DEF Inv

LEMMA TweakPublicStep ==
    ASSUME Inv, TweakPublic PROVE Inv'
<1>1. /\ owed # << >> /\ owed' = << >> /\ UNCHANGED vars
      /\ \E result \in {UNION {PubkeyTweak(owed[1].op, Q, owed[1].t) :
                                  Q \in PubkeyParse(pub)}} :
            pub' \in (IF result = {} THEN {<< >>}
                      ELSE {PubkeySerialize(Q, FALSE) : Q \in result})
  BY DEF TweakPublic
<1>2. PICK d \in Scalars \ {0}, op \in Ops, t \in Strings :
          /\ owed = <<[op |-> op, t |-> t]>>
          /\ pub = ComputePubkey(d)
          /\ \E e \in {PrivkeyTweak(op, d, t)} :
                seckey \in (IF e = {} THEN {0} ELSE e)
  BY <1>1 DEF Inv, PairInv
<1>3. owed[1].op = op /\ owed[1].t = t /\ d \in Nat
  BY <1>2, StringSet
<1>4. PubkeyParse(pub) = {Times[d]}
  BY <1>2, <1>3, PairBytes
<1>5. UNION {PubkeyTweak(owed[1].op, Q, owed[1].t) : Q \in PubkeyParse(pub)}
        = PubkeyTweak(op, Times[d], t)
  BY <1>3, <1>4
<1>6. pub' \in (IF PubkeyTweak(op, Times[d], t) = {} THEN {<< >>}
                ELSE {PubkeySerialize(Q, FALSE) : Q \in PubkeyTweak(op, Times[d], t)})
  BY <1>1, <1>5
\* Both sides failed, or neither.
<1>7. pub' = ComputePubkey(seckey)
  <2>1. CASE /\ PrivkeyTweak(op, d, t) = {}
             /\ PubkeyTweak(op, Times[d], t) = {}
    <3>1. seckey = 0 /\ pub' = << >>
      BY <1>2, <1>6, <2>1
    <3>2. QED
      BY <3>1, PairBytes
  <2>2. ASSUME NEW e \in Scalars \ {0},
               PrivkeyTweak(op, d, t) = {e}, PubkeyTweak(op, Times[d], t) = {Times[e]}
        PROVE  pub' = ComputePubkey(seckey)
    <3>1. seckey = e /\ pub' = PubkeySerialize(Times[e], FALSE)
      BY <1>2, <1>6, <2>2
    <3>2. QED
      BY <3>1, PairBytes, StringSet
  <2>3. QED
    BY <2>1, <2>2, TweakBoth
<1>8. TypeInv'
  <2>1. seckey \in Nat /\ << >> \in Seq([op : Ops, t : Strings])
    BY StringSet DEF Inv, TypeInv, DerivedTypeOK, TypeOK
  <2>2. pub' \in Seq(Nat) /\ owed' \in Seq([op : Ops, t : Strings])
    BY <1>1, <1>7, <2>1, PairBytes
  <2>3. QED
    BY <1>1, <2>2 DEF Inv, TypeInv, DerivedTypeOK, TypeOK, vars
<1>9. CallInv' /\ OutInv'
  BY <1>1 DEF Inv, CallInv, OutInv, vars
<1>10. PairInv'
  BY <1>1, <1>7 DEF PairInv, vars
<1>11. QED
  BY <1>8, <1>9, <1>10 DEF Inv

LEMMA StepInv == ASSUME Inv, [DerivedNext]_derivedVars PROVE Inv'
<1>1. ASSUME NEW op \in Ops, NEW t \in Strings, TweakPrivate(op, t) PROVE Inv'
  BY <1>1, TweakPrivateStep
<1>2. CASE TweakPublic
  BY <1>2, TweakPublicStep
<1>3. ASSUME owed = << >>, UNCHANGED <<pub, owed>>, NEW f \in Kinds, Call(f) PROVE Inv'
  BY <1>3, CallStep
<1>4. CASE owed = << >> /\ TryNonce /\ UNCHANGED <<pub, owed>>
  BY <1>4, TryStep
<1>5. CASE owed = << >> /\ Save /\ UNCHANGED <<pub, owed>>
  BY <1>5, SaveStep
<1>6. CASE UNCHANGED derivedVars
  BY <1>6 DEF derivedVars, vars, Inv, TypeInv, DerivedTypeOK, TypeOK,
              CallInv, OutInv, PairInv, Deriving
<1>7. QED
  BY <1>1, <1>2, <1>3, <1>4, <1>5, <1>6 DEF DerivedNext, Next

LEMMA Invariance == DerivedSpec => []Inv
<1>1. DerivedInit => Inv
  BY StartsInv
<1>2. Inv /\ [DerivedNext]_derivedVars => Inv'
  BY StepInv
<1>3. QED
  BY <1>1, <1>2, PTL DEF DerivedSpec
---------------------------------------------------------------------------
(* The properties.                                                         *)

\* Keys, nonces and signatures have their types, the look at the stream its
\* bound, in every behaviour.
THEOREM DerivedTyped == DerivedSpec => []DerivedTypeOK
<1>1. Inv => DerivedTypeOK
  BY DEF Inv, TypeInv
<1>2. QED
  BY <1>1, Invariance, PTL

\* ecdsa_sign and ecdsa_sign_recoverable take the same nonce, the first that
\* gives a signature, and make the same r and s of it; or both refuse the key.
THEOREM SignAlike == DerivedSpec => []SameSignature
<1>1. ASSUME Inv, out["plain"].done, out["recoverable"].done
      PROVE  /\ out["plain"].ret = out["recoverable"].ret
             /\ out["plain"].sig = out["recoverable"].sig
  <2>1. /\ Found(seckey, msg32, stream, out["plain"].sig, out["plain"].ret)
        /\ Found(seckey, msg32, stream, out["recoverable"].sig, out["recoverable"].ret)
    BY <1>1 DEF Inv, OutInv, Kinds
  <2>2. Len(stream) \in Nat
    BY <1>1 DEF Inv, TypeInv, DerivedTypeOK, TypeOK
  <2>3. QED
    BY <2>1, <2>2, FoundOnce
<1>2. Inv => SameSignature
  BY <1>1 DEF SameSignature
<1>3. QED
  BY <1>2, Invariance, PTL

\* What the other side reads when it owes nothing.
LEMMA UpToDate ==
    ASSUME Inv, owed = << >>
    PROVE  /\ seckey \in Nat /\ PubkeyParse(pub) = PubkeyCreate(seckey)
           /\ \A Q \in PubkeyParse(pub) :
                seckey \in Scalars \ {0} /\ Q = Times[seckey]
<1>1. seckey \in Nat /\ pub = ComputePubkey(seckey)
  BY StringSet DEF Inv, TypeInv, DerivedTypeOK, TypeOK, PairInv
<1>2. QED
  BY <1>1, PairBytes

\* The public half of a pair, tweaked any number of times, is the public key
\* of the private half, and a third party shares with both.
THEOREM PairsTogether == DerivedSpec => []TweaksAgree
<1>1. ASSUME Inv, Deriving, owed = << >>
      PROVE  /\ PubkeyParse(pub) = PubkeyCreate(seckey)
             /\ \A Q \in PubkeyParse(pub), b \in Strings : \A R \in PubkeyCreate(b) :
                  /\ Ecdh(Q, b) = Ecdh(R, seckey)
                  /\ PubkeyCombine(Q, R)
                        = UNION {PubkeyCreate(k) : k \in PrivkeyTweak("add", seckey, b)}
  <2>1. PubkeyParse(pub) = PubkeyCreate(seckey)
    BY <1>1, UpToDate
  <2>2. SUFFICES ASSUME NEW Q \in PubkeyParse(pub), NEW b \in Strings,
                        NEW R \in PubkeyCreate(b)
                 PROVE  /\ Ecdh(Q, b) = Ecdh(R, seckey)
                        /\ PubkeyCombine(Q, R)
                            = UNION {PubkeyCreate(k) :
                                        k \in PrivkeyTweak("add", seckey, b)}
    BY <2>1
  <2>3. PICK d \in Scalars \ {0} : seckey = d /\ Q = Times[d] /\ d \in Nat
    BY <1>1, UpToDate
  <2>4. b \in Nat /\ b \in Scalars \ {0} /\ R = Times[b]
    BY PairBytes, StringSet
  <2>5. /\ ValidKey(d) /\ SetB32(d) = d /\ Log[Q] = d
        /\ ValidKey(b) /\ SetB32(b) = b /\ Log[R] = b
    BY <2>3, <2>4, KeyScalar, PublicKey
  <2>6. Ecdh(Q, b) = Ecdh(R, d)
    <3>1. Mul(b, d) = Mul(d, b)
      BY <2>4, MulCong
    <3>2. Ecmult(b, Q, 0) = Ecmult(d, R, 0)
      BY <2>5, <3>1 DEF Ecmult
    <3>3. QED
      BY <2>5, <3>2 DEF Ecdh
  <2>7. PubkeyCombine(Q, R)
          = UNION {PubkeyCreate(k) : k \in PrivkeyTweak("add", d, b)}
    <3>1. PICK e \in Scalars : e = (d + b) % N
      BY <2>4, SumCong
    <3>2. PubkeyCombine(Q, R) = {Times[e]} \ {Infinity}
      BY <2>3, <2>4, <3>1, GeneratorAssumption DEF PubkeyCombine
    <3>3. PrivkeyTweak("add", d, b) = {e} \ {0}
      <4>1. PrivkeyTweak("add", d, b) = {(d + u) % N : u \in {b} \cap Scalars} \ {0}
        BY <2>5, Zenon DEF PrivkeyTweak
      <4>2. {b} \cap Scalars = {b}
        BY <2>4
      <4>3. QED
        BY <3>1, <4>1, <4>2
    <3>4. CASE e = 0
      BY <3>2, <3>3, <3>4, InfinityIsZero
    <3>5. CASE e # 0
      <4>1. Times[e] # Infinity /\ e \in Nat /\ PubkeyCreate(e) = {Times[e]}
        BY <3>5, PublicKey, PairBytes, StringSet
      <4>2. QED
        BY <3>2, <3>3, <3>5, <4>1
    <3>6. QED
      BY <3>4, <3>5
  <2>8. QED
    BY <2>3, <2>6, <2>7
<1>2. Inv => TweaksAgree
  BY <1>1 DEF TweaksAgree
<1>3. QED
  BY <1>2, Invariance, PTL

\* A pair (r, s) verifies for exactly the keys that one of the four recovery
\* ids recovers from it.
THEOREM VerifyRecovers == DerivedSpec => []VerifyMeansRecovered
<1>1. ASSUME NEW d \in Scalars, Times[d] # Infinity, NEW r \in Scalars,
             NEW s \in Scalars, NEW m \in Scalars
      PROVE  SigVerify(r, s, Times[d], m)
                <=> \E i \in 0 .. 3 : Times[d] \in Recover(r, s, i, m)
  <2> DEFINE R == NoncePoint(r, s, d, m)
  <2>1. ASSUME NEW i \in 0 .. 3, Times[d] \in Recover(r, s, i, m)
        PROVE  SigVerify(r, s, Times[d], m)
    BY <1>1, <2>1, RecoverPoint, VerifyPoint
  <2>2. ASSUME SigVerify(r, s, Times[d], m)
        PROVE  \E i \in 0 .. 3 : Times[d] \in Recover(r, s, i, m)
    <3>1. /\ r # 0 /\ s # 0 /\ R # Infinity
          /\ r = R[1] \/ (r < P - N /\ r + N = R[1])
      BY <2>2, VerifyPoint
    <3>2. PICK y \in {0, 1} : y = R[2] % 2
      <4>1. R \in Points
        BY <3>1, VerifiedScalar, TimesPoint DEF NoncePoint
      <4>2. R[2] \in Int
        BY <3>1, <4>1, Finite DEF Field
      <4>3. PICK z \in Int : z = R[2]
        BY <4>2
      <4>4. z % 2 \in {0, 1}
        BY SMT
      <4>5. QED
        BY <4>3, <4>4
    <3> HIDE DEF R
    <3>3. CASE r = R[1]
      <4>1. y \in 0 .. 3 /\ ~(y >= 2) /\ y % 2 = y
        OBVIOUS
      <4>2. Times[d] \in Recover(r, s, y, m)
        BY <1>1, <3>1, <3>2, <3>3, <4>1, RecoverPoint DEF R
      <4>3. QED
        BY <4>1, <4>2
    <3>4. CASE r < P - N /\ r + N = R[1]
      <4>1. 2 + y \in 0 .. 3 /\ 2 + y >= 2 /\ (2 + y) % 2 = y
        OBVIOUS
      <4>2. Times[d] \in Recover(r, s, 2 + y, m)
        BY <1>1, <3>1, <3>2, <3>4, <4>1, RecoverPoint DEF R
      <4>3. QED
        BY <4>1, <4>2
    <3>5. QED
      BY <3>1, <3>3, <3>4
  <2>3. QED
    BY <2>1, <2>2
<1>2. ASSUME Inv, owed = << >>, NEW Q \in PubkeyParse(pub)
      PROVE  /\ seckey \in Scalars /\ Q = Times[seckey] /\ Q # Infinity
             /\ Msg \in Scalars
  BY <1>2, UpToDate, PublicKey, StringSet
     DEF Msg, Inv, TypeInv, DerivedTypeOK, TypeOK
<1>3. Inv => VerifyMeansRecovered
  BY <1>1, <1>2 DEF VerifyMeansRecovered
<1>4. QED
  BY <1>3, Invariance, PTL
\* What is known of a signature that a function returned.
LEMMA Returned ==
    ASSUME Inv, NEW f \in Kinds, Signed(f)
    PROVE  \E d \in Scalars \ {0}, k \in Scalars \ {0} :
              /\ PubkeyParse(pub) = {Times[d]} /\ Msg \in Scalars
              /\ SigSign(d, Msg, k).ok
              /\ out[f].sig.r = SigSign(d, Msg, k).r
              /\ out[f].sig.s = SigSign(d, Msg, k).s
              /\ out[f].sig.recid = SigSign(d, Msg, k).recid
<1>1. out[f].done /\ out[f].ret = 1 /\ ~Deriving
  BY DEF Signed, Deriving
<1>2. owed = << >>
  BY <1>1 DEF Inv, PairInv
<1>3. /\ seckey \in Nat /\ msg32 \in Nat /\ PubkeyParse(pub) = PubkeyCreate(seckey)
      /\ stream \in Seq(Strings) /\ Msg \in Scalars
  BY <1>2, UpToDate, StringSet DEF Inv, TypeInv, DerivedTypeOK, TypeOK, Msg
<1>4. PICK i \in 1 .. Len(stream) :
          ValidKey(seckey) /\ SignedAt(seckey, msg32, stream, i, out[f].sig)
  BY <1>1 DEF Inv, OutInv, Found
<1>5. seckey \in Scalars \ {0} /\ SetB32(seckey) = seckey
      /\ PubkeyParse(pub) = {Times[seckey]}
  BY <1>3, <1>4, KeyScalar
<1>6. stream[i] \in Nat
  <2>1. stream[i] \in Strings
    BY <1>3, <1>4
  <2>2. QED
    BY <2>1, StringSet
<1>7. PICK k \in Nat : k = stream[i]
  BY <1>6
<1>8. Takes(seckey, msg32, k) /\ out[f].sig = SigOf(seckey, msg32, k)
  BY <1>4, <1>7 DEF SignedAt
<1>9. k \in Scalars \ {0} /\ SigSign(seckey, Msg, k).ok
  BY <1>3, <1>5, <1>8, TakenNonce DEF Takes, Msg
<1>10. /\ out[f].sig.r = SigSign(seckey, Msg, k).r
       /\ out[f].sig.s = SigSign(seckey, Msg, k).s
       /\ out[f].sig.recid = SigSign(seckey, Msg, k).recid
  BY <1>5, <1>8 DEF SigOf, Msg
<1>11. QED
  BY <1>3, <1>5, <1>9, <1>10

\* Every signature that either function returns verifies for the other side:
\* it has the lower s, and its r is what verification computes, wrapped or
\* not.
SignaturesVerify ==
    \A f \in {f \in Kinds : Signed(f) /\ out[f].sig.r # 0} :
        \E Q \in PubkeyParse(pub) : Verify(out[f].sig.r, out[f].sig.s, Q, Msg)

\* The condition, r # 0, is ecdsa_sig_sign's VERIFY_CHECK.
THEOREM SignedVerifies == DerivedSpec => []SignaturesVerify
<1>1. ASSUME Inv, NEW f \in Kinds, Signed(f), out[f].sig.r # 0
      PROVE  \E Q \in PubkeyParse(pub) : Verify(out[f].sig.r, out[f].sig.s, Q, Msg)
  <2>1. PICK d \in Scalars \ {0}, k \in Scalars \ {0} :
              /\ PubkeyParse(pub) = {Times[d]} /\ Msg \in Scalars
              /\ SigSign(d, Msg, k).ok
              /\ out[f].sig.r = SigSign(d, Msg, k).r
              /\ out[f].sig.s = SigSign(d, Msg, k).s
              /\ out[f].sig.recid = SigSign(d, Msg, k).recid
    BY <1>1, Returned
  <2> DEFINE r == out[f].sig.r
             s == out[f].sig.s
             recid == out[f].sig.recid
             R == NoncePoint(r, s, d, Msg)
  <2>2. /\ r \in Scalars /\ s \in Scalars /\ s # 0 /\ ~IsHigh(s)
        /\ R # Infinity /\ R[1] = (IF recid >= 2 THEN r + N ELSE r)
        /\ recid >= 2 => r < P - N
    BY <2>1, SignedPair
  <2>3. SigVerify(r, s, Times[d], Msg)
    BY <1>1, <2>1, <2>2, VerifyPoint
  <2>4. Verify(r, s, Times[d], Msg)
    BY <2>2, <2>3 DEF Verify
  <2>5. QED
    BY <2>1, <2>4
<1>2. Inv => SignaturesVerify
  BY <1>1 DEF SignaturesVerify
<1>3. QED
  BY <1>2, Invariance, PTL

\* The recovery id of a recoverable signature, flipped where s was negated
\* and marked where x wrapped, recovers the signer's key, and no other does.
THEOREM SignerRecovered == DerivedSpec => []RecoversSigner
<1>1. ASSUME Inv, Signed("recoverable"), out["recoverable"].sig.r # 0,
             NEW i \in 0 .. 3
      PROVE  (PubkeyParse(pub) \subseteq
                 Recover(out["recoverable"].sig.r, out["recoverable"].sig.s, i, Msg))
             <=> i = out["recoverable"].sig.recid
  <2>1. PICK d \in Scalars \ {0}, k \in Scalars \ {0} :
              /\ PubkeyParse(pub) = {Times[d]} /\ Msg \in Scalars
              /\ SigSign(d, Msg, k).ok
              /\ out["recoverable"].sig.r = SigSign(d, Msg, k).r
              /\ out["recoverable"].sig.s = SigSign(d, Msg, k).s
              /\ out["recoverable"].sig.recid = SigSign(d, Msg, k).recid
    BY <1>1, Returned DEF Kinds
  <2> DEFINE r == out["recoverable"].sig.r
             s == out["recoverable"].sig.s
             recid == out["recoverable"].sig.recid
             R == NoncePoint(r, s, d, Msg)
  <2>2. /\ r \in Scalars /\ s \in Scalars /\ s # 0 /\ recid \in 0 .. 3
        /\ R # Infinity /\ R[1] = (IF recid >= 2 THEN r + N ELSE r)
        /\ R[2] % 2 = recid % 2
        /\ recid >= 2 => r < P - N
    BY <2>1, SignedPair
  <2>3. Times[d] # Infinity
    BY PublicKey
  <2>4. r # 0
    BY <1>1
  <2>5. Times[d] \in Recover(r, s, i, Msg) <=>
            /\ R[1] = (IF i >= 2 THEN r + N ELSE r)
            /\ R[2] % 2 = i % 2
            /\ i >= 2 => r < P - N
    BY <2>1, <2>2, <2>3, <2>4, RecoverPoint
  <2>6. r \in Int /\ N \in Int /\ N > 0 /\ r + N # r
    <3>1. N \in Int /\ N > 0 /\ \A x \in Scalars : x \in Int /\ x + N # x
      BY ScalarSet
    <3>2. QED
      BY <2>2, <3>1, Zenon
  <2> HIDE DEF r, s, recid, R
  <2>7. Times[d] \in Recover(r, s, i, Msg) <=>
            (i >= 2 <=> recid >= 2) /\ i % 2 = recid % 2
    BY <2>2, <2>5, <2>6
  <2>8. (i >= 2 <=> recid >= 2) /\ i % 2 = recid % 2 <=> i = recid
    BY <2>2, SMT
  <2>9. QED
    BY <2>1, <2>7, <2>8 DEF r, s, recid
<1>2. Inv => RecoversSigner
  BY <1>1 DEF RecoversSigner
<1>3. QED
  BY <1>2, Invariance, PTL

\* The strings that are read as a point, of all that are sent: one in each
\* form, and one hybrid.
LEMMA Spellings ==
    ASSUME NEW Q \in Points, Q # Infinity
    PROVE  KeySpellings[Q] = {PubkeySerialize(Q, TRUE), PubkeySerialize(Q, FALSE),
                              <<6 + (Q[2] % 2), Q[1], Q[2]>>}
<1> DEFINE Strings33 == (2 .. 7) \X FieldStrings
           Strings65 == (2 .. 7) \X FieldStrings \X FieldStrings
<1>1. /\ Q = <<Q[1], Q[2]>> /\ OnCurve(Q[1], Q[2])
      /\ Q[1] \in FieldStrings /\ Q[2] \in FieldStrings
      /\ Q[1] \in Nat /\ Q[2] \in Nat /\ Q[1] < P /\ Q[2] < P
  BY Finite, FieldStringsAssumption, Sizes DEF Field
<1>2. PICK y \in {0, 1} : y = Q[2] % 2
  <2>1. PICK z \in Nat : z = Q[2]
    BY <1>1
  <2>2. z % 2 \in {0, 1}
    BY SMT
  <2>3. QED
    BY <2>1, <2>2
<1>3. ASSUME NEW tag \in 2 .. 7, NEW x \in FieldStrings
      PROVE  PubkeyParse(<<tag, x>>) = {Q} <=> tag = 2 + y /\ x = Q[1]
  <2>1. Len(<<tag, x>>) = 2 /\ <<tag, x>>[1] = tag /\ <<tag, x>>[2] = x
    OBVIOUS
  <2>2. PubkeyParse(<<tag, x>>) = {p \in SetXo(x, tag % 2) : tag \in {2, 3} /\ x < P}
    BY <2>1 DEF PubkeyParse
  <2>3. tag = 2 + y <=> tag \in {2, 3} /\ tag % 2 = y
    BY SMT
  <2>4. ASSUME PubkeyParse(<<tag, x>>) = {Q} PROVE tag = 2 + y /\ x = Q[1]
    <3>1. Q \in SetXo(x, tag % 2) /\ tag \in {2, 3}
      BY <2>2, <2>4
    <3>2. x = Q[1] /\ tag % 2 = y
      BY <1>2, <3>1 DEF SetXo
    <3>3. QED
      BY <2>3, <3>1, <3>2
  <2>5. ASSUME tag = 2 + y, x = Q[1] PROVE PubkeyParse(<<tag, x>>) = {Q}
    <3>1. tag \in {2, 3} /\ tag % 2 = y
      BY <2>3, <2>5
    <3>2. \A p \in SetXo(x, tag % 2) : p = Q
      BY <1>2, <2>5, <3>1, SameXAndParity DEF SetXo
    <3>3. Q \in SetXo(x, tag % 2) /\ x < P
      BY <1>1, <1>2, <2>5, <3>1 DEF SetXo
    <3>4. QED
      BY <2>2, <3>1, <3>2, <3>3
  <2>6. QED
    BY <2>4, <2>5
<1>4. ASSUME NEW tag \in 2 .. 7, NEW x \in FieldStrings, NEW z \in FieldStrings
      PROVE  PubkeyParse(<<tag, x, z>>) = {Q}
                <=> (tag = 4 \/ tag = 6 + y) /\ x = Q[1] /\ z = Q[2]
  <2> DEFINE b == <<tag, x, z>>
  <2>1. Len(b) = 3 /\ b[1] = tag /\ b[2] = x /\ b[3] = z
    OBVIOUS
  <2> HIDE DEF b
  <2>2. PubkeyParse(b) =
            {p \in {<<x, z>>} : /\ tag \in {4, 6, 7} /\ x < P /\ z < P
                                /\ tag \in {6, 7} => p[2] % 2 = tag % 2
                                /\ OnCurve(p[1], p[2])}
    BY <2>1 DEF PubkeyParse
  <2>3. tag = 4 \/ tag = 6 + y
            <=> tag \in {4, 6, 7} /\ (tag \in {6, 7} => y = tag % 2)
    BY SMT
  <2>4. ASSUME PubkeyParse(b) = {Q}
        PROVE  (tag = 4 \/ tag = 6 + y) /\ x = Q[1] /\ z = Q[2]
    <3>1. Q = <<x, z>> /\ tag \in {4, 6, 7} /\ (tag \in {6, 7} => Q[2] % 2 = tag % 2)
      BY <2>2, <2>4
    <3>2. x = Q[1] /\ z = Q[2]
      BY <3>1
    <3>3. QED
      BY <1>2, <2>3, <3>1, <3>2
  <2>5. ASSUME tag = 4 \/ tag = 6 + y, x = Q[1], z = Q[2]
        PROVE  PubkeyParse(b) = {Q}
    <3>1. <<x, z>> = Q /\ tag \in {4, 6, 7} /\ (tag \in {6, 7} => Q[2] % 2 = tag % 2)
      BY <1>1, <1>2, <2>3, <2>5
    <3>2. QED
      BY <1>1, <2>2, <2>5, <3>1
  <2>6. QED
    BY <2>4, <2>5 DEF b
<1>5. KeySpellings[Q] = {b \in Strings33 \cup Strings65 : PubkeyParse(b) = {Q}}
  BY DEF KeySpellings
<1>6. /\ PubkeySerialize(Q, TRUE) = <<2 + y, Q[1]>>
      /\ PubkeySerialize(Q, FALSE) = <<4, Q[1], Q[2]>>
  BY <1>2 DEF PubkeySerialize
<1>7. {b \in Strings33 : PubkeyParse(b) = {Q}} = {<<2 + y, Q[1]>>}
  <2>1. 2 + y \in 2 .. 7
    OBVIOUS
  <2>2. QED
    BY <1>1, <1>3, <2>1
<1>8. {b \in Strings65 : PubkeyParse(b) = {Q}}
        = {<<4, Q[1], Q[2]>>, <<6 + y, Q[1], Q[2]>>}
  <2>1. 4 \in 2 .. 7 /\ 6 + y \in 2 .. 7
    OBVIOUS
  <2>2. QED
    BY <1>1, <1>4, <2>1
<1>9. QED
  BY <1>2, <1>5, <1>6, <1>7, <1>8

\* Of what could be sent as the other side's key, one string in each form
\* and one hybrid are read as it.
THEOREM OneSpelling == DerivedSpec => []OneKeyEachForm
<1>1. ASSUME Inv, NEW Q \in PubkeyParse(pub)
      PROVE  Q \in Points /\ Q # Infinity
  <2>1. PICK d \in Scalars \ {0} : pub = ComputePubkey(d)
    <3>1. CASE owed = << >>
      BY <1>1, <3>1, UpToDate DEF Inv, PairInv
    <3>2. CASE owed # << >>
      BY <1>1, <3>2 DEF Inv, PairInv
    <3>3. QED
      BY <3>1, <3>2
  <2>2. d \in Nat
    BY StringSet
  <2>3. PubkeyParse(pub) = {Times[d]}
    BY <2>1, <2>2, PairBytes
  <2>4. Q = Times[d]
    BY <1>1, <2>3
  <2>5. QED
    BY <2>4, PublicKey
<1>2. Inv => OneKeyEachForm
  BY <1>1, Spellings DEF OneKeyEachForm
<1>3. QED
  BY <1>2, Invariance, PTL

---------------------------------------------------------------------------
(* Sequences.                                                              *)

LEMMA SubSeqOf ==
    ASSUME NEW S, NEW t \in Seq(S), NEW m \in Nat, NEW n \in Nat,
           m >= 1, n <= Len(t), m <= n + 1
    PROVE  /\ SubSeq(t, m, n) \in Seq(S) /\ Len(SubSeq(t, m, n)) = n - m + 1
           /\ \A i \in 1 .. n - m + 1 : SubSeq(t, m, n)[i] = t[m + i - 1]
<1>1. Len(t) \in Nat
  BY LenProperties
<1>2. \A i \in m .. n : t[i] \in S
  <2> SUFFICES ASSUME NEW i \in m .. n PROVE t[i] \in S
    OBVIOUS
  <2>1. i \in 1 .. Len(t)
    BY <1>1
  <2>2. QED
    BY <2>1, ElementOfSeq
<1>3. QED
  BY <1>1, <1>2, SubSeqProperties

LEMMA ConcatOf ==
    ASSUME NEW S, NEW a \in Seq(S), NEW b \in Seq(S)
    PROVE  /\ a \o b \in Seq(S) /\ Len(a \o b) = Len(a) + Len(b)
           /\ \A i \in 1 .. Len(a) : (a \o b)[i] = a[i]
           /\ \A i \in 1 .. Len(b) : (a \o b)[Len(a) + i] = b[i]
<1>1. /\ a \o b \in Seq(S) /\ Len(a \o b) = Len(a) + Len(b)
      /\ \A i \in 1 .. Len(a) + Len(b) :
             (a \o b)[i] = IF i <= Len(a) THEN a[i] ELSE b[i - Len(a)]
  BY ConcatProperties
<1>2. Len(a) \in Nat /\ Len(b) \in Nat
  BY LenProperties
<1>3. \A i \in 1 .. Len(a) : (a \o b)[i] = a[i]
  BY <1>1, <1>2
<1>4. ASSUME NEW i \in 1 .. Len(b) PROVE (a \o b)[Len(a) + i] = b[i]
  <2>1. /\ Len(a) + i \in 1 .. Len(a) + Len(b) /\ ~(Len(a) + i <= Len(a))
        /\ (Len(a) + i) - Len(a) = i
    BY <1>2
  <2>2. QED
    BY <1>1, <2>1
<1>5. QED
  BY <1>1, <1>3, <1>4

\* The part of a concatenation that is its second half.
LEMMA SecondHalf ==
    ASSUME NEW S, NEW a \in Seq(S), NEW b \in Seq(S)
    PROVE  SubSeq(a \o b, Len(a) + 1, Len(a \o b)) = b
<1>1. PICK c : c = a \o b
  OBVIOUS
<1>2. /\ c \in Seq(S) /\ Len(c) = Len(a) + Len(b)
      /\ \A i \in 1 .. Len(b) : c[Len(a) + i] = b[i]
  BY <1>1, ConcatOf
<1>3. Len(a) \in Nat /\ Len(b) \in Nat
  BY LenProperties
<1>4. /\ Len(a) + 1 \in Nat /\ Len(c) \in Nat /\ Len(a) + 1 >= 1
      /\ Len(a) + 1 <= Len(c) + 1 /\ Len(c) <= Len(c)
      /\ Len(c) - (Len(a) + 1) + 1 = Len(b)
      /\ \A i \in 1 .. Len(b) : (Len(a) + 1) + i - 1 = Len(a) + i
  BY <1>2, <1>3
<1>5. PICK d : d = SubSeq(c, Len(a) + 1, Len(c))
  OBVIOUS
<1>6. /\ d \in Seq(S) /\ Len(d) = Len(c) - (Len(a) + 1) + 1
      /\ \A i \in 1 .. Len(c) - (Len(a) + 1) + 1 : d[i] = c[(Len(a) + 1) + i - 1]
  BY <1>2, <1>4, <1>5, SubSeqOf
<1>7. d \in Seq(S) /\ b \in Seq(S) /\ Len(d) = Len(b) /\ \A i \in 1 .. Len(d) : d[i] = b[i]
  BY <1>2, <1>4, <1>6
<1>8. d = b
  BY <1>7, SeqEqual
<1>9. QED
  BY <1>1, <1>5, <1>8

\* The part of a concatenation that is its first half.
LEMMA FirstHalf ==
    ASSUME NEW S, NEW a \in Seq(S), NEW b \in Seq(S)
    PROVE  SubSeq(a \o b, 1, Len(a)) = a
<1>1. PICK c : c = a \o b
  OBVIOUS
<1>2. /\ c \in Seq(S) /\ Len(c) = Len(a) + Len(b)
      /\ \A i \in 1 .. Len(a) : c[i] = a[i]
  BY <1>1, ConcatOf
<1>3. Len(a) \in Nat /\ Len(b) \in Nat
  BY LenProperties
<1>4. /\ 1 \in Nat /\ 1 >= 1 /\ Len(a) <= Len(c) /\ 1 <= Len(a) + 1
      /\ Len(a) - 1 + 1 = Len(a) /\ \A i \in 1 .. Len(a) : 1 + i - 1 = i
  BY <1>2, <1>3
<1>5. PICK d : d = SubSeq(c, 1, Len(a))
  OBVIOUS
<1>6. /\ d \in Seq(S) /\ Len(d) = Len(a) - 1 + 1
      /\ \A i \in 1 .. Len(a) - 1 + 1 : d[i] = c[1 + i - 1]
  BY <1>2, <1>3, <1>4, <1>5, SubSeqOf
<1>7. d \in Seq(S) /\ a \in Seq(S) /\ Len(d) = Len(a) /\ \A i \in 1 .. Len(d) : d[i] = a[i]
  BY <1>2, <1>4, <1>6
<1>8. d = a
  BY <1>7, SeqEqual
<1>9. QED
  BY <1>1, <1>5, <1>8

---------------------------------------------------------------------------
(* Numbers in bytes.                                                       *)

\* n in len bytes.
Written(n, len) == [i \in 1 .. len |-> (n \div Byte ^ (len - i)) % Byte]

LEMMA ByteSizes ==
    /\ Byte \in Nat /\ Byte % 2 = 0 /\ Byte >= 8 /\ Bytes \in Nat /\ Bytes >= 1
    /\ LongForm \in Nat /\ 4 + 2 * (Bytes + 1) < LongForm
    /\ N < Byte ^ Bytes
<1>1. /\ Byte \in Nat /\ Byte % 2 = 0 /\ Bytes \in Nat /\ N < Byte ^ Bytes
      /\ LongForm \in 7 + 2 * (Bytes + 1) .. Byte - 1
  BY EncodingsAssumption
<1>2. Bytes # 0
  BY <1>1, PowersAssumption, Sizes
<1>3. QED
  BY <1>1, <1>2

LEMMA Power ==
    ASSUME NEW n \in 0 .. Bytes + 1
    PROVE  Byte ^ n \in Nat /\ Byte ^ n >= 1
<1> DEFINE S == {i \in Nat : i <= Bytes + 1 => Byte ^ i \in Nat /\ Byte ^ i >= 1}
<1>1. Bytes \in Nat /\ Byte \in Nat /\ Byte >= 1
  BY ByteSizes
<1>2. 0 \in S
  BY <1>1, PowersAssumption
<1>3. ASSUME NEW i \in Nat, i \in S PROVE i + 1 \in S
  <2>1. SUFFICES ASSUME i + 1 <= Bytes + 1
                 PROVE  Byte ^ (i + 1) \in Nat /\ Byte ^ (i + 1) >= 1
    OBVIOUS
  <2>2. i \in 0 .. Bytes /\ i <= Bytes + 1
    BY <1>1, <2>1
  <2>3. Byte ^ (i + 1) = Byte * Byte ^ i /\ Byte ^ i \in Nat /\ Byte ^ i >= 1
    BY <1>3, <2>2, PowersAssumption
  <2>4. PICK p \in Nat, b \in Nat : p = Byte ^ i /\ b = Byte /\ p >= 1 /\ b >= 1
    BY <1>1, <2>3
  <2>5. b * p \in Nat /\ b * p >= 1
    <3>1. b * p >= p
      BY <2>4, SMT
    <3>2. b * p \in Nat
      BY SMT
    <3>3. QED
      BY <2>4, <3>1, <3>2
  <2>6. QED
    BY <2>3, <2>4, <2>5
<1> HIDE DEF S
<1>4. \A i \in Nat : i \in S
  BY <1>2, <1>3, Induction
<1>5. QED
  BY <1>1, <1>4 DEF S

\* One byte more to the right.
LEMMA NextByte ==
    ASSUME NEW n \in Nat, NEW e \in 0 .. Bytes
    PROVE  /\ n \div Byte ^ e \in Nat /\ n \div Byte ^ (e + 1) \in Nat
           /\ (n \div Byte ^ e) % Byte \in 0 .. Byte - 1
           /\ n \div Byte ^ e = (n \div Byte ^ (e + 1)) * Byte + ((n \div Byte ^ e) % Byte)
<1>1. Bytes \in Nat /\ Byte \in Nat /\ Byte > 0
  BY ByteSizes
<1>2. Byte ^ e \in Nat /\ Byte ^ e >= 1 /\ Byte ^ (e + 1) = Byte * Byte ^ e
  <2>1. e \in 0 .. Bytes + 1
    BY <1>1
  <2>2. QED
    BY <2>1, Power, PowersAssumption
<1>3. PICK p \in Nat, b \in Nat : p = Byte ^ e /\ b = Byte /\ p > 0 /\ b > 0
  BY <1>1, <1>2
<1>4. n \div p \in Nat
  BY <1>3, Division
<1>5. (n \div p) \div b = n \div (p * b)
  BY <1>3, DivisionTwice
<1>6. PICK q \in Nat : q = n \div p
  BY <1>4
<1>7. q \div b \in Nat /\ q % b \in 0 .. b - 1 /\ q = (q \div b) * b + (q % b)
  BY <1>3, Division
<1>8. p * b = Byte ^ (e + 1)
  BY <1>2, <1>3
<1>9. q \div b = n \div Byte ^ (e + 1)
  BY <1>5, <1>6, <1>8
<1>10. QED
  BY <1>3, <1>4, <1>6, <1>7, <1>9

LEMMA WrittenIs ==
    ASSUME NEW n \in Nat, NEW len \in 0 .. Bytes + 1
    PROVE  /\ Written(n, len) \in Seq(Nat) /\ Len(Written(n, len)) = len
           /\ \A i \in 1 .. len : /\ Written(n, len)[i] = (n \div Byte ^ (len - i)) % Byte
                                  /\ Written(n, len)[i] \in 0 .. Byte - 1
<1>1. Bytes \in Nat
  BY ByteSizes
<1>2. \A i \in 1 .. len : (n \div Byte ^ (len - i)) % Byte \in 0 .. Byte - 1
  <2> SUFFICES ASSUME NEW i \in 1 .. len
               PROVE  (n \div Byte ^ (len - i)) % Byte \in 0 .. Byte - 1
    OBVIOUS
  <2>1. len - i \in 0 .. Bytes
    BY <1>1
  <2>2. QED
    BY <2>1, NextByte
<1>3. len \in Nat /\ Byte \in Nat
  BY <1>1, ByteSizes
<1>4. Written(n, len) \in [1 .. len -> Nat]
  BY <1>2, <1>3 DEF Written
<1>5. Written(n, len) \in Seq(Nat) /\ Len(Written(n, len)) = len
  BY <1>3, <1>4, IsASeq, LenProperties
<1>6. QED
  BY <1>2, <1>5 DEF Written

\* A quotient by more than the number is zero.
LEMMA SmallQuotient ==
    ASSUME NEW n \in Nat, NEW p \in Nat, n < p
    PROVE  n \div p = 0
<1>1. p \in Nat /\ p > 0 /\ 0 \in Int /\ n \in 0 .. p - 1
  OBVIOUS
<1>2. (0 * p + n) \div p = 0
  BY <1>1, DivUnique
<1>3. 0 * p + n = n
  OBVIOUS
<1>4. QED
  BY <1>2, <1>3

\* A number that fits is what its bytes say.
LEMMA ValueIs ==
    ASSUME NEW n \in Nat, NEW len \in 0 .. Bytes + 1, n < Byte ^ len
    PROVE  Value(Written(n, len)) = n
<1>1. Bytes \in Nat /\ Byte \in Nat /\ Byte > 0
  BY ByteSizes
<1>0. PICK w : w = Written(n, len)
  OBVIOUS
<1>2. PICK l \in Nat : l = len /\ l <= Bytes + 1
  BY <1>1
<1>3. Len(w) = l /\ \A i \in 1 .. l : w[i] = (n \div Byte ^ (l - i)) % Byte
  BY <1>0, <1>2, WrittenIs
<1> DEFINE g == [i \in 0 .. l |-> n \div Byte ^ (l - i)]
<1>4. g[0] = 0 /\ g[l] = n
  <2>1. l - 0 = l /\ l - l = 0 /\ 0 \in 0 .. l /\ l \in 0 .. l
    OBVIOUS
  <2>2. PICK p \in Nat : p = Byte ^ l /\ n < p
    BY <1>2, Power
  <2>3. n \div p = 0
    BY <2>2, SmallQuotient
  <2>4. n \div 1 = n
    OBVIOUS
  <2>5. Byte ^ 0 = 1
    BY PowersAssumption
  <2>6. QED
    BY <2>1, <2>2, <2>3, <2>4, <2>5
<1>5. ASSUME NEW i \in 1 .. l PROVE g[i] = g[i - 1] * Byte + w[i]
  <2>1. PICK e \in 0 .. Bytes : e = l - i
    BY <1>1, <1>2
  <2>2. n \div Byte ^ e = (n \div Byte ^ (e + 1)) * Byte + ((n \div Byte ^ e) % Byte)
    BY NextByte
  <2>3. l - (i - 1) = e + 1 /\ i \in 0 .. l /\ i - 1 \in 0 .. l
    BY <2>1
  <2>4. g[i] = n \div Byte ^ e /\ g[i - 1] = n \div Byte ^ (e + 1)
    BY <2>1, <2>3
  <2>5. w[i] = (n \div Byte ^ e) % Byte
    BY <1>3, <2>1
  <2>6. QED
    BY <2>2, <2>4, <2>5
<1> HIDE DEF g
<1>6. g = [i \in 0 .. l |-> IF i = 0 THEN 0 ELSE g[i - 1] * Byte + w[i]]
  <2>1. ASSUME NEW i \in 0 .. l PROVE g[i] = IF i = 0 THEN 0 ELSE g[i - 1] * Byte + w[i]
    <3>1. i = 0 \/ i \in 1 .. l
      OBVIOUS
    <3>2. QED
      BY <1>4, <1>5, <3>1
  <2>2. g = [i \in 0 .. l |-> g[i]]
    BY DEF g
  <2>3. QED
    BY <2>1, <2>2
<1> DEFINE D == CHOOSE d : d = [i \in 0 .. l |-> IF i = 0 THEN 0 ELSE d[i - 1] * Byte + w[i]]
<1>7. D = [i \in 0 .. l |-> IF i = 0 THEN 0 ELSE D[i - 1] * Byte + w[i]]
  BY <1>6
<1>8. Value(w) = D[l]
  BY <1>3 DEF Value
<1> HIDE DEF D
<1>9. \A i \in 0 .. l : D[i] = IF i = 0 THEN 0 ELSE D[i - 1] * Byte + w[i]
  BY <1>7
<1> DEFINE S == {i \in Nat : i <= l => D[i] = g[i]}
<1>10. 0 \in S
  BY <1>4, <1>9
<1>11. ASSUME NEW i \in Nat, i \in S PROVE i + 1 \in S
  <2> SUFFICES ASSUME i + 1 <= l PROVE D[i + 1] = g[i + 1]
    OBVIOUS
  <2>1. i + 1 \in 1 .. l /\ i + 1 \in 0 .. l /\ i + 1 # 0 /\ (i + 1) - 1 = i /\ i <= l
    OBVIOUS
  <2>2. D[i] = g[i]
    BY <1>11, <2>1
  <2>3. D[i + 1] = D[i] * Byte + w[i + 1] /\ g[i + 1] = g[i] * Byte + w[i + 1]
    BY <1>5, <1>9, <2>1
  <2>4. QED
    BY <2>2, <2>3
<1> HIDE DEF S
<1>12. l \in S
  BY <1>10, <1>11, Induction
<1>13. D[l] = g[l]
  BY <1>12 DEF S
<1>14. QED
  BY <1>0, <1>4, <1>8, <1>13

---------------------------------------------------------------------------
(* DER.                                                                    *)

\* What is serialized: the number in as many bytes as it takes, which no
\* parser takes for a negative number, and as good as any other that is the
\* shortest.
LEMMA SerializedIs ==
    ASSUME NEW n \in Nat, n < Byte ^ Bytes
    PROVE  \E len \in 1 .. Bytes + 1 :
              /\ SerializeInteger(n) = Written(n, len) /\ n < Byte ^ len
              /\ ~TopBit(SerializeInteger(n)[1]) /\ Shortest(SerializeInteger(n))
              /\ ~TopBit(GetB32(n)[1]) /\ Shortest(GetB32(n))
                    => SerializeInteger(n) = GetB32(n)
<1>1. /\ Byte \in Nat /\ Byte % 2 = 0 /\ Byte >= 8 /\ Bytes \in Nat /\ Bytes >= 1
      /\ Bytes \in 0 .. Bytes + 1 /\ Bytes + 1 \in 0 .. Bytes + 1 /\ Bytes \in 0 .. Bytes
  BY ByteSizes
<1>2. PICK h \in Nat : h = Byte \div 2 /\ h > 0 /\ h <= Byte - 1
  BY <1>1
<1>3. PICK g : g = GetB32(n) /\ g = Written(n, Bytes)
  BY DEF GetB32, Written
<1>4. /\ g \in Seq(Nat) /\ Len(g) = Bytes
      /\ \A i \in 1 .. Bytes : g[i] = (n \div Byte ^ (Bytes - i)) % Byte
  BY <1>1, <1>3, WrittenIs
<1>5. PICK zero : zero = <<0>>
  OBVIOUS
<1>6. zero \in Seq(Nat) /\ Len(zero) = 1 /\ zero[1] = 0
  BY <1>5
<1>7. PICK b : b = zero \o g
  OBVIOUS
<1>8. zero \in Seq(Nat) /\ g \in Seq(Nat)
  BY <1>4, <1>6
<1>9. /\ b \in Seq(Nat) /\ Len(b) = Len(zero) + Len(g)
      /\ \A i \in 1 .. Len(zero) : b[i] = zero[i]
      /\ \A i \in 1 .. Len(g) : b[Len(zero) + i] = g[i]
  BY <1>7, <1>8, ConcatOf
<1>10. /\ Len(b) = Bytes + 1 /\ b[1] = 0
       /\ \A i \in 1 .. Bytes : b[1 + i] = g[i]
  <2>1. 1 \in 1 .. Len(zero)
    BY <1>6
  <2>2. QED
    BY <1>1, <1>4, <1>6, <1>9, <2>1
<1>11. ASSUME NEW i \in 1 .. Bytes + 1
       PROVE  b[i] = (n \div Byte ^ (Bytes + 1 - i)) % Byte
  <2>1. CASE i = 1
    <3>1. Byte ^ Bytes \in Nat
      BY <1>1, Power
    <3>2. PICK p \in Nat : p = Byte ^ Bytes /\ n < p
      BY <3>1
    <3>3. n \div p = 0
      BY <3>2, SmallQuotient
    <3>4. Bytes + 1 - i = Bytes /\ 0 % Byte = 0
      BY <1>1, <2>1
    <3>5. QED
      BY <1>10, <2>1, <3>2, <3>3, <3>4
  <2>2. CASE i # 1
    <3>1. PICK j \in 1 .. Bytes : i = 1 + j
      <4>1. i - 1 \in 1 .. Bytes /\ i = 1 + (i - 1)
        BY <1>1, <2>2
      <4>2. QED
        BY <4>1
    <3>2. Bytes + 1 - i = Bytes - j
      BY <1>1, <3>1
    <3>3. QED
      BY <1>4, <1>10, <3>1, <3>2
  <2>3. QED
    BY <2>1, <2>2
<1> DEFINE first == {i \in 1 .. Len(b) : i = Len(b) \/ b[i] # 0 \/ TopBit(b[i + 1])}
<1>12. SerializeInteger(n) = SubSeq(b, Min(first), Len(b))
  BY <1>3, <1>5, <1>7 DEF SerializeInteger
<1>13. first \in SUBSET Nat /\ first # {}
  <2>1. Bytes + 1 \in first
    BY <1>1, <1>10
  <2>2. \A i \in first : i \in Nat
    BY <1>1, <1>10
  <2> HIDE DEF first
  <2>3. QED
    BY <2>1, <2>2
<1>14. PICK f \in first : f = Min(first) /\ \A i \in first : f <= i
  <2>1. \E i \in first : \A j \in first : i <= j
    BY <1>13, LeastNumber
  <2>2. QED
    BY <2>1, Zenon DEF Min
<1>15. /\ f \in 1 .. Bytes + 1 /\ (f = Bytes + 1 \/ b[f] # 0 \/ TopBit(b[f + 1]))
       /\ \A i \in 1 .. Bytes + 1 : i < f => b[i] = 0 /\ ~TopBit(b[i + 1])
  <2>1. f \in 1 .. Bytes + 1 /\ (f = Bytes + 1 \/ b[f] # 0 \/ TopBit(b[f + 1]))
    BY <1>10, <1>14
  <2>2. ASSUME NEW i \in 1 .. Bytes + 1, i < f PROVE b[i] = 0 /\ ~TopBit(b[i + 1])
    <3>1. ~(f <= i)
      BY <1>1, <2>1, <2>2
    <3>2. i \notin first
      BY <1>14, <3>1
    <3>3. QED
      BY <1>10, <3>2
  <2>3. QED
    BY <2>1, <2>2
<1>16. PICK d : d = SubSeq(b, f, Bytes + 1)
  OBVIOUS
<1>17. SerializeInteger(n) = d
  BY <1>10, <1>12, <1>14, <1>16
<1> HIDE DEF first
<1>18. PICK len \in 1 .. Bytes + 1 : len = Bytes + 1 - f + 1
  BY <1>1, <1>15
<1>19. /\ d \in Seq(Nat) /\ Len(d) = len
       /\ \A i \in 1 .. len : d[i] = b[f + i - 1]
  <2>1. /\ f \in Nat /\ Bytes + 1 \in Nat /\ f >= 1 /\ Bytes + 1 <= Len(b)
        /\ f <= (Bytes + 1) + 1
    BY <1>1, <1>10, <1>15
  <2>2. /\ d \in Seq(Nat) /\ Len(d) = Bytes + 1 - f + 1
        /\ \A i \in 1 .. Bytes + 1 - f + 1 : d[i] = b[f + i - 1]
    <3>1. b \in Seq(Nat)
      BY <1>9
    <3>2. PICK k \in Nat, j \in Nat : k = Bytes + 1 /\ j = f
      BY <2>1
    <3>3. j >= 1 /\ k <= Len(b) /\ j <= k + 1 /\ d = SubSeq(b, j, k)
      BY <1>16, <2>1, <3>2
    <3>4. /\ SubSeq(b, j, k) \in Seq(Nat) /\ Len(SubSeq(b, j, k)) = k - j + 1
          /\ \A i \in 1 .. k - j + 1 : SubSeq(b, j, k)[i] = b[j + i - 1]
      BY <3>1, <3>3, SubSeqOf
    <3>5. k - j + 1 = Bytes + 1 - f + 1
      BY <1>1, <2>1, <3>2
    <3>6. d \in Seq(Nat) /\ Len(d) = k - j + 1
      BY <3>3, <3>4
    <3>7. \A i \in 1 .. k - j + 1 : d[i] = b[j + i - 1]
      BY <3>3, <3>4
    <3>8. \A i \in 1 .. Bytes + 1 - f + 1 : d[i] = b[f + i - 1]
      BY <3>2, <3>5, <3>7, Zenon
    <3>9. QED
      BY <3>5, <3>6, <3>8, Zenon
  <2>3. QED
    BY <1>18, <2>2, Zenon
<1>20. d = Written(n, len)
  <2>1. PICK w : w = Written(n, len)
    OBVIOUS
  <2>2. len \in 0 .. Bytes + 1
    BY <1>1
  <2>3. /\ w \in Seq(Nat) /\ Len(w) = len
        /\ \A i \in 1 .. len : w[i] = (n \div Byte ^ (len - i)) % Byte
    BY <2>1, <2>2, WrittenIs
  <2>4. ASSUME NEW i \in 1 .. len PROVE d[i] = w[i]
    <3>1. f + i - 1 \in 1 .. Bytes + 1 /\ Bytes + 1 - (f + i - 1) = len - i
      BY <1>1, <1>15, <1>18
    <3>2. QED
      BY <1>11, <1>19, <2>3, <3>1
  <2>5. d \in Seq(Nat) /\ w \in Seq(Nat) /\ Len(d) = Len(w)
        /\ \A i \in 1 .. Len(d) : d[i] = w[i]
    BY <1>19, <2>3, <2>4
  <2>6. d = w
    BY <2>5, SeqEqual
  <2>7. QED
    BY <2>1, <2>6
<1>21. n < Byte ^ len
  <2> DEFINE Fits == {e \in Nat : e <= Bytes /\ n < Byte ^ e}
  <2>1. Fits \in SUBSET Nat /\ Fits # {}
    <3>1. Bytes \in Fits
      BY <1>1
    <3>2. QED
      BY <3>1
  <2>2. PICK e \in Fits : \A i \in Fits : e <= i
    BY <2>1, LeastNumber
  <2>3. e \in Nat /\ e <= Bytes /\ n < Byte ^ e
    BY <2>2
  <2>4. CASE e <= len
    <3>1. PICK k \in Nat : len = e + k
      <4>1. len - e \in Nat /\ len = e + (len - e)
        BY <2>3, <2>4
      <4>2. QED
        BY <4>1
    <3> DEFINE S == {i \in Nat : e + i <= Bytes + 1 => n < Byte ^ (e + i)}
    <3>2. 0 \in S
      <4>1. e + 0 = e
        BY <2>3
      <4>2. QED
        BY <2>3, <4>1
    <3>3. ASSUME NEW i \in Nat, i \in S PROVE i + 1 \in S
      <4>1. SUFFICES ASSUME e + (i + 1) <= Bytes + 1 PROVE n < Byte ^ (e + (i + 1))
        OBVIOUS
      <4>2. PICK m \in 0 .. Bytes : m = e + i
        BY <1>1, <2>3, <4>1
      <4>3. e + (i + 1) = m + 1 /\ e + i <= Bytes + 1
        BY <1>1, <2>3, <4>1, <4>2
      <4>4. n < Byte ^ m
        BY <3>3, <4>2, <4>3
      <4>5. Byte ^ (m + 1) = Byte * Byte ^ m /\ Byte ^ m \in Nat
        BY PowersAssumption
      <4>6. PICK p \in Nat, c \in Nat : p = Byte ^ m /\ c = Byte /\ c >= 1
        BY <1>1, <4>5
      <4>7. c * p >= p /\ c * p \in Nat
        BY <4>6, SMT
      <4>8. QED
        BY <4>3, <4>4, <4>5, <4>6, <4>7
    <3> HIDE DEF S
    <3>4. \A i \in Nat : i \in S
      BY <3>2, <3>3, Induction
    <3>5. QED
      BY <1>1, <1>18, <3>1, <3>4 DEF S
  <2>5. CASE e > len
    <3>1. PICK x \in Nat : x = e - 1 /\ x <= Bytes /\ x \in 0 .. Bytes /\ x \in 0 .. Bytes + 1
                           /\ x >= len
      BY <1>1, <1>18, <2>3, <2>5
    <3>2. ~(e <= x)
      BY <2>3, <3>1
    <3>3. ~(n < Byte ^ x)
      BY <2>2, <3>1, <3>2
    <3>4. PICK p \in Nat, c \in Nat : p = Byte ^ x /\ c = Byte /\ p >= 1 /\ c > 0
      BY <1>1, <3>1, Power
    <3>5. x + 1 = e /\ Byte ^ (x + 1) = Byte * Byte ^ x
      BY <2>3, <3>1, PowersAssumption
    <3>6. n < c * p /\ p <= n
      BY <2>3, <3>3, <3>4, <3>5
    <3>7. n \div p < c
      BY <3>4, <3>6, DivisionBelow
    <3>8. PICK q \in Nat, r \in 0 .. p - 1 : q = n \div p /\ n = q * p + r
      <4>1. \A k, m \in Nat : m > 0 => k \div m \in Nat /\ k % m \in 0 .. m - 1
                                      /\ k = (k \div m) * m + (k % m)
        BY Division
      <4>2. p > 0
        BY <3>4
      <4>3. n \div p \in Nat /\ n % p \in 0 .. p - 1 /\ n = (n \div p) * p + (n % p)
        BY <4>1, <4>2, Zenon
      <4>4. QED
        BY <4>3
    <3>9. q # 0
      <4>1. ASSUME q = 0 PROVE FALSE
        <5>1. q * p = 0
          BY <4>1, SMT
        <5>2. QED
          BY <3>6, <3>8, <5>1
      <4>2. QED
        BY <4>1
    <3>10. q % c = q
      <4>1. q \in 0 .. c - 1 /\ 0 \in Int
        BY <3>7, <3>8
      <4>2. (0 * c + q) % c = q
        BY <3>4, <4>1, DivUnique
      <4>3. 0 * c + q = q
        BY <3>4, <3>8
      <4>4. QED
        BY <4>2, <4>3
    <3>11. PICK i \in 1 .. Bytes + 1 : i = Bytes + 1 - x /\ i < f
      <4>1. Bytes + 1 - x \in 1 .. Bytes + 1 /\ Bytes + 1 - x < f
        BY <1>1, <1>15, <1>18, <3>1
      <4>2. QED
        BY <4>1
    <3>12. Bytes + 1 - i = x
      BY <1>1, <3>1, <3>11
    <3>13. b[i] = q
      BY <1>11, <3>4, <3>8, <3>10, <3>12
    <3>14. b[i] = 0
      BY <1>15, <3>11
    <3>15. QED
      BY <3>9, <3>13, <3>14
  <2>6. QED
    BY <1>18, <2>3, <2>4, <2>5
<1>22. \A i \in 1 .. Bytes + 1 : b[i] \in 0 .. Byte - 1
  <2> SUFFICES ASSUME NEW i \in 1 .. Bytes + 1 PROVE b[i] \in 0 .. Byte - 1
    OBVIOUS
  <2>1. Bytes + 1 - i \in 0 .. Bytes
    BY <1>1
  <2>2. QED
    BY <1>11, <2>1, NextByte
<1>23. ~TopBit(b[f]) /\ d[1] = b[f]
  <2>1. 1 \in 1 .. len /\ f + 1 - 1 = f
    BY <1>1, <1>15, <1>18
  <2>2. d[1] = b[f]
    BY <1>19, <2>1
  <2>3. CASE f = 1
    BY <1>2, <1>10, <2>2, <2>3 DEF TopBit
  <2>4. CASE f # 1
    <3>1. PICK i \in 1 .. Bytes + 1 : i < f /\ i + 1 = f
      <4>1. f - 1 \in 1 .. Bytes + 1 /\ f - 1 < f /\ (f - 1) + 1 = f
        BY <1>1, <1>15, <2>4
      <4>2. QED
        BY <4>1
    <3>2. QED
      BY <1>15, <2>2, <3>1
  <2>5. QED
    BY <2>2, <2>3, <2>4
<1>24. Shortest(d)
  <2> SUFFICES ASSUME Len(d) > 1
               PROVE  /\ ~(d[1] = 0 /\ ~TopBit(d[2]))
                      /\ ~(d[1] = Byte - 1 /\ TopBit(d[2]))
    BY DEF Shortest
  <2>1. f # Bytes + 1 /\ 2 \in 1 .. len /\ f + 2 - 1 = f + 1
    BY <1>1, <1>15, <1>18, <1>19
  <2>2. d[2] = b[f + 1]
    BY <1>19, <2>1
  <2>3. ~(d[1] = 0 /\ ~TopBit(d[2]))
    BY <1>15, <1>23, <2>1, <2>2
  <2>4. d[1] # Byte - 1
    BY <1>1, <1>2, <1>23 DEF TopBit
  <2>5. QED
    BY <2>3, <2>4
<1>25. ASSUME ~TopBit(g[1]), Shortest(g) PROVE d = g
  <2>1. f = 2
    <3>1. f # 1
      <4>1. ASSUME f = 1 PROVE FALSE
        <5>1. b[1] = 0 /\ 1 \in 1 .. Bytes /\ 1 # Bytes + 1
          BY <1>1, <1>10
        <5>2. b[1 + 1] = g[1]
          BY <1>10, <5>1
        <5>3. QED
          BY <1>15, <1>25, <4>1, <5>1, <5>2
      <4>2. QED
        BY <4>1
    <3>2. ASSUME f > 2 PROVE FALSE
      <4>1. 2 \in 1 .. Bytes + 1 /\ 2 < f /\ Bytes > 1 /\ 1 \in 1 .. Bytes /\ 2 \in 1 .. Bytes
            /\ 1 + 1 = 2 /\ 1 + 2 = 3 /\ 2 + 1 = 3
        BY <1>1, <1>15, <3>2
      <4>2. b[2] = 0 /\ ~TopBit(b[3])
        BY <1>15, <4>1
      <4>3. b[2] = g[1] /\ b[3] = g[2]
        BY <1>10, <4>1
      <4>4. QED
        BY <1>4, <1>25, <4>1, <4>2, <4>3 DEF Shortest
    <3>3. QED
      BY <1>1, <1>15, <3>1, <3>2
  <2>2. len = Bytes
    BY <1>1, <1>18, <2>1
  <2>3. QED
    BY <1>3, <1>20, <2>2
<1>26. QED
  BY <1>3, <1>17, <1>20, <1>21, <1>23, <1>24, <1>25

\* The part of a concatenation that is in its middle.
LEMMA MiddlePart ==
    ASSUME NEW X, NEW a \in Seq(X), NEW b \in Seq(X), NEW c \in Seq(X)
    PROVE  SubSeq(a \o b \o c, Len(a) + 1, Len(a) + Len(b)) = b
<1>1. PICK e : e = a \o b
  OBVIOUS
<1>2. /\ e \in Seq(X) /\ Len(e) = Len(a) + Len(b)
      /\ \A i \in 1 .. Len(b) : e[Len(a) + i] = b[i]
  BY <1>1, ConcatOf
<1>3. PICK d : d = e \o c
  OBVIOUS
<1>4. e \in Seq(X) /\ c \in Seq(X)
  BY <1>2
<1>5. /\ d \in Seq(X) /\ Len(d) = Len(e) + Len(c)
      /\ \A i \in 1 .. Len(e) : d[i] = e[i]
  BY <1>3, <1>4, ConcatOf
<1>6. Len(a) \in Nat /\ Len(b) \in Nat /\ Len(c) \in Nat
  BY LenProperties
<1>7. PICK m \in Nat, n \in Nat : m = Len(a) + 1 /\ n = Len(a) + Len(b)
  BY <1>6
<1>8. m >= 1 /\ n <= Len(d) /\ m <= n + 1 /\ n - m + 1 = Len(b)
  BY <1>2, <1>5, <1>6, <1>7
<1>9. d \in Seq(X)
  BY <1>5
<1>10. PICK f : f = SubSeq(d, m, n)
  OBVIOUS
<1>11. /\ f \in Seq(X) /\ Len(f) = n - m + 1
       /\ \A i \in 1 .. n - m + 1 : f[i] = d[m + i - 1]
  BY <1>8, <1>9, <1>10, SubSeqOf
<1>12. ASSUME NEW i \in 1 .. Len(b) PROVE f[i] = b[i]
  <2>1. m + i - 1 = Len(a) + i /\ Len(a) + i \in 1 .. Len(e) /\ i \in 1 .. n - m + 1
    BY <1>2, <1>6, <1>7, <1>8
  <2>2. f[i] = d[Len(a) + i]
    BY <1>11, <2>1
  <2>3. d[Len(a) + i] = e[Len(a) + i] /\ e[Len(a) + i] = b[i]
    BY <1>2, <1>5, <2>1
  <2>4. QED
    BY <2>2, <2>3
<1>13. f \in Seq(X) /\ b \in Seq(X) /\ Len(f) = Len(b) /\ \A i \in 1 .. Len(f) : f[i] = b[i]
  BY <1>8, <1>11, <1>12
<1>14. f = b
  BY <1>13, SeqEqual
<1>15. QED
  BY <1>1, <1>3, <1>7, <1>10, <1>14

LEMMA Associates ==
    \A x, y, z \in Seq(Nat) : (x \o y) \o z = x \o (y \o z)
BY ConcatAssociative

LEMMA PairOf ==
    ASSUME NEW t \in Nat, NEW n \in Nat
    PROVE  /\ <<t, n>> \in Seq(Nat) /\ Len(<<t, n>>) = 2
           /\ <<t, n>>[1] = t /\ <<t, n>>[2] = n
OBVIOUS

\* An integer is read at the head of what has it there, and what follows is
\* left.
LEMMA ParseIntegerOf ==
    ASSUME NEW R \in Seq(Nat), NEW T \in Seq(Nat), Len(R) >= 1
    PROVE  ParseInteger(<<TagInteger, Len(R)>> \o R \o T)
             = IF Len(R) < LongForm /\ Shortest(R) THEN {<<IntegerOf(R), T>>} ELSE {}
<1>1. PICK l \in Nat : l = Len(R) /\ l >= 1
  BY LenProperties
<1>2. PICK a : a = <<TagInteger, l>>
  OBVIOUS
<1>3. a \in Seq(Nat) /\ Len(a) = 2 /\ a[1] = TagInteger /\ a[2] = l
  BY <1>2, PairOf DEF TagInteger
<1>4. a \in Seq(Nat)
  BY <1>3
<1>5. PICK e : e = a \o R
  OBVIOUS
<1>6. /\ e \in Seq(Nat) /\ Len(e) = Len(a) + Len(R)
      /\ \A i \in 1 .. Len(a) : e[i] = a[i]
  BY <1>4, <1>5, ConcatOf
<1>7. e \in Seq(Nat)
  BY <1>6
<1>8. PICK c : c = e \o T
  OBVIOUS
<1>9. /\ c \in Seq(Nat) /\ Len(c) = Len(e) + Len(T)
      /\ \A i \in 1 .. Len(e) : c[i] = e[i]
  BY <1>7, <1>8, ConcatOf
<1>10. Len(e) = 2 + l /\ Len(c) = 2 + l + Len(T) /\ Len(T) \in Nat
  BY <1>1, <1>3, <1>6, <1>9, LenProperties
<1>11. c[1] = TagInteger /\ c[2] = l
  <2>1. /\ 1 \in 1 .. Len(a) /\ 2 \in 1 .. Len(a)
        /\ 1 \in 1 .. Len(e) /\ 2 \in 1 .. Len(e)
    BY <1>3, <1>10
  <2>2. QED
    BY <1>3, <1>6, <1>9, <2>1
<1>12. SubSeq(c, 3 + l, Len(c)) = T
  <2>1. SubSeq(e \o T, Len(e) + 1, Len(e \o T)) = T
    BY <1>7, SecondHalf
  <2>2. Len(e) + 1 = 3 + l
    BY <1>10
  <2>3. QED
    BY <1>8, <2>1, <2>2
<1>13. SubSeq(c, 3, 2 + l) = R
  <2>1. SubSeq(a \o R \o T, Len(a) + 1, Len(a) + Len(R)) = R
    BY <1>4, MiddlePart
  <2>2. Len(a) + 1 = 3 /\ Len(a) + Len(R) = 2 + l
    BY <1>1, <1>3
  <2>3. QED
    BY <1>5, <1>8, <2>1, <2>2
<1>14. l \in 1 .. Len(c) - 2
  BY <1>1, <1>10
<1> DEFINE Ns == {n \in 1 .. Len(c) - 2 : /\ c[1] = TagInteger
                                          /\ c[2] = n /\ n < LongForm
                                          /\ Shortest(SubSeq(c, 3, 2 + n))}
<1>15. Ns = IF l < LongForm /\ Shortest(R) THEN {l} ELSE {}
  <2>1. ASSUME NEW n \in Ns PROVE n = l /\ l < LongForm /\ Shortest(R)
    BY <1>11, <1>13
  <2>2. ASSUME l < LongForm, Shortest(R) PROVE l \in Ns
    BY <1>11, <1>13, <1>14, <2>2
  <2> HIDE DEF Ns
  <2>3. QED
    BY <2>1, <2>2
<1>16. ParseInteger(c) = {<<IntegerOf(SubSeq(c, 3, 2 + n)), SubSeq(c, 3 + n, Len(c))>> : n \in Ns}
  BY DEF ParseInteger
<1> HIDE DEF Ns
<1>19. c = <<TagInteger, Len(R)>> \o R \o T
  BY <1>1, <1>2, <1>5, <1>8
<1>17. CASE l < LongForm /\ Shortest(R)
  <2>1. ParseInteger(c) = {<<IntegerOf(SubSeq(c, 3, 2 + n)), SubSeq(c, 3 + n, Len(c))>> : n \in {l}}
    BY <1>15, <1>16, <1>17
  <2>2. ParseInteger(c) = {<<IntegerOf(SubSeq(c, 3, 2 + l)), SubSeq(c, 3 + l, Len(c))>>}
    BY <2>1, Zenon
  <2>3. QED
    BY <1>1, <1>12, <1>13, <1>17, <1>19, <2>2
<1>18. CASE ~(l < LongForm /\ Shortest(R))
  <2>1. Ns = {}
    BY <1>15, <1>18
  <2>2. ParseInteger(c) = {}
    BY <1>16, <2>1
  <2>3. QED
    BY <1>1, <1>18, <1>19, <2>2
<1>20. QED
  BY <1>17, <1>18

\* Two integers in a sequence are read if it is as long as it says, each has
\* its shortest form, and nothing is left over.
LEMMA ParseDerOf ==
    ASSUME NEW R \in Seq(Nat), NEW S \in Seq(Nat), NEW rest \in Seq(Nat),
           Len(R) >= 1, Len(S) >= 1, NEW len \in Nat
    PROVE  ParseDer(<<TagSequence, len>> \o <<TagInteger, Len(R)>> \o R
                        \o <<TagInteger, Len(S)>> \o S \o rest)
             = IF /\ len = 4 + Len(R) + Len(S) /\ len < LongForm
                  /\ Shortest(R) /\ Shortest(S) /\ rest = << >>
               THEN {<<IntegerOf(R), IntegerOf(S)>>} ELSE {}
<1>1. PICK lr \in Nat, ls \in Nat, lt \in Nat :
          lr = Len(R) /\ ls = Len(S) /\ lt = Len(rest) /\ lr >= 1 /\ ls >= 1
  BY LenProperties
<1>2. PICK h : h = <<TagSequence, len>>
  OBVIOUS
<1>3. h \in Seq(Nat) /\ Len(h) = 2 /\ h[1] = TagSequence /\ h[2] = len
  BY <1>2, PairOf DEF TagSequence
<1>4. PICK a : a = <<TagInteger, lr>>
  OBVIOUS
<1>5. PICK t : t = <<TagInteger, ls>>
  OBVIOUS
<1>6. a \in Seq(Nat) /\ Len(a) = 2 /\ t \in Seq(Nat) /\ Len(t) = 2
  BY <1>4, <1>5, PairOf DEF TagInteger
<1>7. h \in Seq(Nat) /\ a \in Seq(Nat) /\ t \in Seq(Nat)
  BY <1>3, <1>6
<1>8. PICK u : u = t \o S
  OBVIOUS
<1>9. u \in Seq(Nat) /\ Len(u) = Len(t) + Len(S)
  BY <1>7, <1>8, ConcatOf
<1>10. u \in Seq(Nat)
  BY <1>9
<1>11. PICK v : v = u \o rest
  OBVIOUS
<1>12. v \in Seq(Nat) /\ Len(v) = Len(u) + Len(rest)
  BY <1>10, <1>11, ConcatOf
<1>13. v \in Seq(Nat)
  BY <1>12
<1>14. PICK p : p = a \o R
  OBVIOUS
<1>15. p \in Seq(Nat) /\ Len(p) = Len(a) + Len(R)
  BY <1>7, <1>14, ConcatOf
<1>16. p \in Seq(Nat)
  BY <1>15
<1>17. PICK w : w = p \o v
  OBVIOUS
<1>18. w \in Seq(Nat) /\ Len(w) = Len(p) + Len(v)
  BY <1>13, <1>16, <1>17, ConcatOf
<1>19. w \in Seq(Nat)
  BY <1>18
<1>20. PICK b : b = h \o w
  OBVIOUS
<1>35. b = ((((h \o a) \o R) \o t) \o S) \o rest
  <2>3. (h \o a) \o R = h \o p
    BY <1>7, <1>14, Associates, Zenon
  <2>4. PICK q : q = h \o p
    OBVIOUS
  <2>5. q \in Seq(Nat)
    BY <1>7, <1>16, <2>4, ConcatOf
  <2>6. (q \o t) \o S = q \o u
    BY <1>7, <1>8, <2>5, Associates, Zenon
  <2>7. (q \o u) \o rest = q \o v
    BY <1>10, <1>11, <2>5, Associates, Zenon
  <2>8. q \o v = h \o w
    <3>1. (h \o p) \o v = h \o (p \o v)
      <4>1. \A y, z \in Seq(Nat) : (h \o y) \o z = h \o (y \o z)
        BY <1>7, Associates, Zenon
      <4>2. QED
        BY <1>13, <1>16, <4>1, Zenon
    <3>2. QED
      BY <1>17, <2>4, <3>1, Zenon
  <2>9. QED
    BY <1>20, <2>3, <2>4, <2>6, <2>7, <2>8, Zenon
<1>21. /\ b \in Seq(Nat) /\ Len(b) = Len(h) + Len(w)
       /\ \A i \in 1 .. Len(h) : b[i] = h[i]
  BY <1>7, <1>19, <1>20, ConcatOf
<1>22. Len(b) = 6 + lr + ls + lt
  BY <1>1, <1>3, <1>6, <1>9, <1>12, <1>15, <1>18, <1>21
<1>23. Len(b) >= 2 /\ b[1] = TagSequence /\ b[2] = len
  <2>1. 1 \in 1 .. Len(h) /\ 2 \in 1 .. Len(h)
    BY <1>3
  <2>2. QED
    BY <1>1, <1>3, <1>21, <1>22, <2>1
<1>24. SubSeq(b, 3, Len(b)) = w
  <2>1. SubSeq(h \o w, Len(h) + 1, Len(h \o w)) = w
    BY <1>7, <1>19, SecondHalf
  <2>2. Len(h) + 1 = 3
    BY <1>3
  <2>3. QED
    BY <1>20, <2>1, <2>2
<1>25. ParseInteger(w) = IF lr < LongForm /\ Shortest(R) THEN {<<IntegerOf(R), v>>} ELSE {}
  <2>1. w = <<TagInteger, Len(R)>> \o R \o v /\ Len(R) >= 1
    BY <1>1, <1>4, <1>14, <1>17
  <2>2. QED
    BY <1>1, <1>13, <2>1, ParseIntegerOf
<1>26. ParseInteger(v) = IF ls < LongForm /\ Shortest(S) THEN {<<IntegerOf(S), rest>>} ELSE {}
  <2>1. v = <<TagInteger, Len(S)>> \o S \o rest /\ Len(S) >= 1
    BY <1>1, <1>5, <1>8, <1>11
  <2>2. QED
    BY <1>1, <2>1, ParseIntegerOf
<1>27. LongForm \in Nat
  BY ByteSizes
<1> DEFINE Body == IF /\ Len(b) >= 2 /\ b[1] = TagSequence
                      /\ b[2] = Len(b) - 2 /\ b[2] < LongForm
                   THEN ParseInteger(SubSeq(b, 3, Len(b))) ELSE {}
           Both(r) == {<<r[1], s[1]>> : s \in {s \in ParseInteger(r[2]) : s[2] = << >>}}
<1>28. ParseDer(b) = UNION {Both(r) : r \in Body}
  BY DEF ParseDer
<1>29. Body = IF /\ len = 4 + lr + ls + lt /\ len < LongForm /\ Shortest(R)
              THEN {<<IntegerOf(R), v>>} ELSE {}
  <2>1. Body = IF len = Len(b) - 2 /\ len < LongForm THEN ParseInteger(w) ELSE {}
    BY <1>23, <1>24
  <2>2. Len(b) - 2 = 4 + lr + ls + lt
    BY <1>22
  <2>3. len = 4 + lr + ls + lt /\ len < LongForm => lr < LongForm
    BY <1>27
  <2> HIDE DEF Body
  <2>4. QED
    BY <1>25, <2>1, <2>2, <2>3
<1>30. Both(<<IntegerOf(R), v>>)
         = IF ls < LongForm /\ Shortest(S) /\ rest = << >>
           THEN {<<IntegerOf(R), IntegerOf(S)>>} ELSE {}
  <2>1. PICK i : i = IntegerOf(R)
    OBVIOUS
  <2>2. PICK j : j = IntegerOf(S)
    OBVIOUS
  <2>3. Both(<<i, v>>) = {<<i, s[1]>> : s \in {s \in ParseInteger(v) : s[2] = << >>}}
    OBVIOUS
  <2>4. CASE ls < LongForm /\ Shortest(S)
    <3>1. ParseInteger(v) = {<<j, rest>>}
      BY <1>26, <2>2, <2>4
    <3>2. <<j, rest>>[1] = j /\ <<j, rest>>[2] = rest
      OBVIOUS
    <3>3. CASE rest = << >>
      <4>1. {s \in ParseInteger(v) : s[2] = << >>} = {<<j, rest>>}
        BY <3>1, <3>2, <3>3
      <4>2. Both(<<i, v>>) = {<<i, <<j, rest>>[1]>>}
        BY <2>3, <4>1, Zenon
      <4>3. QED
        BY <2>1, <2>2, <2>4, <3>2, <3>3, <4>2
    <3>4. CASE rest # << >>
      <4>1. {s \in ParseInteger(v) : s[2] = << >>} = {}
        BY <3>1, <3>2, <3>4
      <4>2. Both(<<i, v>>) = {}
        BY <2>3, <4>1
      <4>3. QED
        BY <2>1, <3>4, <4>2
    <3>5. QED
      BY <3>3, <3>4
  <2>5. CASE ~(ls < LongForm /\ Shortest(S))
    <3>1. ParseInteger(v) = {}
      BY <1>26, <2>5
    <3>2. Both(<<i, v>>) = {}
      BY <2>3, <3>1
    <3>3. QED
      BY <2>1, <2>5, <3>2
  <2>6. QED
    BY <2>4, <2>5
<1>31. rest = << >> <=> lt = 0
  BY <1>1, EmptySeq
<1> HIDE DEF Body, Both
<1>34. b = <<TagSequence, len>> \o <<TagInteger, Len(R)>> \o R
               \o <<TagInteger, Len(S)>> \o S \o rest
  BY <1>1, <1>2, <1>4, <1>5, <1>35
<1>32. CASE len = 4 + lr + ls + lt /\ len < LongForm /\ Shortest(R)
  <2>1. Body = {<<IntegerOf(R), v>>}
    BY <1>29, <1>32
  <2>2. ParseDer(b) = Both(<<IntegerOf(R), v>>)
    BY <1>28, <2>1
  <2>3. ls < LongForm
    BY <1>27, <1>32
  <2>4. CASE Shortest(S) /\ rest = << >>
    <3>1. ParseDer(b) = {<<IntegerOf(R), IntegerOf(S)>>}
      BY <1>30, <2>2, <2>3, <2>4
    <3>2. len = 4 + Len(R) + Len(S)
      BY <1>1, <1>31, <1>32, <2>4
    <3>3. QED
      BY <1>32, <1>34, <2>4, <3>1, <3>2
  <2>5. CASE ~(Shortest(S) /\ rest = << >>)
    <3>1. ParseDer(b) = {}
      BY <1>30, <2>2, <2>5
    <3>2. QED
      BY <1>34, <2>5, <3>1
  <2>6. QED
    BY <2>4, <2>5
<1>33. CASE ~(len = 4 + lr + ls + lt /\ len < LongForm /\ Shortest(R))
  <2>1. Body = {}
    BY <1>29, <1>33
  <2>2. ParseDer(b) = {}
    BY <1>28, <2>1
  <2>3. rest = << >> => 4 + lr + ls + lt = 4 + Len(R) + Len(S)
    BY <1>1, <1>31
  <2>4. ~(/\ len = 4 + Len(R) + Len(S) /\ len < LongForm
          /\ Shortest(R) /\ Shortest(S) /\ rest = << >>)
    BY <1>33, <2>3
  <2>5. QED
    BY <1>34, <2>2, <2>4
<1>36. QED
  BY <1>32, <1>33

LEMMA StringFits == \A v \in Strings : v \in Nat /\ v < Byte ^ Bytes
<1>1. Bytes \in 0 .. Bytes + 1
  BY ByteSizes
<1>2. Byte ^ Bytes \in Nat
  BY <1>1, Power
<1>3. QED
  BY <1>2, StringsAssumption

LEMMA ZerosOf ==
    ASSUME NEW k \in 0 .. 2
    PROVE  /\ Zeros(k) \in Seq(Nat) /\ Len(Zeros(k)) = k
           /\ \A j \in 1 .. k : Zeros(k)[j] = 0
<1>1. k \in Nat /\ Zeros(k) \in [1 .. k -> Nat]
  BY DEF Zeros
<1>2. Zeros(k) \in Seq(Nat) /\ Len(Zeros(k)) = k
  BY <1>1, IsASeq, LenProperties
<1>3. QED
  BY <1>2 DEF Zeros

\* The bytes of a string's number, both ways, and what a parser makes of
\* them: the number, if it is a scalar that it does not take for negative.
LEMMA WaysToWrite ==
    ASSUME NEW v \in Strings
    PROVE  /\ SerializeInteger(v) \in Seq(Nat)
           /\ Len(SerializeInteger(v)) \in 1 .. Bytes + 1
           /\ ~TopBit(SerializeInteger(v)[1]) /\ Shortest(SerializeInteger(v))
           /\ IntegerOf(SerializeInteger(v)) = IF Overflow(v) THEN 0 ELSE v
           /\ GetB32(v) \in Seq(Nat) /\ Len(GetB32(v)) = Bytes
           /\ IntegerOf(GetB32(v)) = IF TopBit(GetB32(v)[1]) \/ Overflow(v) THEN 0 ELSE v
           /\ ~TopBit(GetB32(v)[1]) /\ Shortest(GetB32(v))
                    => SerializeInteger(v) = GetB32(v)
<1>1. v \in Nat /\ v < Byte ^ Bytes /\ Byte ^ Bytes \in Nat
  <2>1. Bytes \in 0 .. Bytes + 1
    BY ByteSizes
  <2>2. QED
    BY <2>1, Power, StringFits
<1>2. PICK len \in 1 .. Bytes + 1 :
              /\ SerializeInteger(v) = Written(v, len) /\ v < Byte ^ len
              /\ ~TopBit(SerializeInteger(v)[1]) /\ Shortest(SerializeInteger(v))
              /\ ~TopBit(GetB32(v)[1]) /\ Shortest(GetB32(v))
                    => SerializeInteger(v) = GetB32(v)
  BY <1>1, SerializedIs
<1>3. len \in 0 .. Bytes + 1 /\ Bytes \in 0 .. Bytes + 1
  BY ByteSizes
<1>4. /\ SerializeInteger(v) \in Seq(Nat) /\ Len(SerializeInteger(v)) = len
      /\ Value(SerializeInteger(v)) = v
  BY <1>1, <1>2, <1>3, WrittenIs, ValueIs
<1>5. GetB32(v) = Written(v, Bytes)
  BY DEF GetB32, Written
<1>6. GetB32(v) \in Seq(Nat) /\ Len(GetB32(v)) = Bytes /\ Value(GetB32(v)) = v
  BY <1>1, <1>3, <1>5, WrittenIs, ValueIs
<1>7. ~(v >= Byte ^ Bytes)
  BY <1>1
<1>8. IntegerOf(SerializeInteger(v)) = IF Overflow(v) THEN 0 ELSE v
  BY <1>2, <1>4, <1>7, Zenon DEF IntegerOf
<1>9. IntegerOf(GetB32(v)) = IF TopBit(GetB32(v)[1]) \/ Overflow(v) THEN 0 ELSE v
  BY <1>6, <1>7, Zenon DEF IntegerOf
<1>10. QED
  BY <1>2, <1>4, <1>6, <1>8, <1>9

\* A scalar is one of its own respellings, and the only one of them that is
\* as short as it can be and is not read as zero.
LEMMA Serialized ==
    ASSUME NEW n \in Scalars
    PROVE  /\ SerializeInteger(n) \in Respellings(n)
           /\ SerializeInteger(n) \in Seq(Nat) /\ Len(SerializeInteger(n)) \in 1 .. Bytes + 1
           /\ Shortest(SerializeInteger(n)) /\ IntegerOf(SerializeInteger(n)) = n
<1>1. n \in Strings /\ ~Overflow(n)
  BY ScalarSet, StringSet DEF Overflow
<1>2. /\ SerializeInteger(n) \in Seq(Nat) /\ Len(SerializeInteger(n)) \in 1 .. Bytes + 1
      /\ Shortest(SerializeInteger(n)) /\ IntegerOf(SerializeInteger(n)) = n
  BY <1>1, WaysToWrite
<1>3. SerializeInteger(n) \in Respellings(n)
  <2>1. PICK w : w = SerializeInteger(n)
    OBVIOUS
  <2>2. w \in Seq(Nat)
    BY <1>2, <2>1
  <2>3. << >> \o w = w
    BY <2>2, ConcatEmptySeq
  <2>4. Zeros(0) = << >>
    BY DEF Zeros
  <2>5. w = Zeros(0) \o SerializeInteger(n)
    BY <2>1, <2>3, <2>4
  <2>6. 0 \in 0 .. 2 /\ n \in {n, n + N} \cap Strings
    BY <1>1
  <2>7. w \in {Zeros(k) \o SerializeInteger(n) : k \in 0 .. 2}
    BY <2>5, <2>6, Zenon
  <2>8. QED
    BY <2>1, <2>6, <2>7, Zenon DEF Respellings
<1>4. QED
  BY <1>2, <1>3

LEMMA Respelled ==
    ASSUME NEW n \in Scalars, NEW R \in Respellings(n)
    PROVE  /\ R \in Seq(Nat) /\ Len(R) >= 1
           /\ Shortest(R) /\ IntegerOf(R) # 0
                => R = SerializeInteger(n) /\ IntegerOf(R) = n
<1>1. \/ \E v \in {n, n + N} \cap Strings :
             \E k \in 0 .. 2 : R = Zeros(k) \o SerializeInteger(v)
      \/ \E v \in {n, n + N} \cap Strings : R = GetB32(v)
  <2> DEFINE V == {n, n + N} \cap Strings
             Padded(v) == {Zeros(k) \o SerializeInteger(v) : k \in 0 .. 2}
             U == UNION {Padded(v) : v \in V}
             W == {GetB32(v) : v \in V}
  <2>1. Respellings(n) = U \cup W
    BY DEF Respellings
  <2>2. \A v \in V : R \in Padded(v) => \E k \in 0 .. 2 : R = Zeros(k) \o SerializeInteger(v)
    OBVIOUS
  <2> HIDE DEF V, Padded
  <2>3. (R \in U => \E v \in V : R \in Padded(v)) /\ (R \in W => \E v \in V : R = GetB32(v))
    BY Zenon
  <2> HIDE DEF U, W
  <2>6. R \in Respellings(n)
    OBVIOUS
  <2>7. R \in U \/ R \in W
    BY <2>1, <2>6
  <2>4. \/ \E v \in V : \E k \in 0 .. 2 : R = Zeros(k) \o SerializeInteger(v)
        \/ \E v \in V : R = GetB32(v)
    BY <2>2, <2>3, <2>7
  <2>5. QED
    BY <2>4 DEF V
<1>2. Bytes \in Nat /\ Bytes >= 1
  BY ByteSizes
<1>3. ASSUME NEW v \in {n, n + N} \cap Strings
      PROVE  v \in Strings /\ (v = n \/ Overflow(v))
  <2>1. v = n + N => Overflow(v)
    BY ScalarSet DEF Overflow
  <2>2. QED
    BY <2>1
<1>4. ASSUME NEW v \in {n, n + N} \cap Strings, NEW k \in 0 .. 2,
             R = Zeros(k) \o SerializeInteger(v)
      PROVE  /\ R \in Seq(Nat) /\ Len(R) >= 1
             /\ Shortest(R) /\ IntegerOf(R) # 0
                    => R = SerializeInteger(n) /\ IntegerOf(R) = n
  <2>1. v \in Strings /\ (v = n \/ Overflow(v))
    BY <1>3
  <2>2. PICK w : w = SerializeInteger(v)
    OBVIOUS
  <2>3. /\ w \in Seq(Nat) /\ Len(w) \in 1 .. Bytes + 1 /\ ~TopBit(w[1])
        /\ IntegerOf(w) = IF Overflow(v) THEN 0 ELSE v
    BY <2>1, <2>2, WaysToWrite
  <2>4. PICK z : z = Zeros(k)
    OBVIOUS
  <2>5. z \in Seq(Nat) /\ Len(z) = k /\ \A j \in 1 .. k : z[j] = 0
    BY <2>4, ZerosOf
  <2>6. z \in Seq(Nat) /\ w \in Seq(Nat)
    BY <2>3, <2>5
  <2>7. PICK c : c = z \o w
    OBVIOUS
  <2>8. /\ c \in Seq(Nat) /\ Len(c) = Len(z) + Len(w)
        /\ \A i \in 1 .. Len(z) : c[i] = z[i]
        /\ \A i \in 1 .. Len(w) : c[Len(z) + i] = w[i]
    BY <2>6, <2>7, ConcatOf
  <2>9. R = c
    BY <1>4, <2>2, <2>4, <2>7
  <2>10. Len(c) >= 1
    BY <1>2, <2>3, <2>5, <2>8
  <2>11. CASE k = 0
    <3>1. z = << >>
      BY <2>6, <2>5, <2>11, EmptySeq
    <3>2. << >> \o w = w
      BY <2>6, ConcatEmptySeq
    <3>3. c = w
      BY <2>7, <3>1, <3>2
    <3>4. IntegerOf(w) # 0 => v = n /\ IntegerOf(w) = v
      BY <2>1, <2>3, Zenon
    <3>5. QED
      BY <2>2, <2>6, <2>9, <2>10, <3>3, <3>4, Zenon
  <2>12. CASE k # 0
    <3>1. /\ 1 \in 1 .. Len(z) /\ 1 \in 1 .. k /\ 1 \in 1 .. Len(w) /\ Len(c) > 1
          /\ (k = 1 => Len(z) + 1 = 2) /\ (k # 1 => 2 \in 1 .. Len(z) /\ 2 \in 1 .. k)
      BY <1>2, <2>3, <2>5, <2>8, <2>12
    <3>2. c[1] = 0
      BY <2>5, <2>8, <3>1
    <3>3. c[2] = 0 \/ c[2] = w[1]
      BY <2>5, <2>8, <3>1
    <3>4. ~TopBit(0)
      BY ByteSizes, SMT DEF TopBit
    <3>5. ~TopBit(c[2])
      BY <2>3, <3>3, <3>4
    <3>6. ~Shortest(c)
      BY <3>1, <3>2, <3>5 DEF Shortest
    <3>7. QED
      BY <2>8, <2>9, <2>10, <3>6
  <2>13. QED
    BY <2>11, <2>12
<1>5. ASSUME NEW v \in {n, n + N} \cap Strings, R = GetB32(v)
      PROVE  /\ R \in Seq(Nat) /\ Len(R) >= 1
             /\ Shortest(R) /\ IntegerOf(R) # 0
                    => R = SerializeInteger(n) /\ IntegerOf(R) = n
  <2>1. v \in Strings /\ (v = n \/ Overflow(v))
    BY <1>3
  <2>2. /\ R \in Seq(Nat) /\ Len(R) = Bytes
        /\ IntegerOf(R) = IF TopBit(R[1]) \/ Overflow(v) THEN 0 ELSE v
        /\ ~TopBit(R[1]) /\ Shortest(R) => SerializeInteger(v) = R
    BY <1>5, <2>1, WaysToWrite
  <2>3. Len(R) >= 1
    BY <1>2, <2>2
  <2>4. IntegerOf(R) # 0 => v = n /\ IntegerOf(R) = v /\ ~TopBit(R[1])
    BY <2>1, <2>2, Zenon
  <2>5. QED
    BY <2>2, <2>3, <2>4, Zenon
<1>6. QED
  BY <1>1, <1>4, <1>5, Zenon

---------------------------------------------------------------------------
LEMMA LongerFits ==
    ASSUME NEW a \in Seq(Nat), NEW b \in Seq(Nat), NEW c \in Seq(Nat),
           NEW d \in Seq(Nat), NEW e \in Seq(Nat)
    PROVE  a \o b \o c \o d \o e \in Seq(Nat)
<1>1. PICK x : x = a \o b
  OBVIOUS
<1>2. x \in Seq(Nat)
  BY <1>1
<1>3. PICK y : y = x \o c
  OBVIOUS
<1>4. y \in Seq(Nat)
  BY <1>2, <1>3
<1>5. PICK z : z = y \o d
  OBVIOUS
<1>6. z \in Seq(Nat)
  BY <1>4, <1>5
<1>7. z \o e \in Seq(Nat)
  BY <1>6
<1>8. QED
  BY <1>1, <1>3, <1>5, <1>7

\* What parses, of all that a signature could be spelled as, into a pair that
\* may verify is what was serialized.
LEMMA OnlyReading ==
    ASSUME NEW r \in Scalars, NEW s \in Scalars, s # 0, ~IsHigh(s),
           NEW b \in SigSpellings(r, s), NEW read \in ParseDer(b),
           read[1] # 0, read[2] # 0, ~IsHigh(read[2])
    PROVE  b = SerializeDer(r, s)
<1>1. PICK R \in Respellings(r), S \in Respellings(s) \cup Respellings(Negate(s)),
           extra \in {0, 1}, rest \in {<< >>, <<0>>} : b = SigSpelling(R, S, extra, rest)
  BY DEF SigSpellings
<1>2. Negate(s) \in Scalars /\ IsHigh(Negate(s))
  BY LowerHalf
<1>3. /\ R \in Seq(Nat) /\ Len(R) >= 1
      /\ Shortest(R) /\ IntegerOf(R) # 0 => R = SerializeInteger(r) /\ IntegerOf(R) = r
  BY Respelled
<1>4. /\ S \in Seq(Nat) /\ Len(S) >= 1
      /\ Shortest(S) /\ IntegerOf(S) # 0
            => S = SerializeInteger(s) \/ IntegerOf(S) = Negate(s)
  <2>1. CASE S \in Respellings(s)
    BY <2>1, Respelled
  <2>2. CASE S \in Respellings(Negate(s))
    BY <1>2, <2>2, Respelled
  <2>3. QED
    BY <2>1, <2>2
<1>5. rest \in Seq(Nat)
  <2>1. << >> \in Seq(Nat)
    OBVIOUS
  <2>2. <<0>> \in Seq(Nat)
    OBVIOUS
  <2>3. QED
    BY <2>1, <2>2
<1>6. PICK lr \in Nat, ls \in Nat : lr = Len(R) /\ ls = Len(S)
  BY <1>3, <1>4, LenProperties
<1>7. PICK len \in Nat : len = 4 + lr + ls + extra
  OBVIOUS
<1>8. b = <<TagSequence, len>> \o <<TagInteger, Len(R)>> \o R
              \o <<TagInteger, Len(S)>> \o S \o rest
  BY <1>1, <1>6, <1>7, Zenon DEF SigSpelling
<1>9. ParseDer(b) = IF /\ len = 4 + Len(R) + Len(S) /\ len < LongForm
                       /\ Shortest(R) /\ Shortest(S) /\ rest = << >>
                    THEN {<<IntegerOf(R), IntegerOf(S)>>} ELSE {}
  BY <1>3, <1>4, <1>5, <1>8, ParseDerOf
<1>10. /\ len = 4 + lr + ls /\ Shortest(R) /\ Shortest(S) /\ rest = << >>
       /\ read = <<IntegerOf(R), IntegerOf(S)>>
  BY <1>6, <1>9
<1>11. R = SerializeInteger(r) /\ S = SerializeInteger(s)
  <2>1. read[1] = IntegerOf(R) /\ read[2] = IntegerOf(S)
    BY <1>10
  <2>2. QED
    BY <1>2, <1>3, <1>4, <1>10, <2>1, Zenon
<1>12. QED
  <2>1. SerializeDer(r, s) = <<TagSequence, len>> \o <<TagInteger, Len(R)>> \o R
                                 \o <<TagInteger, Len(S)>> \o S
    BY <1>6, <1>10, <1>11 DEF SerializeDer
  <2>2. PICK t : t = SerializeDer(r, s)
    OBVIOUS
  <2>3. t \in Seq(Nat)
    <3>1. <<TagSequence, len>> \in Seq(Nat)
      BY DEF TagSequence
    <3>2. <<TagInteger, lr>> \in Seq(Nat) /\ <<TagInteger, ls>> \in Seq(Nat)
      BY DEF TagInteger
    <3>3. PICK h, c, d : /\ h = <<TagSequence, len>> /\ c = <<TagInteger, lr>>
                         /\ d = <<TagInteger, ls>>
      OBVIOUS
    <3>4. h \in Seq(Nat) /\ c \in Seq(Nat) /\ d \in Seq(Nat) /\ R \in Seq(Nat) /\ S \in Seq(Nat)
      BY <1>3, <1>4, <3>1, <3>2, <3>3
    <3>5. t = h \o c \o R \o d \o S
      BY <1>6, <2>1, <2>2, <3>3
    <3>6. QED
      BY <3>4, <3>5, LongerFits
  <2>4. b = t \o << >>
    BY <1>8, <1>10, <2>1, <2>2, Zenon
  <2>5. t \o << >> = t
    BY <2>3, ConcatEmptySeq
  <2>6. QED
    BY <2>2, <2>4, <2>5

\* What was serialized is read as it was written.
LEMMA ReadBack ==
    ASSUME NEW r \in Scalars, NEW s \in Scalars
    PROVE  /\ SerializeDer(r, s) \in SigSpellings(r, s)
           /\ <<r, s>> \in ParseDer(SerializeDer(r, s))
<1>1. PICK R, S : R = SerializeInteger(r) /\ S = SerializeInteger(s)
  OBVIOUS
<1>2. /\ R \in Respellings(r) /\ R \in Seq(Nat) /\ Len(R) \in 1 .. Bytes + 1
      /\ Shortest(R) /\ IntegerOf(R) = r
  BY <1>1, Serialized
<1>3. /\ S \in Respellings(s) /\ S \in Seq(Nat) /\ Len(S) \in 1 .. Bytes + 1
      /\ Shortest(S) /\ IntegerOf(S) = s
  BY <1>1, Serialized
<1>4. PICK lr \in Nat, ls \in Nat : lr = Len(R) /\ ls = Len(S) /\ lr >= 1 /\ ls >= 1
  BY <1>2, <1>3, ByteSizes
<1>5. PICK len \in Nat : len = 4 + lr + ls
  OBVIOUS
<1>6. len < LongForm
  BY <1>2, <1>3, <1>4, <1>5, ByteSizes
<1>7. PICK t : t = SerializeDer(r, s)
  OBVIOUS
<1>8. t = <<TagSequence, len>> \o <<TagInteger, Len(R)>> \o R \o <<TagInteger, Len(S)>> \o S
  BY <1>1, <1>4, <1>5, <1>7 DEF SerializeDer
<1>9. t \in Seq(Nat)
  <2>1. <<TagSequence, len>> \in Seq(Nat)
    BY DEF TagSequence
  <2>2. <<TagInteger, lr>> \in Seq(Nat) /\ <<TagInteger, ls>> \in Seq(Nat)
    BY DEF TagInteger
  <2>3. PICK h, c, d : h = <<TagSequence, len>> /\ c = <<TagInteger, lr>> /\ d = <<TagInteger, ls>>
    OBVIOUS
  <2>4. h \in Seq(Nat) /\ c \in Seq(Nat) /\ d \in Seq(Nat) /\ R \in Seq(Nat) /\ S \in Seq(Nat)
    BY <1>2, <1>3, <2>1, <2>2, <2>3
  <2>5. t = h \o c \o R \o d \o S
    BY <1>4, <1>8, <2>3
  <2>6. QED
    BY <2>4, <2>5, LongerFits
<1>10. t \o << >> = t
  BY <1>9, ConcatEmptySeq
<1>11. t = <<TagSequence, len>> \o <<TagInteger, Len(R)>> \o R
               \o <<TagInteger, Len(S)>> \o S \o << >>
  BY <1>8, <1>10, Zenon
<1>12. t = SigSpelling(R, S, 0, << >>)
  <2>1. 4 + Len(R) + Len(S) + 0 = len
    BY <1>4, <1>5
  <2>2. QED
    BY <1>11, <2>1, Zenon DEF SigSpelling
<1>13. t \in SigSpellings(r, s)
  <2>1. 0 \in {0, 1} /\ << >> \in {<< >>, <<0>>} /\ S \in Respellings(s) \cup Respellings(Negate(s))
    BY <1>3
  <2>2. QED
    BY <1>2, <1>12, <2>1 DEF SigSpellings
<1>14. ParseDer(t) = {<<r, s>>}
  <2>1. << >> \in Seq(Nat)
    OBVIOUS
  <2>2. ParseDer(t) = IF /\ len = 4 + Len(R) + Len(S) /\ len < LongForm
                         /\ Shortest(R) /\ Shortest(S) /\ << >> = << >>
                      THEN {<<IntegerOf(R), IntegerOf(S)>>} ELSE {}
    BY <1>2, <1>3, <1>4, <1>11, <2>1, ParseDerOf
  <2>3. QED
    BY <1>2, <1>3, <1>4, <1>5, <1>6, <2>2
<1>15. QED
  BY <1>7, <1>13, <1>14

\* What sign returns is accepted by verify, and nothing else that the same
\* signature could be written as.
THEOREM OneFormTheorem == DerivedSpec => []OneForm
<1>1. ASSUME Inv, NEW f \in Kinds, Signed(f), out[f].sig.r # 0
      PROVE  /\ Normalize(Negate(out[f].sig.s)) = out[f].sig.s
             /\ \E Q \in PubkeyParse(pub) :
                   {x[1] : x \in {x \in Readings[<<out[f].sig.r, out[f].sig.s>>] :
                                     Verify(x[2][1], x[2][2], Q, Msg)}}
                       = {SerializeDer(out[f].sig.r, out[f].sig.s)}
  <2>1. PICK d \in Scalars \ {0}, k \in Scalars \ {0} :
              /\ PubkeyParse(pub) = {Times[d]} /\ Msg \in Scalars
              /\ SigSign(d, Msg, k).ok
              /\ out[f].sig.r = SigSign(d, Msg, k).r
              /\ out[f].sig.s = SigSign(d, Msg, k).s
              /\ out[f].sig.recid = SigSign(d, Msg, k).recid
    BY <1>1, Returned
  <2>2. PICK r, s, recid : r = out[f].sig.r /\ s = out[f].sig.s /\ recid = out[f].sig.recid
    OBVIOUS
  <2> DEFINE R == NoncePoint(r, s, d, Msg)
  <2>3. /\ r \in Scalars /\ s \in Scalars /\ s # 0 /\ ~IsHigh(s)
        /\ R # Infinity /\ R[1] = (IF recid >= 2 THEN r + N ELSE r)
        /\ recid >= 2 => r < P - N
    BY <2>1, <2>2, SignedPair
  <2>4. Verify(r, s, Times[d], Msg)
    <3>1. SigVerify(r, s, Times[d], Msg)
      BY <1>1, <2>1, <2>2, <2>3, VerifyPoint
    <3>2. QED
      BY <2>3, <3>1 DEF Verify
  <2>5. Normalize(Negate(s)) = s
    <3>1. Negate(s) = N - s /\ Negate(s) \in Scalars /\ Negate(s) # 0 /\ IsHigh(Negate(s))
      BY <2>3, LowerHalf
    <3>2. Negate(Negate(s)) = N - Negate(s)
      BY <3>1, LowerHalf
    <3>3. N - (N - s) = s
      BY <2>3, ScalarSet
    <3>4. QED
      BY <3>1, <3>2, <3>3 DEF Normalize
  <2> DEFINE Accepted == {x \in Readings[<<r, s>>] : Verify(x[2][1], x[2][2], Times[d], Msg)}
  <2>6. Readings[<<r, s>>] =
            UNION {{<<b, read>> : read \in ParseDer(b)} : b \in SigSpellings(r, s)}
    BY <2>3 DEF Readings
  <2>7. ASSUME NEW x \in Accepted PROVE x[1] = SerializeDer(r, s)
    <3>1. PICK b \in SigSpellings(r, s) : \E read \in ParseDer(b) : x = <<b, read>>
      BY <2>6
    <3>2. PICK read \in ParseDer(b) : x = <<b, read>>
      BY <3>1
    <3>3. Verify(read[1], read[2], Times[d], Msg)
      BY <3>2
    <3>4. read[1] # 0 /\ read[2] # 0 /\ ~IsHigh(read[2])
      BY <3>3 DEF Verify, SigVerify
    <3>5. b = SerializeDer(r, s)
      BY <2>3, <3>4, OnlyReading
    <3>6. QED
      BY <3>2, <3>5
  <2>8. \E x \in Accepted : x[1] = SerializeDer(r, s)
    <3>1. PICK b : b = SerializeDer(r, s) /\ b \in SigSpellings(r, s)
      BY <2>3, ReadBack
    <3>2. PICK read : read = <<r, s>>
      OBVIOUS
    <3>7. read \in ParseDer(b) /\ read[1] = r /\ read[2] = s
      BY <2>3, <3>1, <3>2, ReadBack
    <3>8. PICK x : x = <<b, read>>
      OBVIOUS
    <3>3. x[1] = b /\ x[2] = read
      BY <3>8
    <3>4. x \in Readings[<<r, s>>]
      <4> DEFINE Pairs(c) == {<<c, p>> : p \in ParseDer(c)}
      <4>1. x \in Pairs(b)
        BY <3>7, <3>8, Zenon
      <4>2. Readings[<<r, s>>] = UNION {Pairs(c) : c \in SigSpellings(r, s)}
        BY <2>6
      <4> HIDE DEF Pairs
      <4>3. QED
        BY <3>1, <4>1, <4>2
    <3>5. x \in Accepted
      BY <2>4, <3>3, <3>4, <3>7
    <3>6. QED
      BY <3>1, <3>3, <3>5
  <2> HIDE DEF Accepted
  <2>9. {x[1] : x \in Accepted} = {SerializeDer(r, s)}
    BY <2>7, <2>8
  <2>10. \E Q \in PubkeyParse(pub) :
            {x[1] : x \in {x \in Readings[<<r, s>>] : Verify(x[2][1], x[2][2], Q, Msg)}}
                = {SerializeDer(r, s)}
    BY <2>1, <2>9, Zenon DEF Accepted
  <2>11. QED
    BY <2>2, <2>5, <2>10, Zenon
<1>2. Inv => OneForm
  BY <1>1, Zenon DEF OneForm
<1>3. QED
  BY <1>2, Invariance, PTL

=============================================================================
