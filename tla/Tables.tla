------------------------------- MODULE Tables -------------------------------
(***************************************************************************)
(* The tables of multiples the multiplications look digits up in           *)
(* (ecmult_impl.h, ecmult_gen_impl.h) and their conversion to affine       *)
(* points, from ratios of z coordinates or with one batch inversion        *)
(* (group_impl.h, field_impl.h).  Sequences count from 1.                  *)
(***************************************************************************)
EXTENDS Jacobian, SequencesExt

TableSize(w) == 2^(w - 2)

\* ecmult_odd_multiples_table: a, 3a, 5a, ... for a finite a, added up on
\* the isomorphic curve on which d = 2a is affine.  Of the z coordinates
\* only the last is on the real one; zr[i] is the i-th over the one before.
OddMultiples(n, a) ==
    LET d == GejDouble(a)
        affine == Ge(d.x, d.y)
        first == GeSetGejZinv(a, d.z)
        Pre[i \in 1 .. n] ==
            IF i = 1 THEN Gej(first.x, first.y, a.z)
                     ELSE GejAddGeVar(Pre[i - 1], affine)
    IN  [prej |-> [i \in 1 .. n |->
                      IF i < n THEN Pre[i]
                      ELSE Gej(Pre[n].x, Pre[n].y, F(Pre[n].z * d.z))],
         zr |-> [i \in 1 .. n |->
                    IF i = 1 THEN d.z
                             ELSE AddRatio(Pre[i - 1], GejSetGe(affine))]]

\* The tables of several points, one after the other: each point is
\* rescaled to the last z before it.
AppendOddMultiples(t, n, a) ==
    IF t.prej = << >> THEN OddMultiples(n, a)
    ELSE LET next == OddMultiples(n, GejRescale(a, Last(t.prej).z)) IN
         [prej |-> t.prej \o next.prej,
          zr |-> t.zr \o [next.zr EXCEPT ![1] = F(@ * a.z)]]

\* Mutant: the second but last scale is multiplied by one ratio too many.
GlobalzOffByOne(t) ==
    LET len == Len(t.prej)
        Zs[i \in 1 .. len] ==
            IF i = len THEN t.zr[len] ELSE F(Zs[i + 1] * t.zr[i + 1])
    IN  [i \in 1 .. len |->
            IF i = len THEN Ge(t.prej[i].x, t.prej[i].y)
                       ELSE GeSetGejZinv(t.prej[i], Zs[i])]

\* ge_globalz_set_table_gej: all points on the z coordinate of the last.
Globalz(t) ==
    LET len == Len(t.prej)
        Zs[i \in 1 .. len] ==
            IF i >= len - 1 THEN t.zr[len] ELSE F(Zs[i + 1] * t.zr[i + 1])
    IN  [i \in 1 .. len |->
            IF i = len THEN Ge(t.prej[i].x, t.prej[i].y)
                       ELSE GeSetGejZinv(t.prej[i], Zs[i])]

\* ge_set_table_gej_var: all points affine, with one inversion.
SetTable(t) ==
    LET len == Len(t.prej)
        Zi[i \in 1 .. len] ==
            IF i = len THEN FieldInverse[t.prej[i].z]
                       ELSE F(Zi[i + 1] * t.zr[i + 1])
    IN  [i \in 1 .. len |-> GeSetGejZinv(t.prej[i], Zi[i])]

\* fe_inv_all_var: products from the left, one inversion, back to the left.
InvAll(zs) ==
    IF zs = << >> THEN << >> ELSE
    LET len == Len(zs)
        Left[i \in 1 .. len] ==
            IF i = 1 THEN zs[1] ELSE F(Left[i - 1] * zs[i])
        \* the inverse of Left[i]
        Inv[i \in 1 .. len] ==
            IF i = len THEN FieldInverse[Left[len]]
                       ELSE F(Inv[i + 1] * zs[i + 1])
    IN  [i \in 1 .. len |-> IF i = 1 THEN Inv[1] ELSE F(Left[i - 1] * Inv[i])]

\* Mutant: the inverses are taken of all z coordinates.
SetAllNoSkip(as) ==
    LET zi == InvAll([i \in DOMAIN as |-> as[i].z])
    IN  [i \in DOMAIN as |->
            IF as[i].infinity THEN [x |-> 0, y |-> 0, infinity |-> TRUE]
            ELSE GeSetGejZinv(as[i], zi[i])]

\* ge_set_all_gej_var: any points, those at infinity are passed over.
SetAll(as) ==
    LET \* the z coordinates collected from the first i points
        az[i \in 0 .. Len(as)] ==
            IF i = 0 THEN << >>
            ELSE IF as[i].infinity THEN az[i - 1]
            ELSE Append(az[i - 1], as[i].z)
        azi == InvAll(az[Len(as)])
    IN  [i \in DOMAIN as |->
            IF as[i].infinity THEN [x |-> 0, y |-> 0, infinity |-> TRUE]
            ELSE GeSetGejZinv(as[i], azi[Len(az[i])])]

\* ECMULT_TABLE_GET_GE and its variants.
TableGet(table, n) ==
    IF n > 0 THEN table[(n - 1) \div 2 + 1]
             ELSE GeNeg(table[(-n - 1) \div 2 + 1])

---------------------------------------------------------------------------
(* ecmult_gen's table: prec[j][i] = i * 2^(w*j) * G + U[j], where the U[j] *)
(* are multiples of one point and add up to nothing.                       *)

\* 2^k * a
DoubleTimes(a, k) ==
    LET D[i \in 0 .. k] == IF i = 0 THEN a ELSE GejDouble(D[i - 1])
    IN  D[k]

\* Mutant: the last U is doubled like the others.
NumsBaseDoubled(nums, count) ==
    [j \in 1 .. count |-> DoubleTimes(nums, j - 1)]

\* numsbase in every iteration j.
NumsBase(nums, count) ==
    [j \in 1 .. count |->
        IF j < count THEN DoubleTimes(nums, j - 1)
        ELSE GejAddVar(GejNeg(DoubleTimes(nums, j - 1)), nums)]

\* The table of ecmult_gen_context_build: windows of w bits.
GenTable(nums, w, count) ==
    LET gbase(j) == DoubleTimes(GejSetGe(ToGe(G)), w * (j - 1))
        Row(j) ==
            LET Prec[i \in 0 .. 2^w - 1] ==
                    IF i = 0 THEN NumsBase(nums, count)[j]
                             ELSE GejAddVar(Prec[i - 1], gbase(j))
            IN  [i \in 1 .. 2^w |-> Prec[i - 1]]
        Flat == [k \in 1 .. count * 2^w |->
                    Row((k - 1) \div 2^w + 1)[((k - 1) % 2^w) + 1]]
        affine == SetAll(Flat)
    IN  [j \in 0 .. count - 1 |-> [i \in 0 .. 2^w - 1 |->
            affine[j * 2^w + i + 1]]]
=============================================================================
