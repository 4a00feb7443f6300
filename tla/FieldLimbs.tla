----------------------------- MODULE FieldLimbs ------------------------------
(***************************************************************************)
(* field_10x26_impl.h: numbers modulo the field prime in limbs that are    *)
(* narrower than the words that hold them, so that carries can wait.  The  *)
(* number of limbs and the widths are parameters.  A limb may exceed its   *)
(* width as far as the magnitude of the element allows; "normalized" and   *)
(* "magnitude" are the members that VERIFY builds keep.                    *)
(***************************************************************************)
EXTENDS Integers, Sequences, FiniteSetsExt, SequencesExt

CONSTANTS Limbs,        \* 10
          LimbBits,     \* 26
          Slack,        \* 4: by so much the top limb is narrower
          LimbWord,     \* 32: the width of the word of a limb
          DoubleWord,   \* 64: the width of the accumulators of a product
          StoreBits,    \* 32: the width of a word of storage
          R0, R1,       \* 977 and 64: 2^256 is R1 * 2^LimbBits + R0 modulo p
          MaxMagnitude  \* 8: the largest magnitude of a factor

Radix == 2^LimbBits
M == Radix - 1
Top == Limbs - 1
TopBits == LimbBits - Slack
FieldBits == Limbs * LimbBits - Slack
P == 2^FieldBits - R1 * Radix - R0

ASSUME FieldAssumption ==
    /\ Limbs \in Nat /\ Limbs > 3 /\ 0 < Slack /\ Slack < LimbBits
    /\ R0 * 2^Slack < Radix /\ R1 * 2^Slack < Radix /\ 0 < R0 /\ 0 < R1
    /\ FieldBits % StoreBits = 0

Mask(i) == IF i = Top THEN 2^TopBits - 1 ELSE M
PLimb(i) == (P \div Radix^i) % Radix
ToLimbs(x) == [i \in 0 .. Top |-> (x \div Radix^i) % Radix]
FieldValue(n) == MapThenSumSet(LAMBDA i : n[i] * Radix^i, DOMAIN n)

Elem(n, magnitude, normalized) ==
    [n |-> n, magnitude |-> magnitude, normalized |-> normalized]

\* The largest magnitude: what the words have room for.
Room == 2^(LimbWord - LimbBits - 1)

\* fe_verify: what magnitude and normalized promise of the limbs.
FeVerify(a) ==
    /\ a.magnitude \in 0 .. Room
    /\ \A i \in 0 .. Top :
          a.n[i] <= Mask(i) * IF a.normalized THEN 1 ELSE 2 * a.magnitude
    /\ a.normalized => a.magnitude <= 1 /\ FieldValue(a.n) < P

----------------------------------------------------------------------------
\* Adds x times 2^256 in its reduced form and carries up to the top limb, in
\* words.
AddExcess(t, x) ==
    LET s == [t EXCEPT ![0] = @ + x * R0, ![1] = @ + x * R1]
        Below[i \in 0 .. Top] ==
            (IF i = 0 THEN s[0] ELSE s[i] + (Below[i - 1] \div Radix))
            % 2^LimbWord
    IN  [i \in 0 .. Top |-> IF i = Top THEN Below[i] ELSE Below[i] % Radix]

\* The first pass of every normalization: the bits above the top limb go
\* back to the bottom, which leaves at most one more.
FirstPass(n) ==
    AddExcess([n EXCEPT ![Top] = @ % 2^TopBits], n[Top] \div 2^TopBits)

\* Mutant: the second pass is left out where there is no carry.
NormalizeOnlyCarry(a) ==
    LET t == FirstPass(a.n)
        u == AddExcess(t, t[Top] \div 2^TopBits)
    IN  [fe |-> Elem([u EXCEPT ![Top] = @ % 2^TopBits], 1, TRUE), ok |-> TRUE]

\* fe_normalize and fe_normalize_var; ok: the VERIFY_CHECKs on its carries.
Normalize(a) ==
    LET t == FirstPass(a.n)
        x == IF \/ t[Top] \div 2^TopBits = 1
                \/ /\ t[Top] = Mask(Top)
                   /\ \A i \in 2 .. Top - 1 : t[i] = M
                   /\ t[1] + R1 + ((t[0] + R0) \div Radix) > M
             THEN 1 ELSE 0
        u == AddExcess(t, x)
    IN  [fe |-> Elem([u EXCEPT ![Top] = @ % 2^TopBits], 1, TRUE),
         ok |-> t[Top] < 2^(TopBits + 1) /\ u[Top] \div 2^TopBits = x]

\* fe_normalize_weak
NormalizeWeak(a) ==
    LET t == FirstPass(a.n)
    IN  [fe |-> Elem(t, 1, a.normalized), ok |-> t[Top] < 2^(TopBits + 1)]

\* fe_normalizes_to_zero: the value is 0 or the prime.
NormalizesToZero(n) ==
    LET t == FirstPass(n)
    IN  (\A i \in 0 .. Top : t[i] = 0) \/ (\A i \in 0 .. Top : t[i] = PLimb(i))

\* fe_normalizes_to_zero_var: most values are told by their lowest limb.
NormalizesToZeroVar(n) ==
    LET low == (n[0] + (n[Top] \div 2^TopBits) * R0) % Radix
    IN  low \in {0, PLimb(0)} /\ NormalizesToZero(n)

\* fe_set_int, fe_clear, fe_is_zero, fe_is_odd and fe_cmp_var.
SetInt(v) == Elem(ToLimbs(v), 1, TRUE)
FeClear == Elem(ToLimbs(0), 0, TRUE)
FeIsZero(a) == \A i \in 0 .. Top : a.n[i] = 0
FeIsOdd(a) == a.n[0] % 2 = 1
FeCmpVar(a, b) ==
    IF a.n = b.n THEN 0
    ELSE LET i == Max({j \in 0 .. Top : a.n[j] # b.n[j]})
         IN  IF a.n[i] > b.n[i] THEN 1 ELSE -1

\* fe_add: limb by limb, the magnitude with them.
FeAdd(a, b) ==
    Elem([i \in 0 .. Top |-> (a.n[i] + b.n[i]) % 2^LimbWord],
         a.magnitude + b.magnitude, FALSE)

\* fe_mul_int
FeMulInt(a, k) ==
    Elem([i \in 0 .. Top |-> (a.n[i] * k) % 2^LimbWord], a.magnitude * k, FALSE)

\* fe_negate: from a multiple of the prime with room for magnitude m.
FeNegate(a, m) ==
    Elem([i \in 0 .. Top |-> (PLimb(i) * 2 * (m + 1) - a.n[i]) % 2^LimbWord],
         m + 1, FALSE)

\* fe_equal and fe_equal_var
FeEqual(a, b) == NormalizesToZero(FeAdd(FeNegate(a, 1), b).n)
FeEqualVar(a, b) == NormalizesToZeroVar(FeAdd(FeNegate(a, 1), b).n)

----------------------------------------------------------------------------
\* The sums of the products a[i] * b[k - i] with i in the given range.
Between(lo, hi) == [j \in 1 .. hi - lo + 1 |-> lo + j - 1]
ColumnOf(a, b, k) ==
    FoldLeft(LAMBDA sum, i : sum + a[i] * b[k - i], 0,
             Between(Max({0, k - Top}), Min({k, Top})))

\* The same of a square, in which a limb is doubled before it is multiplied.
SquareColumn(a, k) ==
    FoldLeft(LAMBDA sum, i : sum + ((a[i] * 2) % 2^LimbWord) * a[k - i],
             IF k % 2 = 0 THEN a[k \div 2] * a[k \div 2] ELSE 0,
             Between(Max({0, k - Top}), (k - 1) \div 2))

\* One round for a pair of columns, low in c and high in d: the limb u that d
\* leaves moves from 2^256 to the bottom, in two parts.
Round(r, low, high) ==
    LET d  == r.d + high
        u  == d % Radix
        c  == r.c + low + u * R0 * 2^Slack
        c1 == (c \div Radix) + u * R1 * 2^Slack
    IN  [r EXCEPT !.c = c1 % 2^DoubleWord, !.d = (d % 2^DoubleWord) \div Radix,
                  !.t = Append(@, c % Radix),
                  !.ok = @ /\ d < 2^DoubleWord /\ c < 2^DoubleWord]

\* fe_mul_inner and fe_sqr_inner, for the columns of a product or a square:
\* the top column first, then all others in pairs, then the last excess,
\* which may leave the third limb one bit too long.
Inner(Column(_)) ==
    LET Begin(start) ==
            [c |-> 0, d |-> start \div Radix, t |-> << >>,
             ok |-> start < 2^DoubleWord, top |-> start % Radix]
        Rounds(first) ==
            FoldLeft(LAMBDA r, k : Round(r, Column(k), Column(Limbs + k)), first,
                     Between(0, Top - 1))
        Excess(r) ==
            LET c0 == r.c + r.d * R0 * 2^Slack + r.top
            IN  [c   |-> (c0 \div 2^TopBits) + r.d * R1 * 2^(2 * Slack),
                 top |-> c0 % 2^TopBits, t |-> r.t, ok |-> r.ok]
        Bottom(r) ==
            LET d0 == r.c * R0 + r.t[1]
                d1 == (d0 \div Radix) + r.c * R1 + r.t[2]
                d2 == (d1 \div Radix) + r.t[3]
            IN  [n  |-> [i \in 0 .. Top |->
                            CASE i = 0 -> d0 % Radix
                              [] i = 1 -> d1 % Radix
                              [] i = 2 -> d2
                              [] i = Top -> r.top
                              [] OTHER -> r.t[i + 1]],
                 ok |-> r.ok /\ d2 < 2 * Radix /\ d1 \div Radix <= Radix]
    IN  Bottom(Excess(Rounds(Begin(Column(Top)))))

\* fe_mul and fe_sqr
FeMul(a, b) ==
    LET r == Inner(LAMBDA k : ColumnOf(a.n, b.n, k))
    IN  [fe |-> Elem(r.n, 1, FALSE), ok |-> r.ok]
FeSqr(a) ==
    LET r == Inner(LAMBDA k : SquareColumn(a.n, k))
    IN  [fe |-> Elem(r.n, 1, FALSE), ok |-> r.ok]

\* fe_cmov
FeCmov(r, a, flag) ==
    Elem(IF flag THEN a.n ELSE r.n,
         Max({r.magnitude, a.magnitude}), r.normalized /\ a.normalized)

----------------------------------------------------------------------------
\* Other layouts of the same bits.  Bit k of the value, and words of w bits.
BitOf(n, w, k) == (n[k \div w] \div 2^(k % w)) % 2
Relayout(n, w, v, count) ==
    [i \in 0 .. count - 1 |->
        MapThenSumSet(LAMBDA j : IF i * v + j < FieldBits
                                 THEN BitOf(n, w, i * v + j) * 2^j ELSE 0,
                      0 .. v - 1)]

\* fe_to_storage and fe_from_storage
ToStorage(a) == Relayout(a.n, LimbBits, StoreBits, FieldBits \div StoreBits)
FromStorage(words) == Elem(Relayout(words, StoreBits, LimbBits, Limbs), 1, TRUE)

\* fe_get_b32 and fe_set_b32, with strings of bits for the strings of bytes;
\* strings that stand for no field element are refused.
FeGetB32(a) == [k \in 1 .. FieldBits |-> BitOf(a.n, LimbBits, FieldBits - k)]
FeSetB32(bits) ==
    LET n == Relayout([k \in 0 .. FieldBits - 1 |-> bits[FieldBits - k]], 1,
                      LimbBits, Limbs)
    IN  [fe |-> Elem(n, 1, TRUE),
         ok |-> ~ (/\ n[Top] = Mask(Top)
                   /\ \A i \in 2 .. Top - 1 : n[i] = M
                   /\ n[1] + R1 + ((n[0] + R0) \div Radix) > M)]

==============================================================================
