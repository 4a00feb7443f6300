------------------------------ MODULE Recoding ------------------------------
(***************************************************************************)
(* The three signed-digit forms of a scalar that the multiplications use:  *)
(* ecmult_wnaf and wnaf_fixed (ecmult_impl.h) and wnaf_const               *)
(* (ecmult_const_impl.h).  Positions count from 0.                         *)
(***************************************************************************)
EXTENDS Curve, Sequences

CONSTANT Bits       \* the width of a scalar, 256 in the code

ASSUME BitsAssumption == Bits \in Nat /\ N < 2^Bits /\ 2^Bits < 2 * N

\* The definition of powers as far as they are used: the provers have none.
ASSUME PowersAssumption ==
    2^0 = 1 /\ \A n \in 0 .. 2 * Bits : 2^(n + 1) = 2 * 2^n

\* scalar_get_bits_var, scalar_negate and scalar_is_high.
GetBits(s, offset, count) == (s \div 2^offset) % 2^count
ScalarNeg(s) == (-s) % N
IsHigh(s) == s > (N - 1) \div 2

\* WNAF_SIZE_BITS(Bits, w)
WnafSize(w) == (Bits + w - 1) \div w

\* Mutant: the carry is not taken into the next word.
EcmultWnafNoCarry(a, w) ==
    LET s == IF a >= 2^(Bits - 1) THEN ScalarNeg(a) ELSE a
        From[bit \in 0 .. Bits] ==
            IF bit = Bits THEN << >>
            ELSE IF GetBits(s, bit, 1) = 0 THEN <<0>> \o From[bit + 1]
            ELSE LET now  == IF w > Bits - bit THEN Bits - bit ELSE w
                     word == GetBits(s, bit, now)
                     c    == GetBits(word, w - 1, 1)
                 IN  <<word - c * 2^w>> \o [i \in 1 .. now - 1 |-> 0]
                        \o From[bit + now]
    IN  [i \in 0 .. Bits - 1 |->
            IF a >= 2^(Bits - 1) THEN -From[0][i + 1] ELSE From[0][i + 1]]

\* ecmult_wnaf: zero, or odd digits of w bits with their sign, at least w
\* positions apart; scalars with the top bit set are negated first.
EcmultWnaf(a, w) ==
    LET flip == GetBits(a, Bits - 1, 1) = 1
        s    == IF flip THEN ScalarNeg(a) ELSE a
        From[bit \in 0 .. Bits] == [carry \in {0, 1} |->
            IF bit = Bits THEN << >>
            ELSE IF GetBits(s, bit, 1) = carry
            THEN <<0>> \o From[bit + 1][carry]
            ELSE LET now  == IF w > Bits - bit THEN Bits - bit ELSE w
                     word == GetBits(s, bit, now) + carry
                     c    == GetBits(word, w - 1, 1)
                 IN  <<word - c * 2^w>> \o [i \in 1 .. now - 1 |-> 0]
                        \o From[bit + now][c]]
        digits == From[0][0]
    IN  [i \in 0 .. Bits - 1 |->
            IF flip THEN -digits[i + 1] ELSE digits[i + 1]]

\* What it returns: one more than the last position with a digit.
LastBit(wnaf) ==
    CHOOSE b \in 0 .. Bits :
        /\ \A i \in b .. Bits - 1 : wnaf[i] = 0
        /\ b > 0 => wnaf[b - 1] # 0

\* wnaf_fixed: one odd digit per w bits up to the last window that is not
\* zero; even scalars are made odd by adding the skew.  A digit 1 or -1
\* whose neighbour below has the other sign is folded into it.
WnafFixed(s, w) ==
    LET last == WnafSize(w) - 1
        skew == IF s # 0 /\ s % 2 = 0 THEN 1 ELSE 0
        Window(pos) ==
            GetBits(s, pos * w, IF pos = last THEN Bits - last * w ELSE w)
        top == CHOOSE pos \in 0 .. last :
                  /\ \A q \in pos + 1 .. last : Window(q) = 0
                  /\ pos = 0 \/ Window(pos) # 0
        Digits[pos \in 0 .. last] ==
            IF pos = 0
            THEN [i \in 0 .. last |-> IF i = 0 THEN GetBits(s, 0, w) + skew
                                               ELSE 0]
            ELSE
            LET d    == Digits[pos - 1]
                even == Window(pos) % 2 = 0
                low  == IF even THEN d[pos - 1] - 2^w ELSE d[pos - 1]
                new  == [d EXCEPT ![pos - 1] = low,
                                  ![pos] = Window(pos) + (IF even THEN 1
                                                                  ELSE 0)]
            IN  IF \/ pos >= 2 /\ low = 1 /\ d[pos - 2] < 0
                   \/ pos >= 2 /\ low = -1 /\ d[pos - 2] > 0
                THEN [new EXCEPT ![pos - 1] = 0, ![pos - 2] = @ + low * 2^w]
                ELSE new
    IN  [skew |-> skew,
         digit |-> IF s = 0 THEN [i \in 0 .. last |-> 0] ELSE Digits[top]]

\* Mutant: -1 is not treated specially.
SkewedAlways(s) ==
    LET bit == IF IsHigh(s) <=> (s % 2 = 0) THEN 1 ELSE 0
        t   == s + 2^bit
    IN  [skew |-> 2^bit, sign |-> IF IsHigh(s) THEN -1 ELSE 1,
         scalar |-> IF IsHigh(s) THEN ScalarNeg(t) ELSE t]

\* The start of wnaf_const: the scalar is made odd by adding 1 or 2 and
\* negated if it was high; -1, which cannot take 2, is negated only.
Skewed(s) ==
    LET flip  == IsHigh(s)
        bit   == IF flip <=> (s % 2 = 0) THEN 1 ELSE 0
        minus == ScalarNeg(s) = 1
        t     == IF minus THEN s ELSE s + 2^bit
    IN  [skew |-> 2^bit,
         sign |-> IF flip = minus THEN 1 ELSE -1,
         scalar |-> IF flip THEN ScalarNeg(t) ELSE t]

\* wnaf_const: an odd digit per w bits, and one more on top.
WnafConst(s, w) ==
    LET size == WnafSize(w)
        from == Skewed(s)
        \* The window k, after what window k - 1 has handed up to it.
        Word(k) == (from.scalar \div 2^(k * w)) % 2^w
        Raised[k \in 0 .. size] ==
            IF k = 0 THEN Word(0)
            ELSE IF Word(k) % 2 = 1 THEN Word(k)
            ELSE Word(k) + (IF Raised[k - 1] > 0 THEN 1 ELSE -1)
        Digit(k) ==
            IF k = size \/ Word(k + 1) % 2 = 1 THEN Raised[k]
            ELSE Raised[k] - (IF Raised[k] > 0 THEN 2^w ELSE -(2^w))
    IN  [skew |-> from.skew,
         digit |-> [k \in 0 .. size |-> Digit(k) * from.sign]]
=============================================================================
