----------------------------- MODULE ScalarLimbs -----------------------------
(***************************************************************************)
(* scalar_8x32_impl.h, the scalar arithmetic the build selects: numbers    *)
(* modulo the group order in words.  scalar_4x64_impl.h, the other choice, *)
(* has the same shape, so the number of words and their width are          *)
(* parameters.  A scalar is a function from 0 .. Words - 1, the least      *)
(* significant word first.                                                 *)
(***************************************************************************)
EXTENDS Integers, Sequences, FiniteSetsExt, SequencesExt

CONSTANTS Words,       \* 8, or 4
          WordBits,    \* 32, or 64
          ByteBits,    \* 8
          OrderC       \* 2^256 minus the order

Base == 2^WordBits
Half == Words \div 2
Order == Base^Words - OrderC

\* The proportions of the real order: its complement is one word more than
\* half a scalar, with a 1 on top, and its square exceeds 2^256 at most twice.
ASSUME OrderAssumption ==
    /\ Words \in {4, 8} /\ WordBits \in Nat \ {0}
    /\ WordBits % ByteBits = 0
    /\ OrderC \div Base^Half = 1 /\ OrderC^2 < 2 * Base^Words

WordOf(x, i) == (x \div Base^i) % Base
ToWords(x) == [i \in 0 .. Words - 1 |-> WordOf(x, i)]
Value(a) == MapThenSumSet(LAMBDA i : a[i] * Base^i, DOMAIN a)

\* SECP256K1_N_i, SECP256K1_N_C_i and SECP256K1_N_H_i.
OrderWord(i) == WordOf(Order, i)
OrderCWord(i) == WordOf(OrderC, i)
HalfWord(i) == WordOf(Order \div 2, i)

\* Positions from lo to hi in ascending order.
Upto(lo, hi) == [n \in 1 .. hi - lo + 1 |-> lo + n - 1]

\* Adds up one column after the other, passing on what exceeds a word.
Carried(column) ==
    FoldLeft(LAMBDA r, i :
                 LET t == r.carry + column[i]
                 IN  [d |-> [r.d EXCEPT ![i] = t % Base], carry |-> t \div Base],
             [d |-> ToWords(0), carry |-> 0], Upto(0, Words - 1))

\* check_overflow: whether a is not below the order.  The top words of the
\* order are all ones and cannot be exceeded.
CheckOverflow(a) ==
    \E i \in 0 .. Half :
        /\ IF i = 0 THEN a[0] >= OrderWord(0) ELSE a[i] > OrderWord(i)
        /\ \A j \in i + 1 .. Words - 1 : a[j] >= OrderWord(j)

IsZero(a) == \A i \in DOMAIN a : a[i] = 0

\* is_high: whether a is above half the order.
IsHigh(a) ==
    \E i \in 0 .. Words - 1 :
        /\ a[i] > HalfWord(i)
        /\ \A j \in i + 1 .. Words - 1 : a[j] >= HalfWord(j)

\* scalar_reduce: takes the order off once, by adding its complement.
Reduce(a, overflow) ==
    Carried([i \in 0 .. Words - 1 |-> a[i] + overflow * OrderCWord(i)]).d

Flag(b) == IF b THEN 1 ELSE 0

ScalarAdd(a, b) ==
    LET sum == Carried([i \in 0 .. Words - 1 |-> a[i] + b[i]])
    IN  Reduce(sum.d, sum.carry + Flag(CheckOverflow(sum.d)))

\* scalar_cadd_bit: adds 2^bit unless the flag is off.
CaddBit(a, bit, flag) ==
    Carried([i \in 0 .. Words - 1 |->
                a[i] + IF flag /\ i = bit \div WordBits
                       THEN 2^(bit % WordBits) ELSE 0]).d

\* scalar_negate: the complement of a, plus the order and one; zero is masked.
ScalarNegate(a) ==
    IF IsZero(a) THEN a
    ELSE Carried([i \in 0 .. Words - 1 |->
                     Base - 1 - a[i] + OrderWord(i) + Flag(i = 0)]).d

\* scalar_cond_negate, and what it returns.
CondNegate(a, flag) == IF flag THEN ScalarNegate(a) ELSE a
CondSign(flag) == IF flag THEN -1 ELSE 1

\* scalar_shr_int, for shifts of less than a word.
ShrInt(a, n) ==
    [i \in 0 .. Words - 1 |->
        (a[i] \div 2^n)
        + IF i = Words - 1 THEN 0 ELSE ((a[i + 1] * 2^(WordBits - n)) % Base)]

\* scalar_get_bits_var: bits of one word, or of two.
GetBitsVar(a, offset, count) ==
    LET i   == offset \div WordBits
        low == a[i] \div 2^(offset % WordBits)
    IN  IF (offset + count - 1) \div WordBits = i
        THEN low % (2^count)
        ELSE (low + a[i + 1] * 2^(WordBits - (offset % WordBits))) % (2^count)

\* scalar_set_b32 and scalar_get_b32: byte strings have the last byte first.
BytesPerWord == WordBits \div ByteBits

SetB32(bytes) ==
    LET n    == Words * BytesPerWord
        word == [i \in 0 .. Words - 1 |->
                    MapThenSumSet(LAMBDA m : bytes[n - BytesPerWord * i - m]
                                                 * 2^(ByteBits * m),
                                  0 .. BytesPerWord - 1)]
        over == CheckOverflow(word)
    IN  [d |-> Reduce(word, Flag(over)), overflow |-> over]

GetB32(a) ==
    LET n == Words * BytesPerWord
    IN  [k \in 1 .. n |->
            (a[(n - k) \div BytesPerWord]
                \div 2^(ByteBits * ((n - k) % BytesPerWord))) % (2^ByteBits)]

(***************************************************************************)
(* Products.  An accumulator of three words takes products and words of a  *)
(* column; "ok" is the conjunction of the VERIFY_CHECKs passed so far,     *)
(* which release builds leave out.                                         *)
(***************************************************************************)
Acc0 == [c0 |-> 0, c1 |-> 0, c2 |-> 0, ok |-> TRUE]

\* Mutant: the cast to twice the width follows the multiplication, as it does
\* in scalar_4x64 without assembler.
ProductNarrow(a, b) == (a * b) % Base
Product(a, b) == a * b

\* Mutant: the carry out of the low word is lost.
MulAddNoCarry(c, a, b) ==
    LET t  == Product(a, b)
        c1 == (c.c1 + (t \div Base)) % Base
    IN  [c0 |-> (c.c0 + (t % Base)) % Base, c1 |-> c1,
         c2 |-> (c.c2 + Flag(c1 < t \div Base)) % Base, ok |-> c.ok]

\* muladd
MulAdd(c, a, b) ==
    LET tl == Product(a, b) % Base
        c0 == (c.c0 + tl) % Base
        th == (Product(a, b) \div Base + Flag(c0 < tl)) % Base
        c1 == (c.c1 + th) % Base
        c2 == (c.c2 + Flag(c1 < th)) % Base
    IN  [c0 |-> c0, c1 |-> c1, c2 |-> c2, ok |-> c.ok /\ (c1 >= th \/ c2 # 0)]

\* muladd_fast: nothing may be carried out of c1.
MulAddFast(c, a, b) ==
    LET tl == Product(a, b) % Base
        c0 == (c.c0 + tl) % Base
        th == (Product(a, b) \div Base + Flag(c0 < tl)) % Base
        c1 == (c.c1 + th) % Base
    IN  [c EXCEPT !.c0 = c0, !.c1 = c1, !.ok = @ /\ c1 >= th]

\* muladd2: twice the product, doubled word by word.
MulAdd2(c, a, b) ==
    LET tl  == Product(a, b) % Base
        th  == Product(a, b) \div Base
        d2  == (2 * th) % Base
        e2  == (c.c2 + Flag(d2 < th)) % Base
        tl2 == (2 * tl) % Base
        d2b == (d2 + Flag(tl2 < tl)) % Base
        c0  == (c.c0 + tl2) % Base
        th2 == (d2b + Flag(c0 < tl2)) % Base
        e3  == (e2 + Flag(c0 < tl2 /\ th2 = 0)) % Base
        c1  == (c.c1 + th2) % Base
        c2  == (e3 + Flag(c1 < th2)) % Base
    IN  [c0 |-> c0, c1 |-> c1, c2 |-> c2,
         ok |-> /\ c.ok
                /\ d2 >= th \/ e2 # 0
                /\ c0 >= tl2 \/ th2 # 0 \/ e3 # 0
                /\ c1 >= th2 \/ c2 # 0]

\* sumadd and sumadd_fast
SumAdd(c, a) ==
    LET c0   == (c.c0 + a) % Base
        over == Flag(c0 < a)
        c1   == (c.c1 + over) % Base
    IN  [c EXCEPT !.c0 = c0, !.c1 = c1, !.c2 = (@ + Flag(c1 < over)) % Base]

SumAddFast(c, a) ==
    LET c0 == (c.c0 + a) % Base
        c1 == (c.c1 + Flag(c0 < a)) % Base
    IN  [c EXCEPT !.c0 = c0, !.c1 = c1,
                  !.ok = @ /\ (c1 # 0 \/ c0 >= a) /\ c.c2 = 0]

\* extract and extract_fast: drop the word c0, which the caller keeps.
Extract(c) == [c EXCEPT !.c0 = c.c1, !.c1 = c.c2, !.c2 = 0]
ExtractFast(c) ==
    [c EXCEPT !.c0 = c.c1, !.c1 = 0, !.ok = @ /\ c.c2 = 0]

\* Runs the columns lo .. hi, each of which adds to the accumulator, and
\* collects the word each leaves.
Columns(Column(_, _), fast, hi, c) ==
    FoldLeft(LAMBDA r, k :
                 LET sum == Column(r.acc, k)
                 IN  [word |-> Append(r.word, sum.c0),
                      acc |-> IF k \in fast THEN ExtractFast(sum)
                              ELSE Extract(sum)],
             [word |-> << >>, acc |-> c], Upto(0, hi))

\* What Columns left and the word that remains, counted from 0.
WordsOf(r) ==
    LET all == Append(r.word, r.acc.c0) IN [i \in 0 .. Len(all) - 1 |-> all[i + 1]]

\* scalar_mul_512: the full product, column by column.
Mul512(a, b) ==
    LET top == 2 * Words - 2
        Column(c, k) ==
            IF k \in {0, top} THEN MulAddFast(c, a[k \div 2], b[k \div 2])
            ELSE FoldLeft(LAMBDA acc, i : MulAdd(acc, a[i], b[k - i]), c,
                          Upto(Max({0, k - Words + 1}), Min({k, Words - 1})))
        r == Columns(Column, {0, top}, top, Acc0)
    IN  [l |-> WordsOf(r), ok |-> r.acc.ok /\ r.acc.c1 = 0]

\* scalar_sqr_512: products of two different words are doubled.
Sqr512(a) ==
    LET top == 2 * Words - 2
        Column(c, k) ==
            IF k \in {0, top} THEN MulAddFast(c, a[k \div 2], a[k \div 2])
            ELSE LET twice == FoldLeft(
                         LAMBDA acc, i : MulAdd2(acc, a[i], a[k - i]), c,
                         Upto(Max({0, k - Words + 1}), (k - 1) \div 2))
                 IN  IF k % 2 = 0 THEN MulAdd(twice, a[k \div 2], a[k \div 2])
                     ELSE twice
        r == Columns(Column, {0, top}, top, Acc0)
    IN  [l |-> WordsOf(r), ok |-> r.acc.ok /\ r.acc.c1 = 0]

\* One column of low + high * complement: a word of low, the products with
\* the words of the complement, and, for the 1 on top of it, a word of high.
FoldColumn(c, low, high, k, last) ==
    LET size == Cardinality(DOMAIN high)
        Times(acc, i) == IF k = 0 \/ (last /\ k = Words - 1)
                         THEN MulAddFast(acc, high[i], OrderCWord(k - i))
                         ELSE MulAdd(acc, high[i], OrderCWord(k - i))
        Plus(acc, x) == IF k = 1 \/ (last /\ k = Words - 1)
                           \/ k = Words + Half - 1
                        THEN SumAddFast(acc, x) ELSE SumAdd(acc, x)
        started == IF k = 0 \/ k \notin DOMAIN low THEN c ELSE Plus(c, low[k])
        multiplied == FoldLeft(Times, started,
                          Reverse(Upto(Max({0, k - Half + 1}), Min({k, size - 1}))))
    IN  IF k - Half \in DOMAIN high THEN Plus(multiplied, high[k - Half])
        ELSE multiplied

\* scalar_reduce_512 in three rounds, each of which replaces what exceeds
\* 2^256 by its multiple of the complement: 512 bits to 385, to 258, to 256.
\* The last excess is taken off like that of a sum.
FoldRound(x, last, fast, hi, ok) ==
    LET low  == [i \in 0 .. Words - 1 |-> x[i]]
        high == [i \in 0 .. Cardinality(DOMAIN x) - Words - 1 |-> x[Words + i]]
    IN  Columns(LAMBDA c, k : FoldColumn(c, low, high, k, last), fast, hi,
                [Acc0 EXCEPT !.c0 = x[0], !.ok = ok])

TakeOff(r, ok) ==
    LET over == r.carry + Flag(CheckOverflow(r.d))
    IN  [d |-> Reduce(r.d, over), ok |-> ok /\ over <= 1]

Reduce258(p, top, ok) ==
    TakeOff(Carried([i \in 0 .. Words - 1 |-> p[i] + OrderCWord(i) * top]),
            ok /\ top <= 2)

Reduce385(m, ok) ==
    LET Reduced(r) == Reduce258(WordsOf(r), r.acc.c0 + m[Words + Half], r.acc.ok)
    IN  Reduced(FoldRound(m, TRUE, {0, Words - 1}, Words - 1, ok))

Reduce512(l) ==
    LET Reduced(r) == Reduce385(WordsOf(r), r.acc.ok /\ r.acc.c0 <= 1)
    IN  Reduced(FoldRound(l, FALSE, {0, Words + Half - 1}, Words + Half - 1, TRUE))

\* scalar_mul and scalar_sqr
ScalarMul(a, b) ==
    LET Reduced(p) == [Reduce512(p.l) EXCEPT !.ok = @ /\ p.ok]
    IN  Reduced(Mul512(a, b))

ScalarSqr(a) ==
    LET Reduced(p) == [Reduce512(p.l) EXCEPT !.ok = @ /\ p.ok]
    IN  Reduced(Sqr512(a))

==============================================================================
