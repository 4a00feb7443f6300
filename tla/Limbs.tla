-------------------------------- MODULE Limbs --------------------------------
(***************************************************************************)
(* Calculations with scalars and field elements as the rest of the library *)
(* makes them: one operation after the other, each on the words the last   *)
(* one left.  "number" is what they stand for.  A behaviour is about one   *)
(* kind of number, or it is one of the addition chains, line by line.      *)
(***************************************************************************)
EXTENDS ScalarLimbs, FieldLimbs, AdditionChains

CONSTANTS ScalarOperands,  \* numbers below Base^Words, also above the order
          FieldOperands,   \* numbers below the prime
          MaxScalarSteps, MaxFieldSteps  \* bounds on the operations

VARIABLES kind,       \* "scalar", "field", or a chain
          number,     \* the residue that the calculation has come to
          scalar,     \* the words that hold it
          element,    \* the limbs that hold it
          exponents,  \* a chain: the powers that its variables hold
          steps,      \* the operations, or lines, so far
          checks      \* whether all bounds the model keeps of VERIFY builds
                      \* held inside them, and what was read was refused or
                      \* reduced as it should

vars == <<kind, number, scalar, element, exponents, steps, checks>>

\* (a * b) % m without leaving the range of integers: by digits of b.
TimesMod(a, b, m) ==
    FoldLeft(LAMBDA r, k : (r * 16 + a * ((b \div 16^k) % 16)) % m, 0,
             Reverse(Upto(0, 6)))

Init ==
    /\ steps = 0 /\ checks = TRUE
    /\ \/ /\ kind = "scalar"
          /\ \E x \in ScalarOperands :
                scalar = SetB32(GetB32(ToWords(x))).d /\ number = x % Order
          /\ element = FeClear /\ exponents = << >>
       \/ /\ kind = "field"
          /\ \E x \in FieldOperands : element = SetInt(x) /\ number = x
          /\ scalar = ToWords(0) /\ exponents = << >>
       \/ /\ kind \in DOMAIN Chain
          /\ exponents = [x |-> {0}]
          /\ scalar = ToWords(0) /\ element = FeClear /\ number = 0

----------------------------------------------------------------------------
OnScalar == kind = "scalar" /\ steps < MaxScalarSteps

ScalarBecomes(r, x) ==
    /\ scalar' = r /\ number' = x /\ steps' = steps + 1
    /\ UNCHANGED <<kind, element, exponents>>

\* scalar_set_b32, of a string that may stand for too large a number.
ScalarRead ==
    /\ OnScalar
    /\ \E x \in ScalarOperands :
           LET r == SetB32(GetB32(ToWords(x)))
           IN  /\ ScalarBecomes(r.d, x % Order)
               /\ checks' = (checks /\ r.overflow = (x >= Order))

\* scalar_add
ScalarPlus ==
    /\ OnScalar
    /\ \E x \in ScalarOperands :
           /\ x < Order
           /\ ScalarBecomes(ScalarAdd(scalar, ToWords(x)), (number + x) % Order)
           /\ UNCHANGED checks

\* scalar_mul and scalar_sqr
ScalarTimes ==
    /\ OnScalar
    /\ \E x \in ScalarOperands :
           \E r \in {ScalarMul(scalar, ToWords(x))} :
               /\ x < Order
               /\ ScalarBecomes(r.d, TimesMod(number, x, Order))
               /\ checks' = (checks /\ r.ok)

ScalarSquare ==
    /\ OnScalar
    /\ \E r \in {ScalarSqr(scalar)} :
           /\ ScalarBecomes(r.d, TimesMod(number, number, Order))
           /\ checks' = (checks /\ r.ok)

\* scalar_negate and scalar_cond_negate
ScalarMinus ==
    /\ OnScalar
    /\ \E flag \in BOOLEAN :
           /\ ScalarBecomes(CondNegate(scalar, flag),
                            IF flag THEN (Order - number) % Order ELSE number)
           /\ UNCHANGED checks

\* scalar_cadd_bit, where its callers promise that nothing overflows.
ScalarAddBit ==
    /\ OnScalar
    /\ \E bit \in 0 .. Words * WordBits - 1, flag \in BOOLEAN :
           LET x == number + IF flag THEN 2^bit ELSE 0
           IN  /\ x < Order
               /\ ScalarBecomes(CaddBit(scalar, bit, flag), x)
               /\ checks' = (checks /\ ~ CheckOverflow(scalar'))

----------------------------------------------------------------------------
OnField == kind = "field" /\ steps < MaxFieldSteps

ElementBecomes(r, x) ==
    /\ element' = r /\ number' = x /\ steps' = steps + 1
    /\ UNCHANGED <<kind, scalar, exponents>>

\* The second operand: a normalized element, or a large representation of it.
Operands == {SetInt(x) : x \in FieldOperands}
Large(b) == FeNegate(FeNegate(b, 1), MaxMagnitude - 1)

\* fe_normalize, fe_normalize_var and fe_normalize_weak
FieldNormalize ==
    /\ OnField
    /\ \E r \in {Normalize(element), NormalizeWeak(element)} :
           /\ ElementBecomes(r.fe, number)
           /\ checks' = (checks /\ r.ok)

\* fe_add, while the words have room.
FieldPlus ==
    /\ OnField
    /\ \E b \in Operands :
           /\ element.magnitude + b.magnitude <= Room
           /\ ElementBecomes(FeAdd(element, b), (number + FieldValue(b.n)) % P)
           /\ UNCHANGED checks

\* fe_mul_int
FieldTimesInt ==
    /\ OnField
    /\ \E k \in {2, 3, 4, 8} :
           /\ element.magnitude * k <= Room
           /\ ElementBecomes(FeMulInt(element, k), TimesMod(number, k, P))
           /\ UNCHANGED checks

\* fe_negate, told the magnitude or more.
FieldMinus ==
    /\ OnField
    /\ \E m \in {element.magnitude, MaxMagnitude - 1} :
           /\ element.magnitude <= m /\ m < Room
           /\ ElementBecomes(FeNegate(element, m), (P - number) % P)
           /\ UNCHANGED checks

\* fe_mul and fe_sqr: both factors of at most the largest magnitude.
FieldTimes ==
    /\ OnField
    /\ \E b \in Operands : \E c \in {b, Large(b)} :
           \E r \in {FeMul(element, c)} :
               /\ element.magnitude <= MaxMagnitude
               /\ ElementBecomes(r.fe, TimesMod(number, FieldValue(b.n), P))
               /\ checks' = (checks /\ r.ok)

FieldSquare ==
    /\ OnField
    /\ \E r \in {FeSqr(element)} :
           /\ element.magnitude <= MaxMagnitude
           /\ ElementBecomes(r.fe, TimesMod(number, number, P))
           /\ checks' = (checks /\ r.ok)

\* fe_cmov
FieldMove ==
    /\ OnField
    /\ \E b \in Operands, flag \in BOOLEAN :
           /\ ElementBecomes(FeCmov(element, b, flag),
                             IF flag THEN FieldValue(b.n) ELSE number)
           /\ UNCHANGED checks

\* fe_set_b32; the callers drop what stands for no element.
FieldRead ==
    /\ OnField
    /\ \E x \in FieldOperands \cup {P, P + 1, 2^FieldBits - 1} :
           LET r == FeSetB32(FeGetB32(Elem(ToLimbs(x), 1, FALSE)))
           IN  /\ IF r.ok THEN ElementBecomes(r.fe, x)
                  ELSE ElementBecomes(element, number)
               /\ checks' = (checks /\ r.ok = (x < P))

----------------------------------------------------------------------------
\* The next line of scalar_inverse, fe_inv or fe_sqrt.
ChainStep ==
    /\ kind \in DOMAIN Chain /\ steps < Len(Chain[kind])
    /\ exponents' = RunLine(exponents, Chain[kind][steps + 1])
    /\ steps' = steps + 1
    /\ UNCHANGED <<kind, number, scalar, element, checks>>

Next ==
    \/ ScalarRead \/ ScalarPlus \/ ScalarTimes \/ ScalarSquare
    \/ ScalarMinus \/ ScalarAddBit
    \/ FieldNormalize \/ FieldPlus \/ FieldTimesInt \/ FieldMinus
    \/ FieldTimes \/ FieldSquare \/ FieldMove
    \/ FieldRead
    \/ ChainStep

Spec == Init /\ [][Next]_vars

----------------------------------------------------------------------------
\* Whatever was calculated, the words of a scalar are those of the number,
\* below the order, and every way of reading them tells the same: zero, the
\* upper half, windows of bits, shifts and bytes.  The bounds on accumulators
\* and carries hold that only VERIFY builds look at, and set_b32 reports
\* exactly the strings of too large numbers.
ScalarRight ==
    kind = "scalar" =>
        /\ checks
        /\ Value(scalar) = number
        /\ IsZero(scalar) = (number = 0)
        /\ IsHigh(scalar) = (number > Order \div 2)
        /\ SetB32(GetB32(scalar)) = [d |-> scalar, overflow |-> FALSE]
        /\ \A n \in 1 .. WordBits - 1 :
              Value(ShrInt(scalar, n)) = number \div 2^n
        /\ \A count \in 1 .. WordBits :
              \A offset \in 0 .. Words * WordBits - count :
                  GetBitsVar(scalar, offset, count)
                      = (number \div 2^offset) % 2^count

\* Whatever was calculated, and however long carries have waited, the limbs
\* stand for the number, within what the magnitude allows; normalizing them
\* finds its one representation, which survives storage and bytes; zero and
\* equality are told without normalizing.  The bounds of VERIFY builds that the
\* model keeps, on carries and on limbs of a product, hold for factors of any
\* magnitude fe_mul takes, and set_b32 refuses what is no element.
FieldRight ==
    kind = "field" => checks /\
        \A norm \in {Normalize(element)} :
            /\ FeVerify(element) /\ FeVerify(norm.fe)
            /\ FieldValue(element.n) % P = number
            /\ FieldValue(norm.fe.n) = number
            /\ NormalizesToZero(element.n) = (number = 0)
            /\ NormalizesToZeroVar(element.n) = (number = 0)
            /\ FromStorage(ToStorage(norm.fe)) = norm.fe
            /\ FeSetB32(FeGetB32(norm.fe)) = [fe |-> norm.fe, ok |-> TRUE]
            /\ \A x \in FieldOperands :
                  /\ FeCmpVar(norm.fe, SetInt(x)) = (IF x = number THEN 0
                                                     ELSE IF number > x THEN 1 ELSE -1)
                  /\ element.magnitude + 2 <= Room =>
                        /\ FeEqual(SetInt(x), element) = (x = number)
                        /\ FeEqualVar(SetInt(x), element) = (x = number)

\* The variables of the addition chains hold the powers they are named for,
\* and the last line leaves the inverse or the square root.
ChainRight ==
    kind \in DOMAIN Chain =>
        /\ NamesRight(exponents)
        /\ steps = Len(Chain[kind]) => PowerRight(kind, exponents.t)

==============================================================================
