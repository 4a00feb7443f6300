------------------------------ MODULE Multiply ------------------------------
(***************************************************************************)
(* The scalar multiplications, on real points of a small curve:            *)
(*   "ecmult"     na*A + ng*G, A in Jacobian coordinates (verification,    *)
(*                recovery, tweaks);                                       *)
(*   "strauss"    a batch of points, and the same inner loop;              *)
(*   "pippenger"  a batch of points, with buckets (ecmult_impl.h);         *)
(*   "const"      n*A in constant time (ecmult_const_impl.h), for ECDH;    *)
(*   "gen"        n*G from the table of ecmult_gen, blinded.               *)
(* Every loop goes from the top digit down, one action per digit.          *)
(***************************************************************************)
EXTENDS Tables, Recoding

CONSTANTS
    WINDOW_A, WINDOW_G,
    GenBits,        \* the width of ecmult_gen's windows, 4 in the code
    Nums,           \* the point nobody knows the logarithm of
    NoScalar,       \* inp_g_sc == NULL
    Terms,          \* points to multiply: records [p, z], p on the curve
    GScalars,       \* scalars of G to combine them with
    BatchScalars,   \* scalars of all but the first point of a batch
    Blinds          \* what ctx->blind may be

ASSUME WindowAssumption ==
    /\ WINDOW_A \in 3 .. Bits /\ WINDOW_G \in 3 .. Bits
    /\ GenBits \in 1 .. Bits /\ Bits % GenBits = 0
ASSUME InputAssumption ==
    /\ \A t \in Terms : t.p \in Points /\ t.z \in 1 .. P - 1
    /\ GScalars \subseteq Scalars \cup {NoScalar}
    /\ BatchScalars \subseteq Scalars /\ Blinds \subseteq Scalars
    /\ Nums \in Points /\ NoScalar \notin Scalars

GenCount == Bits \div GenBits
Prec == GenTable(GejSetGe(ToGe(Nums)), GenBits, GenCount)

\* The code relies on this: nobody can name a multiple of Nums that is one
\* of G.
ASSUME NumsAssumption ==
    \A j \in 0 .. GenCount - 1, i \in 0 .. 2^GenBits - 1 :
        ~Prec[j][i].infinity

\* ctx->pre_g
PreG == SetTable(OddMultiples(TableSize(WINDOW_G), GejSetGe(ToGe(G))))

VARIABLES
    alg,        \* the algorithm, or "none"
    terms,      \* its points, records [n, a]: scalar and Jacobian point
    ng,         \* the scalar of G
    digits,     \* the digits of every term it uses: [k -> [position -> _]]
    table,      \* its table of odd multiples
    bigZ,       \* Z, the z coordinate the tables are on
    pos,        \* the position of the digit it does next
    r           \* the accumulator

vars == <<alg, terms, ng, digits, table, bigZ, pos, r>>

Done == -1          \* pos after the last digit
Init ==
    /\ alg = "none" /\ terms = << >> /\ ng = NoScalar
    /\ digits = << >> /\ table = << >> /\ bigZ = 1
    /\ pos = Done /\ r = GejSetInfinity

Max2(a, b) == IF a > b THEN a ELSE b

---------------------------------------------------------------------------
(* Strauss: ecmult_strauss_wnaf, called by ecmult and by strauss_batch.    *)

\* The terms it does not skip: no zero scalar, no point at infinity.
Used(ts) ==
    LET U[k \in 0 .. Len(ts)] ==
            IF k = 0 THEN << >>
            ELSE IF ts[k].n # 0 /\ ~ts[k].a.infinity
            THEN Append(U[k - 1], ts[k]) ELSE U[k - 1]
    IN  U[Len(ts)]

StraussTables(used) ==
    LET T[k \in 0 .. Len(used)] ==
            IF k = 0 THEN [prej |-> << >>, zr |-> << >>]
            ELSE AppendOddMultiples(T[k - 1], TableSize(WINDOW_A), used[k].a)
    IN  T[Len(used)]

StartStrauss(name, ts, g) ==
    LET used == Used(ts)
        t    == StraussTables(used)
        wnaf == [k \in DOMAIN used |-> EcmultWnaf(used[k].n, WINDOW_A)]
        gw   == IF g = NoScalar THEN [i \in 0 .. Bits - 1 |-> 0]
                                ELSE EcmultWnaf(g, WINDOW_G)
        B_[k \in 0 .. Len(used)] ==
            IF k = 0 THEN LastBit(gw) ELSE Max2(LastBit(wnaf[k]), B_[k - 1])
    IN  /\ alg' = name
        /\ terms' = ts
        /\ ng' = g
        /\ digits' = Append(wnaf, gw)
        /\ table' = Globalz(t)
        /\ bigZ' = IF used = << >> THEN 1 ELSE Last(t.prej).z
        /\ pos' = B_[Len(used)] - 1
        /\ r' = GejSetInfinity

Ecmult ==
    /\ alg = "none"
    /\ \E n \in Scalars, t \in Terms, g \in GScalars \ {NoScalar} :
          StartStrauss("ecmult", << [n |-> n, a |-> ToGej(t.p, t.z)] >>, g)

\* The points a batch gets from its callback are affine.
Batches ==
    {<< [n |-> n, a |-> ToGej(t.p, 1)] >> : n \in Scalars, t \in Terms}
    \cup {<< [n |-> n, a |-> ToGej(t.p, 1)], [n |-> m, a |-> ToGej(u.p, 1)] >>
            : n \in Scalars, m \in BatchScalars, t \in Terms, u \in Terms}

StraussBatch ==
    /\ alg = "none"
    /\ \E ts \in Batches, g \in GScalars : StartStrauss("strauss", ts, g)

\* The slice of the table that belongs to the k-th term used.
TableOf(k) ==
    SubSeq(table, (k - 1) * TableSize(WINDOW_A) + 1, k * TableSize(WINDOW_A))

StraussStep ==
    LET no == Len(digits) - 1
        Added[k \in 0 .. no] ==
            IF k = 0 THEN GejDouble(r)
            ELSE IF digits[k][pos] = 0 THEN Added[k - 1]
            ELSE GejAddGeVar(Added[k - 1],
                             TableGet(TableOf(k), digits[k][pos]))
        gd == digits[no + 1][pos]
    IN  /\ alg \in {"ecmult", "strauss"} /\ pos >= 0
        /\ r' = IF gd = 0 THEN Added[no]
                ELSE GejAddZinvVar(Added[no], TableGet(PreG, gd), bigZ)
        /\ pos' = pos - 1
        /\ UNCHANGED <<alg, terms, ng, digits, table, bigZ>>

---------------------------------------------------------------------------
(* ecmult_const, for a finite affine point and a scalar that is not zero.  *)

Const ==
    /\ alg = "none"
    /\ \E n \in Scalars \ {0}, t \in Terms :
          LET a == ToGej(t.p, 1)
              m == OddMultiples(TableSize(WINDOW_A), a)
              wnaf == WnafConst(n, WINDOW_A - 1)
              top == WnafSize(WINDOW_A - 1)
          IN  /\ t.p # Infinity
              /\ terms' = << [n |-> n, a |-> a] >>
              /\ digits' = << wnaf.digit >>
              /\ table' = Globalz(m)
              /\ bigZ' = Last(m.prej).z
              /\ r' = GejSetGe(TableGet(Globalz(m), wnaf.digit[top]))
              /\ pos' = top - 1
    /\ alg' = "const"
    /\ UNCHANGED ng

ConstStep ==
    /\ alg = "const" /\ pos >= 0
    /\ r' = GejAddGe(DoubleTimes(r, WINDOW_A - 1),
                     TableGet(table, digits[1][pos]))
    /\ pos' = pos - 1
    /\ UNCHANGED <<alg, terms, ng, digits, table, bigZ>>

---------------------------------------------------------------------------
(* pippenger_batch and pippenger_wnaf.                                     *)

\* pippenger_bucket_window, for the sizes of batches here.
BucketWindow(n) == IF n <= 1 THEN 1 ELSE 2

PippengerBatch ==
    /\ alg = "none"
    /\ \E ts \in Batches, g \in GScalars :
          LET w == BucketWindow(Len(ts))
              all == IF g = NoScalar THEN ts
                     ELSE << [n |-> g, a |-> GejSetGe(ToGe(G))] >> \o ts
              used == Used(all)
          IN  /\ terms' = ts
              /\ ng' = g
              /\ digits' = [k \in DOMAIN used |-> WnafFixed(used[k].n, w + 1)]
              /\ table' = [k \in DOMAIN used |-> used[k].a]
              /\ pos' = IF used = << >> THEN Done ELSE WnafSize(w + 1) - 1
    /\ alg' = "pippenger"
    /\ UNCHANGED <<bigZ, r>>

\* What the k-th term adds to bucket j.
BucketAdd(k, j, bucket) ==
    LET d    == digits[k].digit[pos]
        a    == [x |-> table[k].x, y |-> table[k].y, infinity |-> FALSE]
        skew == IF pos = 0 /\ j = 0 /\ digits[k].skew = 1
                THEN GejAddGeVar(bucket, GeNeg(a)) ELSE bucket
    IN  CASE d > 0 /\ j = (d - 1) \div 2 -> GejAddGeVar(skew, a)
          [] d < 0 /\ j = -(d + 1) \div 2 -> GejAddGeVar(skew, GeNeg(a))
          [] OTHER -> skew

Bucket(j) ==
    LET B_[k \in 0 .. Len(digits)] ==
            IF k = 0 THEN GejSetInfinity ELSE BucketAdd(k, j, B_[k - 1])
    IN  B_[Len(digits)]

PippengerStep ==
    LET w   == BucketWindow(Len(terms))
        top == 2^w - 1
        \* The running sum and r after the buckets from j on.
        Sum[j \in 1 .. top + 1] ==
            IF j = top + 1
            THEN [run |-> GejSetInfinity, r |-> DoubleTimes(r, w)]
            ELSE LET run == GejAddVar(Sum[j + 1].run, Bucket(j)) IN
                 [run |-> run, r |-> GejAddVar(Sum[j + 1].r, run)]
    IN  /\ alg = "pippenger" /\ pos >= 0
        /\ r' = GejAddVar(GejDouble(Sum[1].r), GejAddVar(Sum[1].run, Bucket(0)))
        /\ pos' = pos - 1
        /\ UNCHANGED <<alg, terms, ng, digits, table, bigZ>>

---------------------------------------------------------------------------
(* ecmult_gen with a consistent pair (blind, initial); the scalar is n.    *)

Gen ==
    /\ alg = "none"
    /\ \E n \in Scalars, b \in Blinds, z \in {t.z : t \in Terms} :
          /\ terms' = << [n |-> n, a |-> GejSetGe(ToGe(G))] >>
          /\ digits' = << [j \in 0 .. GenCount - 1 |->
                             GetBits((n + b) % N, j * GenBits, GenBits)] >>
          /\ r' = ToGej(Times[ScalarNeg(b)], z)
    /\ pos' = 0
    /\ alg' = "gen"
    /\ UNCHANGED <<ng, table, bigZ>>

GenStep ==
    /\ alg = "gen" /\ pos >= 0
    /\ r' = GejAddGe(r, Prec[pos][digits[1][pos]])
    /\ pos' = IF pos = GenCount - 1 THEN Done ELSE pos + 1
    /\ UNCHANGED <<alg, terms, ng, digits, table, bigZ>>

---------------------------------------------------------------------------
\* What follows the loop: back to the real z coordinate, the skew undone.
Finish ==
    LET back == [x |-> r.x, y |-> r.y, z |-> F(r.z * bigZ),
                 infinity |-> r.infinity]
        a == terms[1].a
        skewPoint == IF WnafConst(terms[1].n, WINDOW_A - 1).skew = 2
                     THEN GejNormalize(GejDouble(a)) ELSE a
    IN  CASE alg = "const" ->
                GejAddGe(back, Ge(skewPoint.x, F(-skewPoint.y)))
          [] alg \in {"ecmult", "strauss"} /\ ~r.infinity -> back
          [] OTHER -> r

\* The call returns Finish; the next one starts from scratch.
Return ==
    /\ alg # "none" /\ pos = Done
    /\ alg' = "none" /\ terms' = << >> /\ ng' = NoScalar
    /\ digits' = << >> /\ table' = << >> /\ bigZ' = 1
    /\ pos' = Done /\ r' = GejSetInfinity

Next ==
    \/ Ecmult \/ StraussBatch \/ StraussStep \/ Const \/ ConstStep
    \/ PippengerBatch \/ PippengerStep \/ Gen \/ GenStep \/ Return

Spec == Init /\ [][Next]_vars

---------------------------------------------------------------------------
TypeOK ==
    /\ alg \in {"none", "ecmult", "strauss", "pippenger", "const", "gen"}
    /\ pos \in Done .. Bits
    /\ r \in [x : Field, y : Field, z : Field, infinity : BOOLEAN]
    /\ bigZ \in 1 .. P - 1

Affine(a) == IF a.infinity THEN Infinity
             ELSE LET zi == FieldInverse[a.z] IN
                  <<GeSetGejZinv(a, zi).x, GeSetGejZinv(a, zi).y>>

\* The product a call is for.
Expected ==
    LET S[k \in 0 .. Len(terms)] ==
            IF k = 0 THEN IF ng = NoScalar THEN 0 ELSE ng
            ELSE (S[k - 1] + terms[k].n * Log[Affine(terms[k].a)]) % N
    IN  Times[S[Len(terms)]]

\* Every algorithm computes the product, for all scalars, the even, high
\* and extreme ones included, and points that are equal, opposite or at
\* infinity: recodings, tables, isomorphism, skew and blinding cancel out.
Product ==
    alg # "none" /\ pos = Done => Affine(Finish) = Expected

\* No digit leads outside its table or buckets and none that is looked up
\* is even.  In constant time none is zero either: the accumulator, which
\* is doubled without asking, starts and stays finite.
Fits(d, w) == d = 0 \/ (d % 2 = 1 /\ d < 2^(w - 1) /\ -d < 2^(w - 1))
DigitsFit ==
    CASE alg \in {"ecmult", "strauss"} ->
            \A k \in DOMAIN digits, i \in 0 .. Bits - 1 :
                Fits(digits[k][i], IF k = Len(digits) THEN WINDOW_G
                                                      ELSE WINDOW_A)
      [] alg = "const" ->
            \A i \in DOMAIN digits[1] :
                digits[1][i] # 0 /\ Fits(digits[1][i], WINDOW_A)
      [] alg = "pippenger" ->
            \A k \in DOMAIN digits : \A i \in DOMAIN digits[k].digit :
                Fits(digits[k].digit[i], BucketWindow(Len(terms)) + 2)
      [] OTHER -> TRUE
=============================================================================
