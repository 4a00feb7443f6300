---------------------------- MODULE AdditionChains ----------------------------
(***************************************************************************)
(* The three powers that are computed by addition chains: the inverse of a *)
(* scalar (scalar_impl.h), the inverse of a field element and its square   *)
(* root (field_impl.h).  What the variables of the C functions hold is x   *)
(* to some power, and the power is all that is kept here, at its real      *)
(* width, as the set of the positions of its ones in binary.               *)
(***************************************************************************)
EXTENDS Integers, Sequences, FiniteSets

Bits == 0 .. 257

\* The sum of two numbers.  A carry reaches position k from the last place
\* below it where both have a one, if one of them has in all places between.
Plus(a, b) ==
    LET Carry(k) == \E j \in a \cap b : j < k /\ j + 1 .. k - 1 \subseteq a \cup b
    IN  {k \in Bits : (k \in a) # ((k \in b) # Carry(k))}

\* Squaring doubles an exponent.
Squared(a, times) == {k + times : k \in a}

\* A line of a chain: dst takes src, is squared so often and then multiplied
\* by another variable, unless that is "".
Line(dst, src, squarings, by) ==
    [dst |-> dst, src |-> src, squarings |-> squarings, by |-> by]

\* The common beginning of fe_inv and fe_sqrt: xn holds n ones.
Blocks ==
    << Line("x2", "x", 1, "x"), Line("x3", "x2", 1, "x"),
       Line("x6", "x3", 3, "x3"), Line("x9", "x6", 3, "x3"),
       Line("x11", "x9", 2, "x2"), Line("x22", "x11", 11, "x11"),
       Line("x44", "x22", 22, "x22"), Line("x88", "x44", 44, "x44"),
       Line("x176", "x88", 88, "x88"), Line("x220", "x176", 44, "x44"),
       Line("x223", "x220", 3, "x3") >>

FeSqrt == Blocks \o
    << Line("t", "x223", 23, "x22"), Line("t", "t", 6, "x2"),
       Line("t", "t", 2, "") >>

FeInv == Blocks \o
    << Line("t", "x223", 23, "x22"), Line("t", "t", 5, "x"),
       Line("t", "t", 3, "x2"), Line("t", "t", 2, "x") >>

ScalarBlocks ==
    << Line("u2", "x", 1, ""), Line("x2", "u2", 0, "x"),
       Line("u5", "u2", 0, "x2"), Line("x3", "u5", 0, "u2"),
       Line("u9", "x3", 0, "u2"), Line("u11", "u9", 0, "u2"),
       Line("u13", "u11", 0, "u2"),
       Line("x6", "u13", 2, "u11"), Line("x8", "x6", 2, "x2"),
       Line("x14", "x8", 6, "x6"), Line("x28", "x14", 14, "x14"),
       Line("x56", "x28", 28, "x28"), Line("x112", "x56", 56, "x56"),
       Line("t", "x112", 14, "x14") >>

\* The windows of what is below: how often t is squared, and by what it is
\* multiplied then.
Windows ==
    << <<3, "u5">>, <<4, "x3">>, <<4, "u5">>, <<5, "u11">>, <<4, "u11">>,
       <<4, "x3">>, <<5, "x3">>, <<6, "u13">>, <<4, "u5">>, <<3, "x3">>,
       <<5, "u9">>, <<6, "u5">>, <<10, "x3">>, <<4, "x3">>, <<9, "x8">>,
       <<5, "u9">>, <<6, "u11">>, <<4, "u13">>, <<5, "x2">>, <<6, "u13">>,
       <<10, "u13">>, <<4, "u9">>, <<6, "x">>, <<8, "x6">> >>

ScalarInverse == ScalarBlocks \o
    [i \in 1 .. Len(Windows) |-> Line("t", "t", Windows[i][1], Windows[i][2])]

Chain == [inverse |-> ScalarInverse, fe_inv |-> FeInv, fe_sqrt |-> FeSqrt]

\* Mutant: one squaring of each line is left out.
RunLineShort(exponents, line) ==
    LET squared == Squared(exponents[line.src],
                           IF line.squarings > 3 THEN line.squarings - 1
                           ELSE line.squarings)
        power == IF line.by = "" THEN squared
                 ELSE Plus(squared, exponents[line.by])
    IN  [v \in DOMAIN exponents \cup {line.dst} |->
            IF v = line.dst THEN power ELSE exponents[v]]

\* What the variables hold after a line.
RunLine(exponents, line) ==
    LET squared == Squared(exponents[line.src], line.squarings)
        power == IF line.by = "" THEN squared
                 ELSE Plus(squared, exponents[line.by])
    IN  [v \in DOMAIN exponents \cup {line.dst} |->
            IF v = line.dst THEN power ELSE exponents[v]]

----------------------------------------------------------------------------
\* A number given by its 16 bit digits, the most significant first.
Digits(d) ==
    {k \in 0 .. 16 * Len(d) - 1 :
        (d[Len(d) - (k \div 16)] \div 2^(k % 16)) % 2 = 1}

\* The order of the group and the prime of the field.
N == Digits(<<\hFFFF, \hFFFF, \hFFFF, \hFFFF, \hFFFF, \hFFFF, \hFFFF, \hFFFE,
              \hBAAE, \hDCE6, \hAF48, \hA03B, \hBFD2, \h5E8C, \hD036, \h4141>>)
FieldP == Digits(<<\hFFFF, \hFFFF, \hFFFF, \hFFFF, \hFFFF, \hFFFF, \hFFFF,
                   \hFFFF, \hFFFF, \hFFFF, \hFFFF, \hFFFF, \hFFFF, \hFFFE,
                   \hFFFF, \hFC2F>>)

\* What the results have to be: by Fermat, x^(n - 2) is the inverse modulo n,
\* and for p = 3 mod 4, x^((p + 1) / 4) is a root of x if there is one.
PowerRight(chain, e) ==
    CASE chain = "inverse" -> Plus(e, {1}) = N
      [] chain = "fe_inv"  -> Plus(e, {1}) = FieldP
      [] chain = "fe_sqrt" -> Squared(e, 2) = Plus(FieldP, {0})

\* What the names of the variables say: xn is n ones, um is m.
Ones == [x2 |-> 2, x3 |-> 3, x6 |-> 6, x8 |-> 8, x9 |-> 9, x11 |-> 11,
         x14 |-> 14, x22 |-> 22, x28 |-> 28, x44 |-> 44, x56 |-> 56,
         x88 |-> 88, x112 |-> 112, x176 |-> 176, x220 |-> 220, x223 |-> 223]
Small == [x |-> {0}, u2 |-> {1}, u5 |-> {0, 2}, u9 |-> {0, 3},
          u11 |-> {0, 1, 3}, u13 |-> {0, 2, 3}]
NamesRight(exponents) ==
    \A v \in DOMAIN exponents :
        /\ v \in DOMAIN Ones => exponents[v] = 0 .. Ones[v] - 1
        /\ v \in DOMAIN Small => exponents[v] = Small[v]

==============================================================================
