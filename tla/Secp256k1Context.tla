------------------------- MODULE Secp256k1Context -------------------------
(***************************************************************************)
(* The generator-multiplication half of a secp256k1_context               *)
(* (ecmult_gen_impl.h): the blinding pair (blind, initial) and the         *)
(* arithmetic on it.                                                       *)
(*                                                                         *)
(* A point is represented by its discrete logarithm to the generator G, so *)
(* points and scalars are both the integers modulo the group order N and   *)
(* point addition is scalar addition.  The table `prec' never changes once *)
(* it is built: multiplying by it is the map k |-> k*G, that is, k.        *)
(***************************************************************************)
EXTENDS Integers

CONSTANTS
    N,          \* the order of the group
    BuildBlind  \* the scalar ecmult_gen_blind(ctx, NULL) draws from the
                \* generator it seeds with the constant blinding value 1

ASSUME OrderAssumption == N \in Nat /\ N >= 2
ASSUME BuildBlindAssumption == BuildBlind \in 1 .. N - 1

Scalars == 0 .. N - 1

\* A 32-byte string read as a scalar: every value from N on overflows, and
\* N stands for all of them.
SecretKeys == 0 .. N

\* Mutant: the overflow check is lost and the sum is never reduced.
AddUnreduced(a, b) == a + b

\* scalar_add: one conditional subtraction of the order.
Add(a, b) == IF a + b >= N THEN a + b - N ELSE a + b

\* scalar_negate: zero stays zero.
Neg(a) == IF a = 0 THEN 0 ELSE N - a

\* The check of every function that takes a secret key.
ValidKey(k) == k # 0 /\ k < N

\* secp256k1_ecmult_gen: r = initial, then add (gn + blind)*G to it.
EcmultGen(initial, blind, gn) == Add(initial, Add(gn, blind))

\* The two members secp256k1_ecmult_gen_blind stores, for the scalar b the
\* seeded generator produced and the pair the context held before.
BlindScalar(b) == Neg(b)
BlindInitial(initial, blind, b) == EcmultGen(initial, blind, b)

\* ecmult_gen_blind(ctx, NULL) at the end of ecmult_gen_context_build: it
\* first resets the pair to (1, -G).
BuiltBlind == BlindScalar(BuildBlind)
BuiltInitial == BlindInitial(Neg(1), 1, BuildBlind)

\* The pair cancels out: multiplying by k yields k*G.
Consistent(initial, blind) == Add(initial, blind) = 0
===========================================================================
