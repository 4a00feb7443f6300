-------------------------------- MODULE Keys --------------------------------
(***************************************************************************)
(* Private and public keys (secp256k1.cpp, eckey_impl.h, ecdh/main_impl.h):*)
(* creating the one from the other, changing both in step, and agreeing on *)
(* a secret.  An operation returns the set of its results: one, or none if *)
(* it fails.                                                               *)
(***************************************************************************)
EXTENDS Encodings

Negate(s) == (-s) % N
Mul(a, b) == (a * b) % N

ValidKey(b) == ~Overflow(b) /\ SetB32(b) # 0

\* ecmult: a*Q + g*G.
Ecmult(a, Q, g) == Times[(Mul(a, Log[Q]) + g) % N]

PubkeyCreate(sec) == {Times[SetB32(b)] : b \in {b \in {sec} : ValidKey(b)}}

\* Both sides refuse a tweak that is no scalar, a sum of zero and a factor
\* of zero; neither looks whether the private key it starts from overflows.
PrivkeyTweak(op, sec, t) ==
    CASE op = "add"    -> {(SetB32(sec) + u) % N : u \in {t} \cap Scalars} \ {0}
      [] op = "mul"    -> {Mul(SetB32(sec), u) : u \in {t} \cap (Scalars \ {0})}
      [] op = "negate" -> {Negate(SetB32(sec))}

\* Mutant: the overflow of the tweak is not looked at.
PubkeyTweakReduced(op, Q, t) ==
    CASE op = "add"    -> {Ecmult(1, Q, SetB32(t))} \ {Infinity}
      [] op = "mul"    -> {Ecmult(SetB32(t), Q, 0)} \ {Infinity}
      [] op = "negate" -> {PointNeg(Q)}

PubkeyTweak(op, Q, t) ==
    CASE op = "add"    -> {Ecmult(1, Q, u) : u \in {t} \cap Scalars} \ {Infinity}
      [] op = "mul"    -> {Ecmult(u, Q, 0) : u \in {t} \cap (Scalars \ {0})}
      [] op = "negate" -> {PointNeg(Q)}

\* ec_pubkey_combine of two keys.
PubkeyCombine(Q, R) == {PointAdd(Q, R)} \ {Infinity}

\* ecdh: what is hashed, the product in compressed form.
Ecdh(Q, sec) ==
    {PubkeySerialize(Ecmult(SetB32(b), Q, 0), TRUE) :
        b \in {b \in {sec} : ValidKey(b)}}
=============================================================================
