---------------------------- MODULE DerivedKeys ----------------------------
(***************************************************************************)
(* A signer whose public key is with somebody else: the key pair is        *)
(* derived further, each side tweaking or negating its own half, and then  *)
(* the signer signs (Ecdsa) and the other side verifies.  What passes      *)
(* between them is bytes, as in the glue code: public keys in either form, *)
(* signatures in DER, recoverable ones as r, s and an id.                  *)
(***************************************************************************)
EXTENDS Ecdsa

CONSTANT
    FieldStrings    \* the integers that coordinates are sent as

ASSUME FieldStringsAssumption == Field \subseteq FieldStrings /\ FieldStrings \subseteq Nat

VARIABLES
    pub,        \* the other side's bytes of the public key, or none
    owed        \* the tweaks it has not applied yet: none or one (a bound)

derivedVars == <<vars, pub, owed>>

Ops == {"add", "mul", "negate"}

\* computePubkey as KeyPair calls it, not compressed; no bytes for a key that
\* is refused.
ComputePubkey(sec) ==
    IF ValidKey(sec)
    THEN CHOOSE b \in {PubkeySerialize(Q, FALSE) : Q \in PubkeyCreate(sec)} : TRUE
    ELSE << >>

DerivedInit ==
    /\ Init
    /\ pub = ComputePubkey(seckey)
    /\ owed = << >>

\* Nothing is signed yet; the pair stays as it is from then on.
Deriving == pc = "idle" /\ \A f \in Kinds : ~out[f].done

\* The signer changes its key, or clears it if that fails, and tells the
\* other side.  Keys are derived before anything is signed (a bound: later,
\* it would be another signer).
TweakPrivate(op, t) ==
    /\ pub # << >> /\ owed = << >>
    /\ Deriving
    /\ \E result \in {PrivkeyTweak(op, seckey, t)} :
          seckey' \in (IF result = {} THEN {0} ELSE result)
    /\ owed' = <<[op |-> op, t |-> t]>>
    /\ UNCHANGED <<msg32, stream, kind, pc, count, ret, cur, out, pub>>

\* The other side parses its bytes, applies the tweak and keeps the result,
\* uncompressed; none if that fails, which the Java method throws for.
TweakPublic ==
    /\ owed # << >>
    /\ \E result \in {UNION {PubkeyTweak(owed[1].op, Q, owed[1].t) :
                                Q \in PubkeyParse(pub)}} :
          pub' \in (IF result = {} THEN {<< >>}
                    ELSE {PubkeySerialize(Q, FALSE) : Q \in result})
    /\ owed' = << >>
    /\ UNCHANGED vars

DerivedNext ==
    \/ \E op \in Ops, t \in Strings : TweakPrivate(op, t)
    \/ TweakPublic
    \/ owed = << >> /\ Next /\ UNCHANGED <<pub, owed>>

DerivedSpec == DerivedInit /\ [][DerivedNext]_derivedVars

---------------------------------------------------------------------------
DerivedTypeOK ==
    /\ TypeOK
    /\ pub \in Seq(Nat)
    /\ owed \in Seq([op : Ops, t : Strings])

\* The two halves of a pair stay together: what the public side has, after
\* any number of tweaks, is the public key of what the private side has, and
\* nothing if that is no key any more.  Third parties get the same secret
\* and the same sums from either half.
TweaksAgree ==
    Deriving /\ owed = << >> =>
        /\ PubkeyParse(pub) = PubkeyCreate(seckey)
        /\ \A Q \in PubkeyParse(pub), b \in Strings : \A R \in PubkeyCreate(b) :
              /\ Ecdh(Q, b) = Ecdh(R, seckey)
              /\ PubkeyCombine(Q, R)
                    = UNION {PubkeyCreate(k) : k \in PrivkeyTweak("add", seckey, b)}

\* The strings that are parsed as a given public key, of all of the right
\* lengths.
KeySpellings ==
    LET Strings33 == (2 .. 7) \X FieldStrings
        Strings65 == (2 .. 7) \X FieldStrings \X FieldStrings
    IN  [Q \in Points |->
            {b \in Strings33 \cup Strings65 : PubkeyParse(b) = {Q}}]

\* What is parsed as the public key is one string in each form, and one
\* hybrid: a coordinate from P on, another point's and a wrong parity are
\* refused.
OneKeyEachForm ==
    Deriving => \A Q \in PubkeyParse(pub) :
        KeySpellings[Q] = {PubkeySerialize(Q, TRUE), PubkeySerialize(Q, FALSE),
                           <<6 + (Q[2] % 2), Q[1], Q[2]>>}

\* The ways to write n in up to two bytes more than it takes, also as one
\* of the integers that are congruent to it.
Zeros(k) == [i \in 1 .. k |-> 0]
Respellings(n) ==
    (UNION {{Zeros(k) \o SerializeInteger(v) : k \in 0 .. 2} :
                v \in {n, n + N} \cap Strings})
    \cup {GetB32(v) : v \in {n, n + N} \cap Strings}

\* The strings that r, s and -s could be spelled as, with a byte left over
\* inside or behind the tuple or not, and what the parser makes of them.
SigSpelling(R, S, extra, rest) ==
    <<TagSequence, 4 + Len(R) + Len(S) + extra>>
        \o <<TagInteger, Len(R)>> \o R
        \o <<TagInteger, Len(S)>> \o S \o rest
SigSpellings(r, s) ==
    {SigSpelling(R, S, extra, rest) :
        R \in Respellings(r), S \in Respellings(s) \cup Respellings(Negate(s)),
        extra \in {0, 1}, rest \in {<< >>, <<0>>}}
Readings ==
    [sig \in Scalars \X Scalars |->
        UNION {{<<b, read>> : read \in ParseDer(b)} : b \in SigSpellings(sig[1], sig[2])}]

\* The bytes that sign returns are accepted by verify with the bytes of the
\* public key the other side has, after any tweaks and any number of rejected
\* nonces, also where x(R) wraps modulo N; and they are the only ones of that
\* signature: with s negated, r or s written any other way, or bytes left
\* over, a string is refused.  Again r is not zero.
OneForm ==
    \A sig \in {out[f].sig : f \in {f \in Kinds : Signed(f) /\ out[f].sig.r # 0}} :
        /\ Normalize(Negate(sig.s)) = sig.s
        /\ \E Q \in PubkeyParse(pub) :
              {x[1] : x \in {x \in Readings[<<sig.r, sig.s>>] :
                                Verify(x[2][1], x[2][2], Q, Msg)}}
                  = {SerializeDer(sig.r, sig.s)}

\* The recovery id that comes with a recoverable signature recovers the
\* signer's key, as the other side has it, and it is the only one that does:
\* negating s has flipped it, an x that wrapped is recorded in it.  That r is
\* not zero is what ecdsa_sig_sign supposes of the nonce.
RecoversSigner ==
    Signed("recoverable") /\ out["recoverable"].sig.r # 0 =>
        LET sig == out["recoverable"].sig IN
        \A i \in 0 .. 3 :
            (PubkeyParse(pub) \subseteq Recover(sig.r, sig.s, i, Msg)) <=> (i = sig.recid)

\* Verification and recovery agree: the keys a pair (r, s) verifies for are
\* those that some recovery id recovers from it.
VerifyMeansRecovered ==
    Deriving /\ owed = << >> =>
        \A Q \in PubkeyParse(pub), r \in Scalars, s \in Scalars :
            SigVerify(r, s, Q, Msg)
                <=> \E i \in 0 .. 3 : Q \in Recover(r, s, i, Msg)
=============================================================================
