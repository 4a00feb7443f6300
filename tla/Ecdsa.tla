------------------------------- MODULE Ecdsa -------------------------------
(***************************************************************************)
(* ECDSA signing, verification and public-key recovery (secp256k1.cpp,     *)
(* ecdsa_impl.h, modules/recovery/main_impl.h), on a small curve.          *)
(*                                                                         *)
(* One signer signs one message with one key, with ecdsa_sign ("plain")    *)
(* and with ecdsa_sign_recoverable ("recoverable") in any order, as often  *)
(* as it likes.  Both draw nonces from rfc6979, a stream determined by the *)
(* key and the message and started afresh by every call of the nonce       *)
(* function; all the model knows of it is that it is some sequence of      *)
(* 32-byte strings.                                                        *)
(***************************************************************************)
EXTENDS Keys

CONSTANTS
    Strings,    \* the integers that 32-byte strings encode: from N on they
                \* overflow
    MaxTries    \* how far the nonce stream is looked at (a bound)

ASSUME StringsAssumption ==
    Strings \subseteq 0 .. Byte ^ Bytes - 1 /\ 0 .. N \subseteq Strings
ASSUME MaxTriesAssumption == MaxTries \in Nat \ {0}

Kinds == {"plain", "recoverable"}

\* scalar_is_high.
IsHigh(s) == s > (N - 1) \div 2

\* Mutant: s = N - s is kept, the recovery id is not adjusted.
SigSignKeepsRecid(sec, m, k) ==
    LET R == Times[k]
        r == SetB32(R[1])
        s == Mul(ScalarInverse[k], (Mul(r, sec) + m) % N)
        recid == (IF Overflow(R[1]) THEN 2 ELSE 0) + (R[2] % 2)
    IN  [ok |-> s # 0, r |-> r, recid |-> recid,
         s |-> IF IsHigh(s) THEN Negate(s) ELSE s]

\* ecdsa_sig_sign with the nonce k: fails if s comes out zero.
SigSign(sec, m, k) ==
    LET R == Times[k]
        r == SetB32(R[1])
        s == Mul(ScalarInverse[k], (Mul(r, sec) + m) % N)
        recid == (IF Overflow(R[1]) THEN 2 ELSE 0) + (R[2] % 2)
    IN  [ok |-> s # 0, r |-> r,
         s |-> IF IsHigh(s) THEN Negate(s) ELSE s,
         recid |-> IF ~IsHigh(s) THEN recid
                   ELSE IF recid % 2 = 0 THEN recid + 1 ELSE recid - 1]

\* Mutant: only x(R) itself is compared, not x(R) - N.
SigVerifyNoWrap(r, s, Q, m) ==
    LET sn == ScalarInverse[s]
        R  == Ecmult(Mul(sn, r), Q, Mul(sn, m))
    IN  r # 0 /\ s # 0 /\ R # Infinity /\ r = R[1]

\* ecdsa_sig_verify: r is x(R) or x(R) - N.
SigVerify(r, s, Q, m) ==
    LET sn == ScalarInverse[s]
        R  == Ecmult(Mul(sn, r), Q, Mul(sn, m))
    IN  /\ r # 0 /\ s # 0
        /\ R # Infinity
        /\ r = R[1] \/ (r < P - N /\ r + N = R[1])

\* ecdsa_verify takes the lower s only; ecdsa_signature_normalize makes it.
Verify(r, s, Q, m) == ~IsHigh(s) /\ SigVerify(r, s, Q, m)
Normalize(s) == IF IsHigh(s) THEN Negate(s) ELSE s

\* ecdsa_sig_recover: the public keys it returns, one or none.
Recover(r, s, recid, m) ==
    LET x == IF recid >= 2 THEN r + N ELSE r
        rn == ScalarInverse[r]
        Key(R) == Ecmult(Mul(rn, s), R, Negate(Mul(rn, m)))
    IN  {Q \in {Key(R) : R \in SetXo(x, recid % 2)} :
            /\ r # 0 /\ s # 0
            /\ recid >= 2 => r < P - N
            /\ Q # Infinity}

---------------------------------------------------------------------------
VARIABLES
    seckey,     \* the 32 bytes given as the secret key
    msg32,      \* the 32 bytes of the message
    stream,     \* the nonces rfc6979 yields for them, as far as drawn
    kind,       \* the function that is signing, or "none"
    pc,         \* "idle", "loop" or "save"
    count,      \* its count of rejected nonces
    ret,        \* its ret
    cur,        \* its r, s and recid
    out         \* the last output of either function

vars == <<seckey, msg32, stream, kind, pc, count, ret, cur, out>>

NoSig == [r |-> 0, s |-> 0, recid |-> 0]
NoOut == [done |-> FALSE, ret |-> 0, sig |-> NoSig]
Sigs == [r : Scalars, s : Scalars, recid : 0 .. 3]

Init ==
    /\ seckey \in Strings
    /\ msg32 \in Strings
    /\ stream = << >>
    /\ kind = "none"
    /\ pc = "idle"
    /\ count = 0
    /\ ret = 0
    /\ cur = NoSig
    /\ out = [f \in Kinds |-> NoOut]

\* A call of either function: the key is checked before any nonce is drawn.
Call(f) ==
    /\ pc = "idle"
    /\ kind' = f
    /\ ret' = 0
    /\ count' = 0
    /\ pc' = IF ValidKey(seckey) THEN "loop" ELSE "save"
    /\ UNCHANGED <<seckey, msg32, stream, cur, out>>

\* Mutant: the generator is not seeded afresh, every draw takes its next output.
NonceContinues(n) == n \in Strings /\ stream' = Append(stream, n)

\* nonce_function_rfc6979: seed a generator, draw count + 1 outputs, return
\* the last.  The stream is extended when nobody has looked so far yet.
Nonce(n) ==
    IF count < Len(stream)
    THEN n = stream[count + 1] /\ UNCHANGED stream
    ELSE n \in Strings /\ stream' = Append(stream, n)

\* A nonce that is no scalar, or yields s = 0, is passed over.
TryNonce ==
    /\ pc = "loop"
    /\ count < MaxTries
    /\ \E n \in Strings :
          /\ Nonce(n)
          /\ ret' = 1
          /\ LET sig == SigSign(SetB32(seckey), SetB32(msg32), n) IN
             IF ~Overflow(n) /\ n # 0 /\ sig.ok
             THEN /\ cur' = [r |-> sig.r, s |-> sig.s, recid |-> sig.recid]
                  /\ pc' = "save"
                  /\ UNCHANGED count
             ELSE count' = count + 1 /\ UNCHANGED <<cur, pc>>
    /\ UNCHANGED <<seckey, msg32, kind, out>>

\* The signature, or all zeros if the key was refused.
Save ==
    /\ pc = "save"
    /\ out' = [out EXCEPT ![kind] =
                 [done |-> TRUE, ret |-> ret,
                  sig |-> IF ret = 1 THEN cur ELSE NoSig]]
    /\ pc' = "idle"
    /\ kind' = "none"
    /\ cur' = NoSig
    /\ UNCHANGED <<seckey, msg32, stream, count, ret>>

Next == (\E f \in Kinds : Call(f)) \/ TryNonce \/ Save

Spec == Init /\ [][Next]_vars

---------------------------------------------------------------------------
TypeOK ==
    /\ seckey \in Strings /\ msg32 \in Strings
    /\ stream \in Seq(Strings) /\ Len(stream) <= MaxTries
    /\ kind \in Kinds \cup {"none"}
    /\ pc \in {"idle", "loop", "save"}
    /\ count \in 0 .. MaxTries
    /\ ret \in {0, 1}
    /\ cur \in Sigs
    /\ \A f \in Kinds : out[f].sig \in Sigs

Msg == SetB32(msg32)
Signed(f) == out[f].done /\ out[f].ret = 1

\* Both functions sign alike: the same nonces in the same order, the same r
\* and s, for a key either both or neither accept.
SameSignature ==
    out["plain"].done /\ out["recoverable"].done =>
        /\ out["plain"].ret = out["recoverable"].ret
        /\ out["plain"].sig.r = out["recoverable"].sig.r
        /\ out["plain"].sig.s = out["recoverable"].sig.s
=============================================================================
