----------------------------- MODULE Encodings -----------------------------
(***************************************************************************)
(* Signatures and public keys as bytes: DER and the two forms of a public  *)
(* key (ecdsa_impl.h, eckey_impl.h).  A byte is a digit below Byte, and    *)
(* 32-byte strings are Bytes of them.  A parser returns the set of what it *)
(* reads: one value, or none if it refuses.                                *)
(***************************************************************************)
EXTENDS Curve, SequencesExt

CONSTANTS
    Byte,       \* 256
    Bytes,      \* 32
    LongForm    \* 0x80 in a length octet: the length itself follows

ASSUME EncodingsAssumption ==
    /\ Byte \in Nat /\ Byte % 2 = 0
    /\ Bytes \in Nat /\ N < Byte ^ Bytes
    /\ LongForm \in 7 + 2 * (Bytes + 1) .. Byte - 1

\* What the prover has to be told of the powers of Byte.
ASSUME PowersAssumption ==
    /\ Byte ^ 0 = 1
    /\ \A n \in 0 .. Bytes : Byte ^ n \in Nat /\ Byte ^ (n + 1) = Byte * Byte ^ n

\* 0x30 and 0x02: any two bytes would do.
TagSequence == 3
TagInteger  == 2

\* scalar_set_b32, and its overflow flag.
SetB32(b) == b % N
Overflow(b) == b >= N

\* scalar_get_b32, and the number that a string of bytes is.
GetB32(n) == [i \in 1 .. Bytes |-> (n \div Byte ^ (Bytes - i)) % Byte]
Value(b) ==
    LET value[i \in 0 .. Len(b)] ==
            IF i = 0 THEN 0 ELSE value[i - 1] * Byte + b[i]
    IN  value[Len(b)]

TopBit(d) == d >= Byte \div 2

---------------------------------------------------------------------------
(* DER.                                                                    *)

\* The shortest two's complement form: leading zeros go, as long as the
\* number does not become negative.
SerializeInteger(n) ==
    LET b == <<0>> \o GetB32(n)
        first == {i \in 1 .. Len(b) :
                    i = Len(b) \/ b[i] # 0 \/ TopBit(b[i + 1])}
    IN  SubSeq(b, Min(first), Len(b))

\* ecdsa_sig_serialize, into the 72 bytes that always do.
SerializeDer(r, s) ==
    LET R == SerializeInteger(r)
        S == SerializeInteger(s)
    IN  <<TagSequence, 4 + Len(R) + Len(S)>>
            \o <<TagInteger, Len(R)>> \o R \o <<TagInteger, Len(S)>> \o S

\* Mutant: zeros in front are skipped, however many there are.
ShortestPadded(b) ==
    Len(b) > 1 => ~(b[1] = Byte - 1 /\ TopBit(b[2]))

Shortest(b) ==
    Len(b) > 1 => /\ ~(b[1] = 0 /\ ~TopBit(b[2]))
                  /\ ~(b[1] = Byte - 1 /\ TopBit(b[2]))

\* What der_parse_integer makes of the content: zero, if it is no scalar.
IntegerOf(b) ==
    IF TopBit(b[1]) \/ Value(b) >= Byte ^ Bytes \/ Overflow(Value(b))
    THEN 0 ELSE Value(b)

\* der_parse_integer at the head of b: the number, and what follows it.
\* Strings are too short for der_read_len to accept the long form.
ParseInteger(b) ==
    {<<IntegerOf(SubSeq(b, 3, 2 + n)), SubSeq(b, 3 + n, Len(b))>> :
        n \in {n \in 1 .. Len(b) - 2 :
                  /\ b[1] = TagInteger
                  /\ b[2] = n /\ n < LongForm
                  /\ Shortest(SubSeq(b, 3, 2 + n))}}

\* ecdsa_sig_parse: nothing behind the tuple, nothing left inside.
ParseDer(b) ==
    LET body == IF /\ Len(b) >= 2 /\ b[1] = TagSequence
                   /\ b[2] = Len(b) - 2 /\ b[2] < LongForm
                THEN ParseInteger(SubSeq(b, 3, Len(b))) ELSE {}
    IN  UNION {{<<r[1], s[1]>> :
                   s \in {s \in ParseInteger(r[2]) : s[2] = << >>}} : r \in body}

---------------------------------------------------------------------------
(* Public keys: <<tag, x>> is the compressed form, <<tag, x, y>> the long  *)
(* one, with x and y the numbers of 32-byte strings.                       *)

\* ge_set_xo_var: the point with this x and parity of y, if there is one.
SetXo(x, odd) == {p \in Points \ {Infinity} : p[1] = x /\ p[2] % 2 = odd}

\* Mutant: a coordinate from P on is reduced.
PubkeyParseReduced(b) ==
    IF Len(b) = 2 THEN {p \in SetXo(b[2] % P, b[1] % 2) : b[1] \in {2, 3}}
    ELSE IF Len(b) = 3
    THEN {p \in {<<b[2] % P, b[3] % P>>} :
             /\ b[1] \in {4, 6, 7}
             /\ b[1] \in {6, 7} => p[2] % 2 = b[1] % 2
             /\ OnCurve(p[1], p[2])}
    ELSE {}

\* eckey_pubkey_parse: tags 6 and 7 are the hybrid form, whose tag has the
\* parity of y as well.
PubkeyParse(b) ==
    IF Len(b) = 2
    THEN {p \in SetXo(b[2], b[1] % 2) : b[1] \in {2, 3} /\ b[2] < P}
    ELSE IF Len(b) = 3
    THEN {p \in {<<b[2], b[3]>>} :
             /\ b[1] \in {4, 6, 7}
             /\ b[2] < P /\ b[3] < P
             /\ b[1] \in {6, 7} => p[2] % 2 = b[1] % 2
             /\ OnCurve(p[1], p[2])}
    ELSE {}

\* eckey_pubkey_serialize of a point that is not infinite.
PubkeySerialize(p, compressed) ==
    IF compressed THEN <<2 + (p[2] % 2), p[1]>> ELSE <<4, p[1], p[2]>>
=============================================================================
