------------------------------ MODULE Rfc6979 ------------------------------
(***************************************************************************)
(* HMAC and the generator of RFC 6979 in hash_impl.h, and the nonce        *)
(* function of secp256k1.cpp on top of them.                               *)
(*                                                                         *)
(* Digests are numbered: table lists the streams that have been hashed,    *)
(* and byte i of the digest of table[n] is <<"digest", <<n, i>>, {}>>.     *)
(* Streams that differ have digests that differ.  The third component of   *)
(* a byte is the set of masks it is xored with.                            *)
(***************************************************************************)
EXTENDS Sha256, SequencesExt

CONSTANTS
    NULL,           \* a pointer that is not given
    NonceArgs,      \* arguments of nonces: [key, msg, data, algo]
    MaxCounter,     \* the largest counter (a bound)
    StreamLengths,  \* lengths other users of the generator ask for
    MaxCalls,       \* how many users the generator has (a bound)
    Macs            \* keys and messages to authenticate: [key, pieces]

ASSUME ArgsAssumption ==
    \A a \in NonceArgs :
        a = [key |-> a.key, msg |-> a.msg, data |-> a.data, algo |-> a.algo]
ASSUME DrawsAssumption == MaxCounter \in Nat /\ StreamLengths \subseteq Nat
ASSUME MacsAssumption ==
    \A a \in Macs : a.key \in Seq(Byte) /\ a.pieces \in Seq(Seq(Byte))

HalfOut == Out \div 2
Bytes(x, n) == [i \in 1 .. n |-> <<x, i, {}>>]

---------------------------------------------------------------------------
(* SHA-256 and HMAC.  t is the table.                                      *)

Mask(b, m) == <<b[1], b[2], (b[3] \ m) \cup (m \ b[3])>>
Masked(d, m) == [i \in DOMAIN d |-> Mask(d[i], m)]

DigestOf(n) == [i \in 1 .. Out |-> <<"digest", <<n, i>>, {}>>]
Noted(t, s) == IF \E n \in DOMAIN t : t[n] = s THEN t ELSE Append(t, s)
Number(t, s) == CHOOSE n \in DOMAIN t : t[n] = s

\* sha256_finalize: the digest of a hash object, and the table.
DigestIn(t, stream) == [out |-> DigestOf(Number(t, stream)), table |-> t]
DigestStream(t, stream) == DigestIn(Noted(t, stream), stream)
Digested(t, h) == DigestStream(t, Finalized(h))

\* The block of a key: a long one is hashed first.
ZeroFilled(d) == [block |-> d.out \o Zeros(Block - Len(d.out)),
                  table |-> d.table]
KeyBlock(t, key) ==
    ZeroFilled(IF Len(key) <= Block THEN [out |-> key, table |-> t]
               ELSE Digested(t, Written(Initialized, key)))

\* Mutant: the second mask forgets that the first is still on.
KeyedMasksOnce(rkey) ==
    [outer |-> Written(Initialized, Masked(rkey.block, {"5c"})),
     inner |-> Written(Initialized, Masked(rkey.block, {"5c", "36"})),
     table |-> rkey.table]
\* hmac_sha256_initialize: the block is masked in place for outer and masked
\* over again for inner.
Keyed(rkey) ==
    [outer |-> Written(Initialized, Masked(rkey.block, {"5c"})),
     inner |-> Written(Initialized, Masked(Masked(rkey.block, {"5c"}),
                                           {"5c", "36"})),
     table |-> rkey.table]
HmacInitialize(t, key) == Keyed(KeyBlock(t, key))

\* hmac_sha256_write of several pieces
HmacWrite(hmac, pieces) ==
    LET h[i \in 0 .. Len(pieces)] ==
            IF i = 0 THEN hmac.inner ELSE Written(h[i - 1], pieces[i])
    IN  h[Len(pieces)]

\* hmac_sha256_finalize
DigestOuter(temp, outer) == Digested(temp.table, Written(outer, temp.out))
HmacFinalize(hmac, inner) == DigestOuter(Digested(hmac.table, inner), hmac.outer)

HmacOf(hmac, pieces) == HmacFinalize(hmac, HmacWrite(hmac, pieces))
Hmac(t, key, pieces) == HmacOf(HmacInitialize(t, key), pieces)

---------------------------------------------------------------------------
(* The generator: registers k and v, retry, and the table along with them. *)

\* An HMAC with the key k over v and more is the new k, ...
NextK(g, more) ==
    LET d == Hmac(g.table, g.k, <<g.v>> \o more)
    IN  [k |-> d.out, v |-> g.v, retry |-> g.retry, table |-> d.table]
\* ... and one over v alone the new v.
NextV(g) ==
    LET d == Hmac(g.table, g.k, <<g.v>>)
    IN  [k |-> g.k, v |-> d.out, retry |-> g.retry, table |-> d.table]
NextKV(g, more) == NextV(NextK(g, more))

Blank(t) == [k |-> Zeros(Out), v |-> [i \in 1 .. Out |-> Num(1)],
             retry |-> 0, table |-> t]
\* Mutant: step 3.2.f is left out.
SeededOnce(t, key) == NextKV(Blank(t), << <<Num(0)>>, key >>)
\* rfc6979_hmac_sha256_initialize
Seeded(t, key) ==
    NextKV(NextKV(Blank(t), << <<Num(0)>>, key >>), << <<Num(1)>>, key >>)

\* The step of rfc6979_hmac_sha256_generate that a second call begins with.
Reseeded(g) == IF g.retry = 1 THEN NextKV(g, << <<Num(0)>> >>) ELSE g

\* Mutant: the arguments no longer have distinct lengths.
KeyDataSameLengths(a) ==
    Bytes(a.key, Out) \o Bytes(a.msg, Out)
    \o (IF a.data = NULL THEN << >> ELSE Bytes(a.data, Out))
    \o (IF a.algo = NULL THEN << >> ELSE Bytes(a.algo, Out))
\* What nonce_function_rfc6979 feeds it.
KeyData(a) ==
    Bytes(a.key, Out) \o Bytes(a.msg, Out)
    \o (IF a.data = NULL THEN << >> ELSE Bytes(a.data, Out))
    \o (IF a.algo = NULL THEN << >> ELSE Bytes(a.algo, HalfOut))

---------------------------------------------------------------------------
VARIABLES
    table,      \* streams that have been hashed
    rng,        \* the generator, without the table
    where,      \* where its user is
    use,        \* who that is, its key data, output length and draws to come
    outlen,     \* the local variable of generate
    output,     \* the output of the running or last call of generate
    past,       \* what the users so far got
    mac         \* the last code computed, and of what

rvars == <<table, rng, where, use, outlen, output, past, mac>>

Cleared == [k |-> Zeros(Out), v |-> Zeros(Out), retry |-> 0]
Registers(g) == [k |-> g.k, v |-> g.v, retry |-> g.retry]
Generator == [k |-> rng.k, v |-> rng.v, retry |-> rng.retry, table |-> table]

NoUse == [who |-> NULL, keydata |-> << >>, len |-> 0,
          draws |-> 0, total |-> 0]
NoMac == [key |-> << >>, pieces |-> << >>, out |-> << >>]

RInit ==
    /\ table = << >> /\ rng = Cleared
    /\ where = "idle" /\ use = NoUse
    /\ outlen = 0 /\ output = << >> /\ past = << >>
    /\ mac = NoMac

\* Somebody sets the generator up for a number of draws.
Start(who, keydata, len, draws) ==
    /\ where = "idle" /\ Len(past) < MaxCalls /\ mac = NoMac
    /\ LET g == Seeded(table, keydata)
       IN  rng' = Registers(g) /\ table' = g.table
    /\ use' = [who |-> who, keydata |-> keydata, len |-> len,
                draws |-> draws, total |-> draws]
    /\ where' = "draw"
    /\ output' = << >>
    /\ UNCHANGED <<outlen, past, mac>>

\* nonce_function_rfc6979: counter + 1 draws, the last one is the nonce.
NonceFunction(a, counter) ==
    Start([args |-> a, counter |-> counter], KeyData(a), Out, counter + 1)

\* Another user of the generator, who may ask for other lengths.
Stream(seed, len, draws) == Start(NULL, Bytes(seed, Out), len, draws)

\* generate is called.
Generate ==
    /\ where = "draw" /\ use.draws > 0
    /\ LET g == Reseeded(Generator)
       IN  rng' = Registers(g) /\ table' = g.table
    /\ use' = [use EXCEPT !.draws = @ - 1]
    /\ outlen' = use.len /\ output' = << >>
    /\ where' = "block"
    /\ UNCHANGED <<past, mac>>

\* One round of its loop.
GenerateBlock ==
    /\ where = "block" /\ outlen > 0
    /\ LET g == NextV(Generator)
           now == IF outlen > Out THEN Out ELSE outlen
       IN  /\ rng' = Registers(g) /\ table' = g.table
           /\ output' = output \o SubSeq(g.v, 1, now)
           /\ outlen' = outlen - now
    /\ UNCHANGED <<where, use, past, mac>>

\* It returns.
Generated ==
    /\ where = "block" /\ outlen = 0
    /\ rng' = [k |-> rng.k, v |-> rng.v, retry |-> 1]
    /\ where' = "draw"
    /\ UNCHANGED <<table, use, outlen, output, past, mac>>

\* The user is done with the generator and takes the last output.
RngFinalize ==
    /\ where = "draw" /\ use.draws = 0
    /\ rng' = Cleared
    /\ past' = Append(past, [who |-> use.who, out |-> output])
    /\ where' = "idle" /\ use' = NoUse
    /\ UNCHANGED <<table, outlen, output, mac>>

\* HMAC by itself, with a key of any length and a message in pieces.
Authenticate(a) ==
    /\ where = "idle" /\ past = << >> /\ mac = NoMac
    /\ LET d == Hmac(table, a.key, a.pieces)
       IN  /\ table' = d.table
           /\ mac' = [key |-> a.key, pieces |-> a.pieces, out |-> d.out]
    /\ UNCHANGED <<rng, where, use, outlen, output, past>>

RNext ==
    \/ \E a \in NonceArgs, n \in 0 .. MaxCounter : NonceFunction(a, n)
    \/ \E len \in StreamLengths, n \in 1 .. 2 : Stream("a", len, n)
    \/ Generate \/ GenerateBlock \/ Generated \/ RngFinalize
    \/ \E a \in Macs : Authenticate(a)

RSpec == RInit /\ [][RNext]_rvars

---------------------------------------------------------------------------
(* What the standards say: the digest of a message is that of its padding, *)
(* RFC 2104 defines HMAC, RFC 6979 section 3.2 the generator.              *)

StdDigest(msg) ==
    IF \E n \in DOMAIN table : table[n] = Padded(msg)
    THEN DigestOf(Number(table, Padded(msg))) ELSE DigestOf(0)
StdHmac(key, msg) ==
    LET k0 == IF Len(key) > Block THEN StdDigest(key) ELSE key
        k == k0 \o Zeros(Block - Len(k0))
    IN  StdDigest(Masked(k, {"5c"})
                  \o StdDigest(Masked(k, {"36"}) \o msg))

\* Steps d to g for a value of the counter byte
StdRound(s, byte, key) ==
    LET k == StdHmac(s.k, s.v \o <<Num(byte)>> \o key)
    IN  [k |-> k, v |-> StdHmac(k, s.v)]
StdSeeded(key) ==
    StdRound(StdRound([k |-> Zeros(Out), v |-> [i \in 1 .. Out |-> Num(1)]],
                      0, key), 1, key)

\* Step h: v is replaced until there are enough bits.
StdBlocks(k, v, n) ==
    LET b[i \in 0 .. n] == IF i = 0 THEN v ELSE StdHmac(k, b[i - 1]) IN b
StdOutput(s, len) ==
    LET n == (len + Out - 1) \div Out
        b == StdBlocks(s.k, s.v, n)
    IN  [out |-> SubSeq(FlattenSeq([i \in 1 .. n |-> b[i]]), 1, len),
         next |-> StdRound([k |-> s.k, v |-> b[n]], 0, << >>)]
\* The output of the last of a number of draws
StdDraw(key, len, draws) ==
    LET s[i \in 1 .. draws] == IF i = 1 THEN StdSeeded(key)
                               ELSE StdOutput(s[i - 1], len).next
    IN  StdOutput(s[draws], len).out

---------------------------------------------------------------------------
(* Properties.                                                             *)

\* An HMAC is the one of RFC 2104, for keys shorter than, as long as and
\* longer than a block, and messages in any pieces (hmac_sha256_*).
MacRight ==
    mac # NoMac =>
        mac.out = StdHmac(mac.key, FlattenSeq(mac.pieces))

\* Whatever the generator has put out is what RFC 6979 gives for the key
\* data after as many draws, for outputs shorter and longer than one digest
\* too; so is a nonce, although the generator is set up afresh and replayed
\* for every counter (rfc6979_hmac_sha256_generate, nonce_function_rfc6979).
OutputRight ==
    where = "block" /\ outlen = 0 =>
        output = StdDraw(use.keydata, use.len, use.total - use.draws)

\* Two nonces are the same only if all arguments and the counters are: no
\* mixture of data and algorithm emulates another one, "because the
\* arguments have distinct fixed lengths" (nonce_function_rfc6979).
NoncesApart ==
    \A i, j \in DOMAIN past :
        past[i].who # NULL /\ past[j].who # NULL =>
            (past[i].out = past[j].out <=> past[i].who = past[j].who)
===========================================================================
