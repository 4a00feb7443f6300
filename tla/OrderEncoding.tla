--------------------------- MODULE OrderEncoding ---------------------------
(***************************************************************************)
(* How an order becomes the bytes that are signed (OrderStruct,            *)
(* EIP712Signature, OrderArgs) and the fields that are sent (SignedOrder). *)
(* A hash is the bytes it is given; type hashes and domains are constants. *)
(***************************************************************************)
EXTENDS Integers, Sequences

CONSTANTS
    BYTE,       \* how many values a byte has: 256
    WORD,       \* bytes of an EIP-712 word: 32
    INT,        \* bytes of an int: 4
    ADDRESS,    \* bytes of an address: 20
    SALT        \* bytes of a salt: 16

ASSUME EncodingAssumption ==
    /\ BYTE \in Nat /\ BYTE % 2 = 0 /\ BYTE > 2
    /\ WORD \in Nat /\ INT \in 1 .. WORD - 1
    /\ ADDRESS \in 1 .. WORD /\ SALT \in 1 .. WORD

\* What the prover has to be told of the powers of BYTE.
ASSUME PowersAssumption ==
    /\ BYTE ^ 0 = 1
    /\ \A n \in 0 .. WORD : BYTE ^ n \in Nat /\ BYTE ^ (n + 1) = BYTE * BYTE ^ n

\* The values of an int.
Ints == -(BYTE ^ INT \div 2) .. BYTE ^ INT \div 2 - 1

BigEndian(n, len) == [i \in 1 .. len |-> (n \div BYTE ^ (len - i)) % BYTE]
Unsigned(bytes) ==
    LET value[i \in 0 .. Len(bytes)] ==
            IF i = 0 THEN 0 ELSE value[i - 1] * BYTE + bytes[i]
    IN  value[Len(bytes)]
Signed(bytes) == IF bytes[1] >= BYTE \div 2
                 THEN Unsigned(bytes) - BYTE ^ Len(bytes) ELSE Unsigned(bytes)
Zeros(len) == [i \in 1 .. len |-> 0]

\* BigInteger(s).toByteArray of a token id: a sign bit, no leading bytes.
ToByteArray(n) ==
    BigEndian(n, CHOOSE len \in 1 .. WORD + 1 :
                     2 * n < BYTE ^ len /\ (len = 1 \/ 2 * n >= BYTE ^ (len - 1)))

\* Mutant: an array that is too long loses its end.
Pad64KeepsFront(in) ==
    IF Len(in) <= WORD THEN Zeros(WORD - Len(in)) \o in
    ELSE SubSeq(in, 1, WORD)
Pad64(in) ==
    IF Len(in) <= WORD THEN Zeros(WORD - Len(in)) \o in
    ELSE SubSeq(in, Len(in) - WORD + 1, Len(in))

EncodeInt(i) == (IF i < 0 THEN <<BYTE \div 2>> ELSE <<0>>)
                \o Zeros(WORD - INT - 1) \o BigEndian(i % BYTE ^ INT, INT)
EncodeAddress(key) == Zeros(WORD - ADDRESS) \o key
RandomU256(k) == BigEndian(k, SALT)

EncodeData(order) ==
    order.salt \o EncodeAddress(order.maker) \o EncodeAddress(order.signer)
    \o EncodeAddress(order.taker) \o order.tokenId
    \o EncodeInt(order.makerAmount) \o EncodeInt(order.takerAmount)
    \o EncodeInt(order.expiration) \o EncodeInt(order.nonce)
    \o EncodeInt(order.feeRateBps) \o EncodeInt(order.side)
    \o EncodeInt(order.signatureType)

\* The domain of the contract that trades the market, and the order.
Digest(order, negativeRisk) == <<negativeRisk, EncodeData(order)>>

\* SignedOrder.toString and orderToJson.  Salt, maker, signer, taker and
\* signature type are not sent.
\* Mutant: the fields are in single quotes.
OrderToJsonQuoted(order, sig, apiKey, orderType) ==
    [quotes |-> "single", signature |-> sig,
     side |-> IF order.side = 0 THEN "BUY" ELSE "SELL",
     expiration |-> order.expiration, nonce |-> order.nonce,
     feeRateBps |-> order.feeRateBps, makerAmount |-> order.makerAmount,
     takerAmount |-> order.takerAmount, tokenId |-> Signed(order.tokenId),
     owner |-> apiKey, orderType |-> orderType]
\* Mutant: the amounts are swapped.
OrderToJsonSwapped(order, sig, apiKey, orderType) ==
    [quotes |-> "double", signature |-> sig,
     side |-> IF order.side = 0 THEN "BUY" ELSE "SELL",
     expiration |-> order.expiration, nonce |-> order.nonce,
     feeRateBps |-> order.feeRateBps, makerAmount |-> order.takerAmount,
     takerAmount |-> order.makerAmount, tokenId |-> Signed(order.tokenId),
     owner |-> apiKey, orderType |-> orderType]
OrderToJson(order, sig, apiKey, orderType) ==
    [quotes |-> "double", signature |-> sig,
     side |-> IF order.side = 0 THEN "BUY" ELSE "SELL",
     expiration |-> order.expiration, nonce |-> order.nonce,
     feeRateBps |-> order.feeRateBps, makerAmount |-> order.makerAmount,
     takerAmount |-> order.takerAmount, tokenId |-> Signed(order.tokenId),
     owner |-> apiKey, orderType |-> orderType]
=============================================================================
