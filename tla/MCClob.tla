------------------------------- MODULE MCClob -------------------------------
(***************************************************************************)
(* Bytes of four values, words of four bytes: token ids of every length    *)
(* toByteArray has for them, one more byte than a word included.           *)
(***************************************************************************)
EXTENDS Clob

MCOwn == <<3, 1>>

\* Sizes with and without a part that is rounded off, and whole ones so large
\* that floats are scarce, print with an exponent or leave the ints; prices
\* on and off the tick, none of them half way.
Quote(side, size, places, price, tick) ==
    [side |-> side, size |-> size, places |-> places, price |-> price, tick |-> tick]
Sizes == {1, 9, 45, 99, 449, 450, 459, 500, 671, 999, 1000, 1449, 1500, 3000,
          7777, 14650, 33333, 100000, 134000, 199999}
LargeSizes == {1000, 18185, 999999, 1234567, 9999999, 10000000, 16777217,
               99999999, 100000000, 200000000, 214748364, 214748365, 300000000,
               2000000000}
Prices == {1, 10, 370, 600, 1000, 1234, 3000, 4800, 5001, 7000, 9000, 9911, 9999}
MCQuotes ==
    {Quote(side, size, 3, price, tick) :
        side \in {BUY, SELL}, size \in Sizes, price \in Prices, tick \in TickSizes}
    \cup {Quote(side, size, 0, price, tick) :
             side \in {BUY, SELL}, size \in LargeSizes, price \in {1000, 5001},
             tick \in TickSizes}

MCOrder(token, side, size, expiration, nonce, negativeRisk) ==
    [tokenId |-> token, side |-> side, size |-> size, price |-> 5000,
     tick |-> "HUNDREDTH", expiration |-> expiration, nonce |-> nonce,
     negativeRisk |-> negativeRisk]
MCOrderArgs ==
    {MCOrder(token, BUY, 2000, 1, 0, FALSE) : token \in {0, 7, 8, 128, 255}}
    \cup {MCOrder(5, side, 3100, 31, 9, TRUE) : side \in {BUY, SELL, 2}}
    \cup {MCOrder(5, SELL, 2250, -1, -32, FALSE)}
\* An order that no comment is right about: a date after 2038, a token in the
\* upper half, and 20.5 tokens at 0.7, whose product does not print well.
MCCommentedArgs ==
    {[MCOrder(200, BUY, 20500, -1, 0, FALSE) EXCEPT !.price = 7000]}
=============================================================================
