---------------------------- MODULE OrderAmounts ----------------------------
(***************************************************************************)
(* How many tokens an order offers and asks for: OrderUtils, whose         *)
(* roundings are float operations and whose test for one more rounding is  *)
(* how many digits the float prints with.                                  *)
(***************************************************************************)
EXTENDS Floats

BUY == 0
SELL == 1

\* The digits of prices, sizes and amounts, by the market's tick.
TickSizes == {"TENTH", "HUNDREDTH", "THOUSANDTH", "TEN_THOUSANDTH"}
FromTickSize(tick) ==
    CASE tick = "TENTH" -> [price |-> 1, size |-> 2, amount |-> 3]
      [] tick = "HUNDREDTH" -> [price |-> 2, size |-> 2, amount |-> 4]
      [] tick = "THOUSANDTH" -> [price |-> 3, size |-> 2, amount |-> 5]
      [] OTHER -> [price |-> 4, size |-> 2, amount |-> 6]

\* An int, which is 10 for 0 digits and wraps around for 10.
PowOf10(digits) ==
    LET power[i \in 1 .. 10] == IF i = 1 THEN 10 ELSE TimesTen(power[i - 1])
    IN  FloatOf(power[IF digits = 0 THEN 1 ELSE digits])

RoundDown(x, digits) ==
    Over(Floor(Times(x, PowOf10(digits))), PowOf10(digits))
RoundNormal(x, digits) ==
    Over(FloatOf(Round(Times(x, PowOf10(digits)))), PowOf10(digits))
RoundUp(x, digits) ==
    Over(Ceil(Times(x, PowOf10(digits))), PowOf10(digits))

\* decimalPlaces(x) is at most places.  Below 10^-3 and from 10^7 on a float
\* prints with one digit before the point, and its E-4 or E7 is counted.
\* From 10^10 on what it prints does not matter: the amount is clamped.
PlacesWithin(x, places) ==
    IF x.k = 0 \/ (AtMost(Decimal(1, 3), x) /\ ~AtMost(Decimal(1, -7), x))
    THEN IsDecimal(x, places)
    ELSE \E exponent \in (-7 .. -4) \cup (7 .. 9) :
             LET digits == places - (IF exponent < 0 THEN 3 ELSE 2) IN
             /\ AtMost(Decimal(1, -exponent), x)
             /\ ~AtMost(Decimal(1, -exponent - 1), x)
             /\ digits >= 1 /\ IsDecimal(x, digits - exponent)

\* A float always prints with a digit behind the point, so decimalPlaces
\* is never 0 and the amount is never scaled.
ToTokenDecimals(x) == Round(RoundNormal(x, 0))

\* A raw amount that prints with too many digits is replaced, by one that
\* is rounded up to four digits more, or to the digits allowed.
IfWithin(x, digits, otherwise) == IF PlacesWithin(x, digits) THEN x ELSE otherwise
Refined(raw, first, second, digits) ==
    IfWithin(raw, digits,
             IfWithin(RoundUp(first, digits + 4), digits, RoundUp(second, digits)))

Amounts(side, maker, taker) ==
    [side |-> side, makerAmount |-> ToTokenDecimals(maker),
     takerAmount |-> ToTokenDecimals(taker)]
\* Mutant: the price, not the amount, is what is rounded again.
BuyAmountsOfPrice(size, price, config) ==
    LET taker == RoundDown(size, config.size)
        rawPrice == RoundNormal(price, config.price)
        raw == Times(taker, rawPrice)
    IN  Amounts(BUY, Refined(raw, rawPrice, rawPrice, config.amount), taker)
BuyAmounts(size, price, config) ==
    LET taker == RoundDown(size, config.size)
        raw == Times(taker, RoundNormal(price, config.price))
    IN  Amounts(BUY, Refined(raw, taker, taker, config.amount), taker)
\* The price is not looked at.
SellAmounts(size, config) ==
    LET maker == RoundDown(size, config.size)
        raw == Times(maker, size)
    IN  Amounts(SELL, maker,
                Refined(raw, raw, RoundUp(raw, config.amount + 4), config.amount))
GetOrderAmounts(side, size, price, config) ==
    IF side = BUY THEN BuyAmounts(size, price, config) ELSE SellAmounts(size, config)
=============================================================================
