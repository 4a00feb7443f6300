-------------------------------- MODULE Clob --------------------------------
(***************************************************************************)
(* A program that uses the bindings of the order book, clob.*: it derives  *)
(* API keys (AuthenticationRequests), asks for markets and quotes          *)
(* (MarketRequests, QuoteRequests), builds orders (OrderBuilder,           *)
(* OrderUtils) and places them (OrderRequests).  It has one thread; the    *)
(* clock and the exchange, which is external, go on while it computes      *)
(* headers and while it waits for an answer, and an answer may be lost.    *)
(***************************************************************************)
EXTENDS OrderAmounts, OrderEncoding, FiniteSets

CONSTANTS
    NULL,
    OrderArgs,      \* what createSignedOrder may be asked for
    Quotes,         \* [side, size, places, price, tick] getOrderAmounts may
                    \* be asked for: the size is a decimal with this many
                    \* places, the price is in ten-thousandths
    Own,            \* the address of the program's key
    Tolerance,      \* how old a timestamp the exchange takes
    MaxTime,        \* bound: the clock stops
    MaxKeys,        \* bound: API keys ever issued
    MaxAsked,       \* bound: orders signed
    MaxMarkets,     \* bound: markets listed
    PageSize        \* markets on a page

ASSUME ClobAssumption ==
    /\ Tolerance \in Nat /\ MaxTime \in Nat /\ MaxKeys \in Nat /\ MaxAsked \in Nat
    /\ MaxMarkets \in Nat /\ PageSize \in Nat \ {0}

VARIABLES
    clock,      \* System.currentTimeMillis() / 1000
    pc,         \* where the call under way is
    call,       \* its operation, and its argument
    stamp,      \* its local timestamp: of the ClobAuthStruct, or of L2
    request,    \* what client.send is given
    response,   \* what it returns
    result,     \* what a call has just returned or thrown
    api,        \* the API key of credentials.apiCredentials
    signed,     \* the SignedOrder the program holds
    asked,      \* how often createSignedOrder was called
    read,       \* how often a reader has met each market, at most twice
    there,      \* how many were listed when it began
    issued,     \* the exchange: API keys issued,
    key,        \* the one in force,
    book,       \* the orders it took,
    markets     \* how many markets it lists, while somebody reads them

local == <<stamp, request, response>>
program == <<api, signed, asked>>
reader == <<read, there, markets>>
exchange == <<issued, key, book>>
vars == <<clock, pc, call, local, result, program, reader, exchange>>

---------------------------------------------------------------------------
(* The operations and their requests.                                      *)

L1Ops == {"deriveAPIKey", "createAPIKey"}
L2Ops == {"getAPIKey", "deleteAPIKey", "placeOrder"}
MarketOps == {"getMarkets", "getSamplingMarkets", "getSimplifiedMarket",
              "getSamplingSimplifiedMarket"}
QuoteOps == {"getMarket", "getBook", "getPrice"}

Method(op) == CASE op \in {"createAPIKey", "placeOrder"} -> "POST"
                [] op = "deleteAPIKey" -> "DELETE"
                [] OTHER -> "GET"
Path(op) == CASE op \in L1Ops -> "/auth/derive-api-key"
              [] op = "getAPIKey" -> "/auth/api-keys"
              [] op = "deleteAPIKey" -> "/auth/api-key"
              [] op = "placeOrder" -> "/order"
              [] op = "getMarkets" -> "/markets"
              [] op = "getSimplifiedMarket" -> "/simplified-markets"
              [] op = "getMarket" -> "/markets/"
              [] op = "getBook" -> "/book"
              [] op = "getPrice" -> "/price"
              [] OTHER -> "/sampling-markets"

\* api: there is no object, its members are null, or the key's number.
NoObject == -1
NoMembers == 0

NoCall == [op |-> "none", cursor |-> 0]
Call(op, cursor) == [op |-> op, cursor |-> cursor]
NoBody == [quotes |-> "none"]
NoRequest == [level |-> -1]
NoResponse == [kind |-> "none"]
NoResult == [is |-> "none"]
NoMarkets == [m \in 1 .. MaxMarkets |-> 0]
END == -1           \* the cursor "LTE="

Init ==
    /\ clock = 0 /\ pc = "idle" /\ call = NoCall /\ stamp = 0
    /\ request = NoRequest /\ response = NoResponse /\ result = NoResult
    /\ api = NoObject /\ signed = NULL /\ asked = 0
    /\ read = NoMarkets /\ there = 0
    /\ issued \in 0 .. 1 /\ key = issued /\ book = {} /\ markets = 0

Tick == /\ clock < MaxTime /\ clock' = clock + 1 /\ result' = NoResult
        /\ UNCHANGED <<pc, call, local, program, reader, exchange>>

\* The call under way is over; r is what it returns or throws.
Return(r) ==
    /\ pc' = "idle" /\ call' = NoCall /\ result' = [is |-> r]
    /\ stamp' = 0 /\ request' = NoRequest /\ response' = NoResponse

---------------------------------------------------------------------------
(* A signed order.                                                         *)

\* Sizes are in thousandths, prices in ten-thousandths.
AmountsOf(args) ==
    GetOrderAmounts(args.side, Decimal(args.size, 3), Decimal(args.price, 4),
                    FromTickSize(args.tick))
\* A draw of the random generator is new.
OrderStruct(args, salt) ==
    LET amounts == AmountsOf(args)
    IN  [salt |-> RandomU256(salt), maker |-> Own, signer |-> Own,
         taker |-> Zeros(ADDRESS), tokenId |-> Pad64(ToByteArray(args.tokenId)),
         makerAmount |-> amounts.makerAmount, takerAmount |-> amounts.takerAmount,
         expiration |-> args.expiration, nonce |-> args.nonce, feeRateBps |-> 0,
         side |-> args.side, signatureType |-> 1]
SignedOrder(args, salt) ==
    LET order == OrderStruct(args, salt)
    IN  [args |-> args, order |-> order, sig |-> Digest(order, args.negativeRisk)]

\* Token ids are uint256, and all other numbers ints: so are the amounts,
\* which Math.round clamps to an int.
ASSUME OrderAssumption ==
    /\ Own \in Seq(0 .. BYTE - 1) /\ Len(Own) = ADDRESS
    /\ \A args \in OrderArgs :
          /\ args.tokenId \in 0 .. BYTE ^ WORD - 1
          /\ args.expiration \in Ints /\ args.nonce \in Ints
          /\ args.side \in {BUY, SELL} =>
                /\ AmountsOf(args).makerAmount \in Ints
                /\ AmountsOf(args).takerAmount \in Ints
                /\ AmountsOf(args).makerAmount >= 0
                /\ AmountsOf(args).takerAmount >= 0
\* null is not an object.
ASSUME NullAssumption ==
    \A args \in OrderArgs, n \in 1 .. MaxAsked : SignedOrder(args, n) # NULL

---------------------------------------------------------------------------
(* createL1Headers and createL2Headers read the clock, then build the      *)
(* headers of the request.                                                 *)

CallL1(op) ==
    /\ pc = "idle" /\ pc' = "signing" /\ call' = Call(op, 0) /\ stamp' = clock
    /\ result' = NoResult
    /\ UNCHANGED <<clock, request, response, program, reader, exchange>>

\* Mutant: what is placed is signed anew.
BodyAnew(op) ==
    IF op = "placeOrder"
    THEN LET new == SignedOrder(signed.args, MaxAsked + 1 + stamp)
         IN  OrderToJson(new.order, new.sig, api, "GTC")
    ELSE NoBody
Body(op) == IF op = "placeOrder"
            THEN OrderToJson(signed.order, signed.sig, api, "GTC") ELSE NoBody

\* Mutant: credentials without members are used.
CallL2Unchecked(op) ==
    /\ pc = "idle" /\ (op = "placeOrder" => signed # NULL)
    /\ IF api = NoObject
       THEN Return("NullPointerException")
       ELSE /\ pc' = "signing" /\ call' = Call(op, 0) /\ stamp' = clock
            /\ result' = NoResult /\ UNCHANGED <<request, response>>
    /\ UNCHANGED <<clock, program, reader, exchange>>
\* No credentials, or no secret to decode, is a NullPointerException.
CallL2(op) ==
    /\ pc = "idle" /\ (op = "placeOrder" => signed # NULL)
    /\ IF api \in {NoObject, NoMembers}
       THEN Return("NullPointerException")
       ELSE /\ pc' = "signing" /\ call' = Call(op, 0) /\ stamp' = clock
            /\ result' = NoResult /\ UNCHANGED <<request, response>>
    /\ UNCHANGED <<clock, program, reader, exchange>>

Send(r) == /\ pc' = "sent" /\ request' = r
           /\ UNCHANGED <<clock, call, stamp, response, result, program, reader,
                          exchange>>

\* Mutant: the header has the time it is added at.
SendL1Late ==
    /\ pc = "signing" /\ call.op \in L1Ops
    /\ Send([level |-> 1, method |-> Method(call.op), path |-> Path(call.op),
             sig |-> [address |-> Own, stamp |-> stamp],
             address |-> Own, stamp |-> clock])
SendL1 ==
    /\ pc = "signing" /\ call.op \in L1Ops
    /\ Send([level |-> 1, method |-> Method(call.op), path |-> Path(call.op),
             sig |-> [address |-> Own, stamp |-> stamp],
             address |-> Own, stamp |-> stamp])

Replaced(body) == IF body.quotes = "single" THEN [body EXCEPT !.quotes = "double"]
                  ELSE body
Message(op) == [stamp |-> stamp, method |-> Method(op), path |-> Path(op),
                body |-> Replaced(Body(op))]
SendL2 ==
    /\ pc = "signing" /\ call.op \in L2Ops
    /\ Send([level |-> 2, method |-> Method(call.op), path |-> Path(call.op),
             sig |-> [secret |-> api, message |-> Message(call.op)],
             key |-> api, stamp |-> stamp, body |-> Body(call.op)])

\* The requests without headers; a listing without a cursor begins at 0.
SendGet(op, cursor) ==
    /\ pc' = "sent" /\ call' = Call(op, cursor)
    /\ request' = [level |-> 0, method |-> "GET", path |-> Path(op),
                   cursor |-> cursor]
    /\ result' = NoResult
    /\ UNCHANGED <<clock, stamp, response, program, exchange>>
Get(op) == pc = "idle" /\ SendGet(op, 0) /\ UNCHANGED reader

---------------------------------------------------------------------------
(* Orders are built and signed without the exchange.                       *)

\* OrderUtils.getOrderAmounts on its own, as the first thing; then the
\* program uses what it returned.
GetAmounts(q) ==
    /\ pc = "idle" /\ asked = 0 /\ api = NoObject /\ clock = 0
    /\ result = NoResult
    /\ pc' = "quoted"
    /\ result' = [is |-> "OrderAmount", of |-> q,
                  amounts |-> GetOrderAmounts(q.side, Decimal(q.size, q.places),
                                              Decimal(q.price, 4),
                                              FromTickSize(q.tick))]
    /\ UNCHANGED <<clock, call, local, program, reader, exchange>>
UseAmounts == /\ pc = "quoted" /\ Return("used")
              /\ UNCHANGED <<clock, program, reader, exchange>>

\* The program asks for one order, as often as it takes.
CreateSignedOrder(args) ==
    /\ pc = "idle" /\ asked < MaxAsked
    /\ signed # NULL => signed.args = args
    /\ IF args.side \in {BUY, SELL}
       THEN /\ signed' = SignedOrder(args, asked + 1) /\ asked' = asked + 1
            /\ Return("SignedOrder")
       ELSE UNCHANGED <<signed, asked>> /\ Return("Exception")
    /\ UNCHANGED <<clock, api, reader, exchange>>

---------------------------------------------------------------------------
(* A reader collects the pages of a listing, from the first to "LTE=".     *)

BeginReading(op) ==
    /\ pc = "idle" /\ asked = 0 /\ api = NoObject /\ clock = 0
    /\ \E n \in 0 .. MaxMarkets : there' = n /\ markets' = n
    /\ read' = NoMarkets
    /\ SendGet(op, 0)

\* Mutant: the next page is asked for without the cursor.
NextPageAgain ==
    /\ pc = "paging"
    /\ SendGet(call.op, 0)
    /\ UNCHANGED reader
NextPage ==
    /\ pc = "paging"
    /\ SendGet(call.op, call.cursor)
    /\ UNCHANGED reader

\* What is met more often counts as met twice.
Counted(page) ==
    [m \in 1 .. MaxMarkets |->
        IF m \in page.data /\ read[m] < 2 THEN read[m] + 1 ELSE read[m]]
DropReading == read' = NoMarkets /\ there' = 0 /\ markets' = 0

\* Mutant: the last page only ends the loop.
CollectButLast(page) ==
    /\ read' = IF page.next = END THEN read ELSE Counted(page)
    /\ UNCHANGED <<there, markets>>
    /\ IF page.next = END
       THEN /\ pc' = "read"
            /\ UNCHANGED <<call, stamp, request, response, result>>
       ELSE /\ pc' = "paging" /\ call' = Call(call.op, page.next)
            /\ request' = NoRequest /\ response' = NoResponse
            /\ UNCHANGED <<stamp, result>>
\* Mutant: the loop does not look for "LTE=".
CollectOn(page) ==
    /\ read' = Counted(page) /\ UNCHANGED <<there, markets>>
    /\ pc' = "paging" /\ call' = Call(call.op, page.next)
    /\ request' = NoRequest /\ response' = NoResponse
    /\ UNCHANGED <<stamp, result>>
Collect(page) ==
    /\ read' = Counted(page) /\ UNCHANGED <<there, markets>>
    /\ IF page.next = END
       THEN /\ pc' = "read"
            /\ UNCHANGED <<call, stamp, request, response, result>>
       ELSE /\ pc' = "paging" /\ call' = Call(call.op, page.next)
            /\ request' = NoRequest /\ response' = NoResponse
            /\ UNCHANGED <<stamp, result>>

\* What it read goes into the statistics, and is dropped.
EndReading ==
    /\ pc = "read" /\ Return("read") /\ DropReading
    /\ UNCHANGED <<clock, program, exchange>>

---------------------------------------------------------------------------
(* What an answer's body is parsed into: the status is not looked at.      *)

Throws(r) == Return(r) /\ DropReading /\ UNCHANGED <<program, clock, exchange>>
Returns(r) == Return(r) /\ UNCHANGED <<program, reader, clock, exchange>>

\* JSON.parseObject into APIKeyCredentials.
ParseKey ==
    /\ pc = "answered" /\ call.op \in L1Ops
    /\ IF response.kind = "page not found"
       THEN Return("JSONException") /\ UNCHANGED api
       ELSE /\ api' = CASE response.kind = "key" -> response.key
                        [] response.kind = "empty" -> NoObject
                        [] OTHER -> NoMembers
            /\ Return("APIKeyCredentials")
    /\ UNCHANGED <<clock, signed, asked, reader, exchange>>

\* The body is printed, whatever it is.
PrintAnswer == pc = "answered" /\ call.op \in L2Ops /\ Returns("printed")

\* A wrapper without next_cursor, or none, fails in the test of the loop.
ParsePage ==
    /\ pc = "answered" /\ call.op \in MarketOps
    /\ \/ /\ response.kind = "page" /\ Collect(response)
          /\ UNCHANGED <<clock, program, exchange>>
       \/ response.kind \in {"error", "empty"} /\ Throws("NullPointerException")
       \/ response.kind = "page not found" /\ Throws("JSONException")

\* An error is an object without members; getPrice wants a number, which no
\* object is, and has nothing to unbox when there is no body.
ParseQuote ==
    /\ pc = "answered" /\ call.op \in QuoteOps
    /\ \/ response.kind \in {"quote", "error"} /\ Returns("value")
       \/ /\ response.kind = "empty"
          /\ Returns(IF call.op = "getPrice" THEN "NullPointerException" ELSE "null")
       \/ /\ response.kind = "page not found" \/ call.op = "getPrice"
          /\ Returns("JSONException")

---------------------------------------------------------------------------
(* The exchange and the network: external.                                 *)

Timely(r) == clock - r.stamp <= Tolerance
Authentic(r) ==
    CASE r.level = 0 -> TRUE
      [] r.level = 1 -> /\ Timely(r)
                        /\ r.sig = [address |-> r.address, stamp |-> r.stamp]
      [] OTHER -> /\ Timely(r) /\ r.key = key
                  /\ r.sig = [secret |-> key,
                              message |-> [stamp |-> r.stamp, method |-> r.method,
                                           path |-> r.path, body |-> r.body]]

Page(cursor) ==
    LET last == IF cursor + PageSize >= markets THEN markets ELSE cursor + PageSize
    IN  [kind |-> "page", data |-> cursor + 1 .. last,
         next |-> IF last = markets THEN END ELSE last]

\* What the exchange does with an authentic request, and answers.
Served(answer) ==
    CASE request.path = "/auth/derive-api-key" /\ request.method = "POST" ->
             /\ issued < MaxKeys /\ issued' = issued + 1 /\ key' = issued + 1
             /\ answer = [kind |-> "key", key |-> issued + 1]
             /\ UNCHANGED book
      [] request.path = "/auth/derive-api-key" /\ request.method = "GET" ->
             /\ answer = IF key = 0 THEN [kind |-> "error"]
                         ELSE [kind |-> "key", key |-> key]
             /\ UNCHANGED exchange
      [] request.path = "/auth/api-key" ->
             /\ key' = 0 /\ answer = [kind |-> "text"]
             /\ UNCHANGED <<issued, book>>
      [] request.path = "/order" ->
             /\ book' = IF \E o \in book : o.signature = request.body.signature
                        THEN book ELSE book \cup {request.body}
             /\ answer = [kind |-> "text"]
             /\ UNCHANGED <<issued, key>>
      [] request.path \in {Path(op) : op \in MarketOps} ->
             answer = Page(request.cursor) /\ UNCHANGED exchange
      [] OTHER -> answer = [kind |-> "quote"] /\ UNCHANGED exchange

Answers == {[kind |-> k] : k \in {"error", "empty", "page not found", "text", "quote"}}
           \cup {[kind |-> "key", key |-> k] : k \in 1 .. MaxKeys}
           \cup {Page(c) : c \in 0 .. markets}
Answer(answer) ==
    /\ pc' = "answered" /\ response' = answer
    /\ UNCHANGED <<clock, call, stamp, request, result, program, reader>>

Serve == /\ pc = "sent" /\ Authentic(request)
         /\ \E answer \in Answers : Served(answer) /\ Answer(answer)
\* The exchange did what it was asked to; nobody heard of it.
LoseAnswer ==
    /\ pc = "sent" /\ Authentic(request)
    /\ \E answer \in Answers : Served(answer)
    /\ Return("IOException") /\ DropReading /\ UNCHANGED <<clock, program>>
LoseRequest == pc = "sent" /\ Throws("IOException")
\* The exchange refuses or is out of order.
Refuse ==
    /\ pc = "sent"
    /\ \E k \in {"error", "empty", "page not found"} : Answer([kind |-> k])
    /\ UNCHANGED exchange
List == /\ call.op \in MarketOps /\ markets < MaxMarkets /\ markets' = markets + 1
        /\ UNCHANGED <<clock, pc, call, local, result, program, read, there,
                       exchange>>

---------------------------------------------------------------------------
Answered == ParseKey \/ PrintAnswer \/ ParsePage \/ ParseQuote
Network == Serve \/ LoseAnswer \/ LoseRequest \/ Refuse
Begin ==
    \/ \E op \in L1Ops : CallL1(op)
    \/ \E op \in L2Ops : CallL2(op)
    \/ \E op \in QuoteOps : Get(op)
    \/ \E op \in MarketOps : BeginReading(op)
    \/ \E q \in Quotes : GetAmounts(q)
    \/ \E args \in OrderArgs : CreateSignedOrder(args)
Continue == SendL1 \/ SendL2 \/ NextPage \/ EndReading \/ UseAmounts \/ Answered

Next == Begin \/ Continue \/ Network \/ Tick \/ List
Spec == Init /\ [][Next]_vars
FairSpec == Spec /\ WF_vars(Continue) /\ WF_vars(Network)

---------------------------------------------------------------------------
(* Properties.                                                             *)

\* Every variable has its type.
ClobTypeOK ==
    /\ clock \in 0 .. MaxTime /\ stamp \in 0 .. MaxTime
    /\ pc \in {"idle", "signing", "sent", "answered", "paging", "read", "quoted"}
    /\ call.op \in L1Ops \cup L2Ops \cup MarketOps \cup QuoteOps \cup {"none"}
    /\ call.cursor \in 0 .. MaxMarkets
    /\ request.level \in -1 .. 2
    /\ api \in NoObject .. MaxKeys
    /\ asked \in 0 .. MaxAsked /\ (asked = 0 <=> signed = NULL)
    /\ read \in [1 .. MaxMarkets -> 0 .. 2] /\ there \in 0 .. MaxMarkets
    /\ issued \in 0 .. MaxKeys /\ key \in 0 .. issued
    /\ markets \in 0 .. MaxMarkets

\* What was signed is what is sent: the time of the header is the time in the
\* struct or under the MAC, whatever the clock did in between, and the MAC is
\* over the method, the path and the very body of the request, although it
\* is taken over a copy of the body with its quotes replaced
\* (AuthenticationHeaders.createL1Headers, createL2Headers).
SignedAsSent ==
    /\ request.level = 1 =>
           request.sig = [address |-> request.address, stamp |-> request.stamp]
    /\ request.level = 2 =>
           request.sig.message = [stamp |-> request.stamp, method |-> request.method,
                                  path |-> request.path, body |-> request.body]

\* No request is sent under credentials the exchange never issued: what an
\* error answer was parsed into does not get as far as the network, it ends
\* in the decoding of its secret (AuthenticationRequests, HMAC_SHA256).
OnlyIssued == request.level = 2 => request.key \in 1 .. issued

\* The exchange takes an order at most once for every createSignedOrder, even
\* when placeOrder is repeated after an answer was lost: the salt belongs to
\* the signed order, not to its placing (OrderBuilder, OrderRequests).
PlacedOnce == Cardinality(book) <= asked

\* The i-th of the eleven words behind the salt, and its last INT bytes.
Word(bytes, i) ==
    SubSeq(bytes, Len(bytes) - (12 - i) * WORD + 1, Len(bytes) - (11 - i) * WORD)
LowBytes(word) == SubSeq(word, WORD - INT + 1, WORD)

\* The word says n: the whole word if n is not negative, and modulo the
\* numbers an int can tell apart whatever it is.
WordSays(word, n) ==
    /\ Unsigned(LowBytes(word)) = n % BYTE ^ INT
    /\ n >= 0 => Unsigned(word) = n

\* The bytes under the signature, cut into words of WORD bytes from the end,
\* are the order that was asked for: the token in its full range, whatever
\* the length of toByteArray, the amounts of its size and price, and dates
\* and nonces, of which the negative ones can be told apart by their last
\* bytes (OrderBuilder, OrderStruct.encodeData, EIP712Signature,
\* OrderArgs.pad64).
SignedAsAsked ==
    signed # NULL =>
        LET args == signed.args
            amounts == AmountsOf(args)
            word(i) == Word(signed.sig[2], i)
        IN  /\ \A i \in 1 .. 2 : word(i) = Zeros(WORD - ADDRESS) \o Own
            /\ Unsigned(word(3)) = 0
            /\ Unsigned(word(4)) = args.tokenId
            /\ WordSays(word(5), amounts.makerAmount)
            /\ WordSays(word(6), amounts.takerAmount)
            /\ WordSays(word(7), args.expiration)
            /\ WordSays(word(8), args.nonce)
            /\ WordSays(word(10), args.side)
            /\ signed.sig[1] = args.negativeRisk

\* What is placed says in numbers what was signed in bytes, for the tokens in
\* the lower half of the range: SignedOrder.toString reads the token's word
\* as a signed number.
PlacedAsSigned ==
    \A o \in book :
        LET word(i) == Unsigned(Word(o.signature[2], i))
        IN  /\ o.tokenId = word(4) \/ 2 * word(4) >= BYTE ^ WORD
            /\ o.makerAmount = word(5) /\ o.takerAmount = word(6)
            /\ o.expiration >= 0 => o.expiration = word(7)
            /\ o.nonce >= 0 => o.nonce = word(8)
            /\ o.side = (IF word(10) = BUY THEN "BUY" ELSE "SELL")

\* The price a quote asks for, at the tick of its market; and what its size
\* is worth at that price, in thousandths of a unit.
TickPrice(q) ==
    LET tick == 10 ^ (4 - FromTickSize(q.tick).price)
    IN  ((q.price + tick \div 2) \div tick) * tick
Worth(q) == (q.size * TickPrice(q)) \div 10000

\* The tokens an order is for, and the units it offers or asks for them.
Tokens(q, a) == IF q.side = BUY THEN a.takerAmount ELSE a.makerAmount
Units(q, a) == IF q.side = BUY THEN a.makerAmount ELSE a.takerAmount

\* Whichever of the fallbacks of the rounding its amounts went through, an
\* order is for the size it was asked for, as far as floats, whole tokens
\* and ints can say it; no purchase offers more than one unit for a token,
\* none offers, and no sale asks for, less than the size is worth at its
\* price.  Being rounded to hundredths, tenths and units moves an amount by
\* .55 at most, and a size below 1 that is squared by some more
\* (OrderUtils.getOrderAmounts).
AmountsBounded ==
    result.is = "OrderAmount" =>
        LET q == result.of
            tokens == Tokens(q, result.amounts)
            units == Units(q, result.amounts)
            largest == MaxInt \div 10
        IN  /\ IF q.places = 0
               THEN \/ tokens - q.size \in -16 .. 16
                    \/ q.size > largest /\ tokens - largest \in 0 .. 16
               ELSE 1000 * tokens - q.size \in -450 .. 550
            /\ q.side = BUY => units <= tokens
            /\ q.places = 3 => 1000 * units >= Worth(q) - 675

\* A reader that gets to "LTE=" has met every market that was listed when it
\* began, and none twice, while others are being listed (MarketRequests,
\* MarketEndpointTest.getMarketsAndRecurse).
ReadsAll ==
    pc = "read" => \A m \in 1 .. MaxMarkets :
                       read[m] <= 1 /\ (m <= there => read[m] = 1)

\* Every call comes to an end, a reader's loop over the pages as well
\* (Requests.client, MarketEndpointTest.getMarketsAndRecurse).
CallEnds == pc # "idle" ~> pc = "idle"

\* A word like all others; a number that reads back; the same number on both
\* ways out; and, for either side of the trade, as many units as the tokens
\* are worth at the price, rounded.
SaltIsU256(s) == Len(s.order.salt) = WORD
IntsSigned(s) == Signed(Word(s.sig[2], 7)) = s.args.expiration
TokenSentAsSigned(s) ==
    OrderToJson(s.order, s.sig, api, "GTC").tokenId = Unsigned(Word(s.sig[2], 4))
Priced(s, side) ==
    LET args == [s.args EXCEPT !.side = side]
    IN  1000 * Units(args, AmountsOf(args)) - Worth(args) \in -560 .. 560

\* A signed order is what the comments of the bindings say of it: its salt is
\* a "u256" (OrderStruct.salt, EIP712Signature.randomU256), its date went
\* from "signed32 int -> signed256 int" (EIP712Signature.encodeInt), its
\* token, a "u256", is sent as it was signed (OrderStruct.tokenId,
\* SignedOrder.toString), and its amounts "fit to spec" with the price they
\* are asked for (OrderUtils.getOrderAmounts, README.md).
OrderAsCommented ==
    signed # NULL => /\ SaltIsU256(signed)
                     /\ IntsSigned(signed)
                     /\ TokenSentAsSigned(signed)
                     /\ \A side \in {BUY, SELL} : Priced(signed, side)
=============================================================================
