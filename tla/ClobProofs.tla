----------------------------- MODULE ClobProofs -----------------------------
(***************************************************************************)
(* For any bounds, tolerance and page size: what is sent is what was       *)
(* signed, under credentials that were issued, what was signed is what was *)
(* asked for, and a reader meets every market once.                        *)
(***************************************************************************)
EXTENDS Clob, FiniteSetTheorems, NaturalsInduction, WellFoundedInduction,
        SequenceTheorems, TLAPS

(* The credentials: a key comes from an answer, an answer's key was issued *)
(* before it was answered, and only a key gets as far as the headers.      *)
KeysInv ==
    /\ issued \in Nat /\ key \in 0 .. issued
    /\ api \in NoObject .. issued
    /\ pc = "signing" /\ call.op \in L2Ops => api \in 1 .. issued
    /\ pc = "answered" /\ response.kind = "key" => response.key \in 1 .. issued
    /\ OnlyIssued

(* The reader: it has met the markets up to its cursor, once.              *)
Met(last) == read = [m \in 1 .. MaxMarkets |-> IF m <= last THEN 1 ELSE 0]
PageInv(page) ==
    \E last \in call.cursor .. markets :
        /\ page.data = call.cursor + 1 .. last
        /\ \/ page.next = END /\ there <= last
           \/ page.next = last
ReaderInv ==
    /\ markets \in Nat /\ there \in 0 .. markets
    /\ call.op \in MarketOps =>
           /\ call.cursor \in 0 .. markets
           /\ pc # "read" => Met(call.cursor)
           /\ pc = "sent" => /\ request.level = 0 /\ request.path = Path(call.op)
                             /\ request.method = "GET"
                             /\ request.cursor = call.cursor
           /\ pc = "answered" /\ response.kind = "page" => PageInv(response)
    /\ pc \in {"paging", "read"} => call.op \in MarketOps
    /\ pc = "read" => \E last \in Nat : there <= last /\ Met(last)

(* The orders: what a program holds was signed with the last salt, and what *)
(* it places and the exchange took with one of the salts so far.            *)
Salted(n) == SignedOrder(signed.args, n)
Placed(s, k) == OrderToJson(s.order, s.sig, k, "GTC")
Took(o) == \E n \in 1 .. asked : \E k : o = Placed(Salted(n), k)
OrdersInv ==
    /\ asked \in 0 .. MaxAsked
    /\ signed = NULL => book = {}
    /\ signed # NULL => /\ asked > 0 /\ signed = Salted(asked)
                        /\ signed.args \in OrderArgs /\ signed.args.side \in {BUY, SELL}
    /\ pc = "signing" /\ call.op = "placeOrder" => signed # NULL
    /\ pc = "sent" /\ request.path = "/order" =>
           signed # NULL /\ \E k : request.body = Placed(signed, k)
    /\ \A o \in book : Took(o)
    /\ \A o, p \in book : o.signature = p.signature => o = p

---------------------------------------------------------------------------
\* A body has no single quotes, so the copy that is signed is the body.
LEMMA BodyUnchanged == ASSUME NEW op PROVE Replaced(Body(op)) = Body(op)
<1>1. CASE op = "placeOrder"
  <2>1. Body(op).quotes = "double"
    BY <1>1 DEF Body, OrderToJson
  <2>2. QED
    BY <2>1 DEF Replaced
<1>2. CASE op # "placeOrder"
  <2>1. Body(op).quotes = "none"
    BY <1>2 DEF Body, NoBody
  <2>2. QED
    BY <2>1 DEF Replaced
<1>3. QED
  BY <1>1, <1>2

\* Who sets the request: the three senders and the return of a call.
LEMMA RequestSteps ==
    ASSUME [Next]_vars
    PROVE  \/ request' = request
           \/ request' = NoRequest
           \/ SendL1
           \/ SendL2
           \/ \E op, cursor : SendGet(op, cursor)
<1> USE DEF Return, Returns, Throws, Answer, reader, local
<1>1. CASE Begin
  BY <1>1 DEF Begin, CallL1, CallL2, Get, BeginReading, GetAmounts, CreateSignedOrder
<1>2. CASE Continue
  <2>1. CASE Answered
    BY <2>1 DEF Answered, ParseKey, PrintAnswer, ParsePage, ParseQuote, Collect
  <2>2. CASE SendL1 \/ SendL2 \/ NextPage \/ EndReading \/ UseAmounts
    BY <2>2 DEF NextPage, EndReading, UseAmounts
  <2>3. QED
    BY <1>2, <2>1, <2>2 DEF Continue
<1>3. CASE Network
  BY <1>3 DEF Network, Serve, LoseAnswer, LoseRequest, Refuse
<1>4. CASE Tick \/ List
  BY <1>4 DEF Tick, List
<1>5. CASE UNCHANGED vars
  BY <1>5 DEF vars
<1>6. QED
  BY <1>1, <1>2, <1>3, <1>4, <1>5 DEF Next

\* What was signed is what is sent (AuthenticationHeaders.createL1Headers,
\* createL2Headers).
THEOREM SentAsSigned == Spec => []SignedAsSent
<1>1. Init => SignedAsSent
  BY DEF Init, SignedAsSent, NoRequest
<1>2. SignedAsSent /\ [Next]_vars => SignedAsSent'
  <2> SUFFICES ASSUME SignedAsSent, [Next]_vars PROVE SignedAsSent'
    OBVIOUS
  <2>1. CASE request' = request
    BY <2>1 DEF SignedAsSent
  <2>2. CASE request' = NoRequest
    BY <2>2 DEF SignedAsSent, NoRequest
  <2>3. CASE SendL1
    BY <2>3 DEF SendL1, Send, SignedAsSent
  <2>4. CASE SendL2
    <3>1. request'.level = 2
      BY <2>4 DEF SendL2, Send
    <3>2. request'.sig.message = [stamp |-> stamp, method |-> Method(call.op),
                                  path |-> Path(call.op), body |-> Body(call.op)]
      BY <2>4, BodyUnchanged DEF SendL2, Send, Message
    <3>3. /\ request'.stamp = stamp /\ request'.method = Method(call.op)
          /\ request'.path = Path(call.op) /\ request'.body = Body(call.op)
      BY <2>4 DEF SendL2, Send
    <3>4. QED
      BY <3>1, <3>2, <3>3 DEF SignedAsSent
  <2>5. CASE \E op, cursor : SendGet(op, cursor)
    BY <2>5 DEF SendGet, SignedAsSent
  <2>6. QED
    BY <2>1, <2>2, <2>3, <2>4, <2>5, RequestSteps
<1>3. QED
  BY <1>1, <1>2, PTL DEF Spec

---------------------------------------------------------------------------
\* The exchange numbers its keys and answers with the one in force.
LEMMA ServedKeys ==
    ASSUME KeysInv, NEW answer \in Answers, Served(answer)
    PROVE  /\ issued' \in Nat /\ issued <= issued' /\ key' \in 0 .. issued'
           /\ answer.kind = "key" => answer.key \in 1 .. issued'
<1> USE DEF KeysInv, Served, exchange, Page
<1>1. CASE request.path = "/auth/derive-api-key" /\ request.method = "POST"
  BY <1>1
<1>2. CASE request.path = "/auth/derive-api-key" /\ request.method = "GET"
  BY <1>2
<1>3. CASE request.path = "/auth/api-key"
  BY <1>3
<1>4. CASE request.path = "/order"
  BY <1>4
<1>5. CASE request.path \in {Path(op) : op \in MarketOps}
  BY <1>5 
<1>6. CASE request.path \notin {"/auth/api-key", "/order"}
           /\ ~(request.path = "/auth/derive-api-key" /\ request.method = "POST")
           /\ ~(request.path = "/auth/derive-api-key" /\ request.method = "GET")
           /\ request.path \notin {Path(op) : op \in MarketOps}
  BY <1>6
<1>7. QED
  BY <1>1, <1>2, <1>3, <1>4, <1>5, <1>6

LEMMA KeysStep == KeysInv /\ [Next]_vars => KeysInv'
<1> SUFFICES ASSUME KeysInv, [Next]_vars PROVE KeysInv'
  OBVIOUS
<1> USE DEF KeysInv, OnlyIssued, NoObject, NoMembers, exchange, program, local
<1>1. CASE Begin
  <2>1. ASSUME NEW op \in L1Ops, CallL1(op) PROVE KeysInv'
    BY <2>1 DEF CallL1, Call, L1Ops, L2Ops
  <2>2. ASSUME NEW op \in L2Ops, CallL2(op) PROVE KeysInv'
    <3>1. CASE api \in {NoObject, NoMembers}
      BY <2>2, <3>1 DEF CallL2, Return, NoRequest
    <3>2. CASE api \notin {NoObject, NoMembers}
      <4>1. api \in 1 .. issued
        BY <3>2
      <4>2. QED
        BY <2>2, <3>2, <4>1 DEF CallL2
    <3>3. QED
      BY <3>1, <3>2
  <2>3. ASSUME NEW op, NEW cursor, SendGet(op, cursor) PROVE KeysInv'
    <3>1. request'.level = 0 /\ pc' = "sent" /\ UNCHANGED <<issued, key, api>>
      BY <2>3 DEF SendGet
    <3>2. QED
      BY <3>1
  <2>4. ASSUME NEW q \in Quotes, GetAmounts(q) PROVE KeysInv'
    <3>1. pc' = "quoted" /\ UNCHANGED <<request, issued, key, api>>
      BY <2>4 DEF GetAmounts
    <3>2. QED
      BY <3>1
  <2>5. ASSUME NEW args \in OrderArgs, CreateSignedOrder(args) PROVE KeysInv'
    BY <2>5 DEF CreateSignedOrder, Return, NoRequest
  <2>6. QED
    BY <1>1, <2>1, <2>2, <2>3, <2>4, <2>5 DEF Begin, Get, BeginReading
<1>2. CASE Continue
  <2>1. CASE SendL1
    BY <2>1 DEF SendL1, Send
  <2>2. CASE SendL2
    BY <2>2 DEF SendL2, Send
  <2>3. CASE NextPage
    <3>1. request'.level = 0 /\ pc' = "sent" /\ UNCHANGED <<issued, key, api>>
      BY <2>3 DEF NextPage, SendGet
    <3>2. QED
      BY <3>1
  <2>4. CASE EndReading \/ UseAmounts
    BY <2>4 DEF EndReading, UseAmounts, Return, NoRequest
  <2>5. CASE ParseKey
    <3>1. pc' = "idle" /\ request' = NoRequest /\ UNCHANGED <<issued, key>>
      BY <2>5 DEF ParseKey, Return
    <3>2. CASE response.kind = "page not found"
      <4>1. api' = api
        BY <2>5, <3>2 DEF ParseKey
      <4>2. QED
        BY <3>1, <4>1 DEF NoRequest
    <3>3. CASE response.kind = "key"
      <4>1. api' = response.key
        BY <2>5, <3>3 DEF ParseKey
      <4>2. response.key \in 1 .. issued
        BY <2>5, <3>3 DEF ParseKey
      <4>3. QED
        BY <3>1, <4>1, <4>2 DEF NoRequest
    <3>4. CASE response.kind \notin {"page not found", "key"}
      <4>1. api' \in {NoObject, NoMembers}
        BY <2>5, <3>4 DEF ParseKey
      <4>2. QED
        BY <3>1, <4>1 DEF NoRequest
    <3>5. QED
      BY <3>2, <3>3, <3>4
  <2>6. CASE PrintAnswer \/ ParseQuote
    <3>1. pc' = "idle" /\ request' = NoRequest /\ UNCHANGED <<issued, key, api>>
      BY <2>6 DEF PrintAnswer, ParseQuote, Returns, Return
    <3>2. QED
      BY <3>1 DEF NoRequest
  <2>7. CASE ParsePage
    <3>1. CASE Collect(response) /\ UNCHANGED <<issued, key, api>>
      BY <3>1 DEF Collect, NoRequest
    <3>2. ASSUME NEW r, Throws(r) PROVE KeysInv'
      BY <3>2 DEF Throws, Return, NoRequest
    <3>3. QED
      BY <2>7, <3>1, <3>2 DEF ParsePage
  <2>8. QED
    BY <1>2, <2>1, <2>2, <2>3, <2>4, <2>5, <2>6, <2>7 DEF Continue, Answered
<1>3. CASE Network
  <2>1. CASE Serve
    <3>1. PICK answer \in Answers : Served(answer) /\ Answer(answer)
      BY <2>1 DEF Serve
    <3>2. QED
      BY <3>1, ServedKeys DEF Answer
  <2>2. CASE LoseAnswer
    <3>1. PICK answer \in Answers : Served(answer)
      BY <2>2 DEF LoseAnswer
    <3>2. QED
      BY <2>2, <3>1, ServedKeys DEF LoseAnswer, Return, NoRequest
  <2>3. CASE LoseRequest
    BY <2>3 DEF LoseRequest, Throws, Return, NoRequest
  <2>4. CASE Refuse
    <3>1. PICK k \in {"error", "empty", "page not found"} : Answer([kind |-> k])
      BY <2>4 DEF Refuse
    <3>2. response'.kind # "key" /\ pc' = "answered"
          /\ UNCHANGED <<request, issued, key, api>>
      BY <2>4, <3>1 DEF Refuse, Answer
    <3>3. QED
      BY <3>2
  <2>5. QED
    BY <1>3, <2>1, <2>2, <2>3, <2>4 DEF Network
<1>4. CASE Tick \/ List
  BY <1>4 DEF Tick, List
<1>5. CASE UNCHANGED vars
  BY <1>5 DEF vars
<1>6. QED
  BY <1>1, <1>2, <1>3, <1>4, <1>5 DEF Next

\* No request is sent under credentials that were never issued
\* (AuthenticationRequests, HMAC_SHA256.buildHMACSignature).
THEOREM IssuedOnly == Spec => []OnlyIssued
<1>1. Init => KeysInv
  BY DEF Init, KeysInv, OnlyIssued, NoRequest, NoObject
<1>2. KeysInv => OnlyIssued
  BY DEF KeysInv
<1>3. QED
  BY <1>1, <1>2, KeysStep, PTL DEF Spec

---------------------------------------------------------------------------
\* A call that is no reader's leaves a state a reader may begin in.
LEMMA NotReading ==
    ASSUME ReaderInv, call'.op \notin MarketOps, pc' \notin {"paging", "read"},
           \/ UNCHANGED <<there, markets>>
           \/ there' = 0 /\ markets' = 0
    PROVE  ReaderInv'
BY DEF ReaderInv

LEMMA OtherOps ==
    /\ "none" \notin MarketOps
    /\ \A op \in L1Ops \cup L2Ops \cup QuoteOps : op \notin MarketOps
BY DEF MarketOps, L1Ops, L2Ops, QuoteOps

\* What a page adds to what was met up to the cursor.
LEMMA CountedMet ==
    ASSUME NEW page, NEW last \in Nat, call.cursor \in 0 .. last,
           page.data = call.cursor + 1 .. last, Met(call.cursor)
    PROVE  Counted(page) = [m \in 1 .. MaxMarkets |-> IF m <= last THEN 1 ELSE 0]
<1>1. ASSUME NEW m \in 1 .. MaxMarkets
      PROVE  (IF m \in page.data /\ read[m] < 2 THEN read[m] + 1 ELSE read[m])
                 = (IF m <= last THEN 1 ELSE 0)
  <2>1. read[m] = IF m <= call.cursor THEN 1 ELSE 0
    BY DEF Met
  <2>2. CASE m <= call.cursor
    BY <2>1, <2>2, ClobAssumption
  <2>3. CASE m > call.cursor
    BY <2>1, <2>3, ClobAssumption
  <2>4. QED
    BY <2>2, <2>3, ClobAssumption
<1>2. QED
  BY <1>1 DEF Counted

LEMMA CollectKeeps ==
    ASSUME ReaderInv, pc = "answered", call.op \in MarketOps,
           response.kind = "page", Collect(response)
    PROVE  ReaderInv'
<1>1. PICK last \in call.cursor .. markets :
          /\ response.data = call.cursor + 1 .. last
          /\ \/ response.next = END /\ there <= last
             \/ response.next = last
  BY DEF ReaderInv, PageInv
<1>2. /\ markets \in Nat /\ there \in 0 .. markets /\ call.cursor \in 0 .. markets
      /\ Met(call.cursor) /\ last \in Nat /\ call.cursor \in 0 .. last
  BY <1>1 DEF ReaderInv
<1>3. read' = [m \in 1 .. MaxMarkets |-> IF m <= last THEN 1 ELSE 0]
  BY <1>1, <1>2, CountedMet DEF Collect
<1>4. CASE response.next = END
  <2>1. last # END /\ there <= last
    BY <1>1, <1>2, <1>4 DEF END
  <2>2. pc' = "read" /\ UNCHANGED <<call, there, markets>>
    BY <1>4 DEF Collect
  <2>3. QED
    BY <1>2, <1>3, <2>1, <2>2 DEF ReaderInv, Met
<1>5. CASE response.next # END
  <2>1. response.next = last
    BY <1>1, <1>5
  <2>2. pc' = "paging" /\ call'.op = call.op /\ call'.cursor = last
        /\ UNCHANGED <<there, markets>>
    BY <1>5, <2>1 DEF Collect, Call
  <2>3. QED
    BY <1>1, <1>2, <1>3, <2>2 DEF ReaderInv, Met
<1>6. QED
  BY <1>4, <1>5

\* A page goes from the cursor on, and is the last one only if it holds the
\* last market.
LEMMA ServedPage ==
    ASSUME ReaderInv, pc = "sent", call.op \in MarketOps,
           NEW answer \in Answers, Served(answer)
    PROVE  PageInv(answer)
<1>1. /\ request.path = Path(call.op) /\ request.method = "GET"
      /\ request.cursor = call.cursor /\ call.cursor \in 0 .. markets
      /\ markets \in Nat /\ there \in 0 .. markets
  BY DEF ReaderInv
<1>2. request.path \notin {"/auth/derive-api-key", "/auth/api-key", "/order"}
  BY <1>1 DEF Path, MarketOps, L1Ops
<1>3. request.path \in {Path(op) : op \in MarketOps}
  BY <1>1
<1>4. answer = Page(call.cursor)
  BY <1>1, <1>2, <1>3 DEF Served
<1>5. PICK last : /\ last = IF call.cursor + PageSize >= markets THEN markets
                            ELSE call.cursor + PageSize
                  /\ answer.data = call.cursor + 1 .. last
                  /\ answer.next = IF last = markets THEN END ELSE last
  BY <1>4 DEF Page
<1>6. last \in call.cursor .. markets
  BY <1>1, <1>5, ClobAssumption
<1>7. QED
  BY <1>1, <1>5, <1>6 DEF PageInv

LEMMA ReaderStep == ReaderInv /\ [Next]_vars => ReaderInv'
<1> SUFFICES ASSUME ReaderInv, [Next]_vars PROVE ReaderInv'
  OBVIOUS
<1> USE OtherOps DEF reader, exchange, local, program
<1>0. ASSUME NEW r, Return(r), UNCHANGED <<there, markets>> \/ DropReading
      PROVE  ReaderInv'
  <2>1. pc' = "idle" /\ call'.op = "none"
        /\ (UNCHANGED <<there, markets>> \/ (there' = 0 /\ markets' = 0))
    BY <1>0 DEF Return, NoCall, DropReading
  <2>2. QED
    BY <2>1, NotReading
<1>1. CASE Begin
  <2>1. ASSUME NEW op \in L1Ops, CallL1(op) PROVE ReaderInv'
    <3>1. pc' = "signing" /\ call'.op = op /\ UNCHANGED <<there, markets>>
      BY <2>1 DEF CallL1, Call
    <3>2. QED
      BY <3>1, NotReading
  <2>2. ASSUME NEW op \in L2Ops, CallL2(op) PROVE ReaderInv'
    <3>1. CASE Return("NullPointerException")
      BY <2>2, <3>1, <1>0 DEF CallL2
    <3>2. CASE ~ Return("NullPointerException")
      <4>1. pc' = "signing" /\ call'.op = op /\ UNCHANGED <<there, markets>>
        BY <2>2, <3>2 DEF CallL2, Call
      <4>2. QED
        BY <4>1, NotReading
    <3>3. QED
      BY <3>1, <3>2
  <2>3. ASSUME NEW op \in QuoteOps, Get(op) PROVE ReaderInv'
    <3>1. pc' = "sent" /\ call'.op = op /\ UNCHANGED <<there, markets>>
      BY <2>3 DEF Get, SendGet, Call
    <3>2. QED
      BY <3>1, NotReading
  <2>4. ASSUME NEW op \in MarketOps, BeginReading(op) PROVE ReaderInv'
    <3>1. PICK n \in 0 .. MaxMarkets : there' = n /\ markets' = n
      BY <2>4 DEF BeginReading
    <3>2. /\ pc' = "sent" /\ call'.op = op /\ call'.cursor = 0
          /\ read' = [m \in 1 .. MaxMarkets |-> 0]
      BY <2>4 DEF BeginReading, SendGet, Call, NoMarkets
    <3>3. /\ request'.level = 0 /\ request'.path = Path(op)
          /\ request'.method = "GET" /\ request'.cursor = 0
      BY <2>4 DEF BeginReading, SendGet
    <3>4. read' = [m \in 1 .. MaxMarkets |-> IF m <= 0 THEN 1 ELSE 0]
      BY <3>2, ClobAssumption
    <3>5. Path(op) = Path(call'.op)
      BY <3>2
    <3>6. QED
      BY <3>1, <3>2, <3>3, <3>4, <3>5, ClobAssumption DEF ReaderInv, Met, Path, L1Ops
  <2>5. ASSUME NEW q \in Quotes, GetAmounts(q), pc = "idle" PROVE ReaderInv'
    <3>1. /\ pc' = "quoted" /\ UNCHANGED <<call, read, there, markets>>
      BY <2>5 DEF GetAmounts
    <3>2. QED
      BY <2>5, <3>1 DEF ReaderInv, Met
  <2>6. ASSUME NEW args \in OrderArgs, CreateSignedOrder(args) PROVE ReaderInv'
    <3>1. PICK r \in {"SignedOrder", "Exception"} : Return(r)
      BY <2>6 DEF CreateSignedOrder
    <3>2. QED
      BY <2>6, <3>1, <1>0 DEF CreateSignedOrder
  <2>7. QED
    BY <1>1, <2>1, <2>2, <2>3, <2>4, <2>5, <2>6 DEF Begin, GetAmounts
<1>2. CASE Continue
  <2>1. CASE SendL1 \/ SendL2
    <3>1. /\ pc' = "sent" /\ call' = call /\ call.op \in L1Ops \cup L2Ops
          /\ UNCHANGED <<there, markets>>
      BY <2>1 DEF SendL1, SendL2, Send
    <3>2. QED
      BY <3>1, NotReading
  <2>2. CASE NextPage
    <3>1. /\ pc = "paging" /\ call.op \in MarketOps /\ Met(call.cursor)
          /\ call.cursor \in 0 .. markets
      BY <2>2 DEF NextPage, ReaderInv
    <3>2. /\ pc' = "sent" /\ call'.op = call.op /\ call'.cursor = call.cursor
          /\ UNCHANGED <<read, there, markets>>
      BY <2>2 DEF NextPage, SendGet, Call
    <3>3. /\ request'.level = 0 /\ request'.path = Path(call.op)
          /\ request'.method = "GET" /\ request'.cursor = call.cursor
      BY <2>2 DEF NextPage, SendGet
    <3>4. Path(call.op) = Path(call'.op)
      BY <3>2
    <3>5. QED
      BY <3>1, <3>2, <3>3, <3>4 DEF ReaderInv, Met, Path, L1Ops
  <2>3. CASE EndReading
    BY <2>3, <1>0 DEF EndReading
  <2>4. CASE UseAmounts
    BY <2>4, <1>0 DEF UseAmounts
  <2>5. CASE ParseKey
    <3>1. PICK r \in {"JSONException", "APIKeyCredentials"} : Return(r)
      BY <2>5 DEF ParseKey
    <3>2. QED
      BY <2>5, <3>1, <1>0 DEF ParseKey
  <2>6. CASE PrintAnswer \/ ParseQuote
    <3>1. PICK r : Returns(r)
      BY <2>6 DEF PrintAnswer, ParseQuote
    <3>2. QED
      BY <3>1, <1>0 DEF Returns
  <2>7. CASE ParsePage
    <3>1. ASSUME NEW r, Throws(r) PROVE ReaderInv'
      BY <3>1, <1>0 DEF Throws
    <3>2. QED
      BY <2>7, <3>1, CollectKeeps DEF ParsePage
  <2>8. QED
    BY <1>2, <2>1, <2>2, <2>3, <2>4, <2>5, <2>6, <2>7 DEF Continue, Answered
<1>3. CASE Network
  <2>1. ASSUME NEW answer, Answer(answer), pc = "sent",
               call.op \in MarketOps /\ answer.kind = "page" => PageInv(answer)
        PROVE  ReaderInv'
    <3>1. /\ pc' = "answered" /\ response' = answer
          /\ UNCHANGED <<call, request, read, there, markets>>
      BY <2>1 DEF Answer
    <3>2. QED
      BY <2>1, <3>1 DEF ReaderInv, Met, PageInv
  <2>2. CASE Serve
    <3>1. PICK answer \in Answers : Served(answer) /\ Answer(answer)
      BY <2>2 DEF Serve
    <3>2. QED
      BY <2>1, <2>2, <3>1, ServedPage DEF Serve
  <2>3. CASE LoseAnswer \/ LoseRequest
    BY <2>3, <1>0 DEF LoseAnswer, LoseRequest, Throws
  <2>4. CASE Refuse
    <3>1. PICK k \in {"error", "empty", "page not found"} : Answer([kind |-> k])
      BY <2>4 DEF Refuse
    <3>2. QED
      BY <2>1, <2>4, <3>1 DEF Refuse
  <2>5. QED
    BY <1>3, <2>2, <2>3, <2>4 DEF Network
<1>4. CASE Tick
  <2>1. UNCHANGED <<pc, call, request, response, read, there, markets>>
    BY <1>4 DEF Tick
  <2>2. QED
    BY <2>1 DEF ReaderInv, Met, PageInv
<1>5. CASE List
  <2>1. /\ UNCHANGED <<pc, call, request, response, read, there>>
        /\ markets' = markets + 1
    BY <1>5 DEF List
  <2>2. QED
    BY <2>1 DEF ReaderInv, Met, PageInv
<1>6. CASE UNCHANGED vars
  <2>1. UNCHANGED <<pc, call, request, response, read, there, markets>>
    BY <1>6 DEF vars
  <2>2. QED
    BY <2>1 DEF ReaderInv, Met, PageInv
<1>7. QED
  BY <1>1, <1>2, <1>3, <1>4, <1>5, <1>6 DEF Next

LEMMA Reading == Spec => []ReaderInv
<1>1. Init => ReaderInv
  BY OtherOps DEF Init, ReaderInv, NoCall
<1>2. QED
  BY <1>1, ReaderStep, PTL DEF Spec

\* A reader that gets to the last cursor has met every market that was listed
\* when it began, and none twice, for any size of the pages
\* (MarketRequests, MarketEndpointTest.getMarketsAndRecurse).
THEOREM AllRead == Spec => []ReadsAll
<1>1. ReaderInv => ReadsAll
  <2> SUFFICES ASSUME ReaderInv, pc = "read", NEW m \in 1 .. MaxMarkets
               PROVE  read[m] <= 1 /\ (m <= there => read[m] = 1)
    BY DEF ReadsAll
  <2>1. PICK last \in Nat : there <= last /\ Met(last)
    BY DEF ReaderInv
  <2>2. read[m] = IF m <= last THEN 1 ELSE 0
    BY <2>1 DEF Met
  <2>3. there \in Nat /\ m \in Nat
    BY ClobAssumption DEF ReaderInv
  <2>4. QED
    BY <2>1, <2>2, <2>3
<1>2. QED
  BY <1>1, Reading, PTL

---------------------------------------------------------------------------
\* Only "/order" touches the book: it adds the body, if its signature is new.
LEMMA ServedBook ==
    ASSUME NEW answer, Served(answer)
    PROVE  \/ book' = book
           \/ /\ request.path = "/order"
              /\ \A o \in book : o.signature # request.body.signature
              /\ book' = book \cup {request.body}
<1> USE DEF Served, exchange
<1>1. CASE request.path = "/auth/derive-api-key" /\ request.method = "POST"
  BY <1>1
<1>2. CASE request.path = "/auth/derive-api-key" /\ request.method = "GET"
  BY <1>2
<1>3. CASE request.path = "/auth/api-key"
  BY <1>3
<1>4. CASE request.path = "/order"
  BY <1>4
<1>5. CASE request.path \in {Path(op) : op \in MarketOps}
  BY <1>5
<1>6. CASE request.path \notin {"/auth/api-key", "/order"}
           /\ ~(request.path = "/auth/derive-api-key" /\ request.method = "POST")
           /\ ~(request.path = "/auth/derive-api-key" /\ request.method = "GET")
           /\ request.path \notin {Path(op) : op \in MarketOps}
  BY <1>6
<1>7. QED
  BY <1>1, <1>2, <1>3, <1>4, <1>5, <1>6

\* Taking an order keeps the book's signatures apart.
LEMMA TakenOrder ==
    ASSUME OrdersInv, pc = "sent", NEW answer, Served(answer),
           UNCHANGED <<asked, signed>>, pc' \notin {"signing", "sent"}
    PROVE  OrdersInv'
<1>1. \A o : Took(o)' <=> Took(o)
  BY DEF Took, Salted
<1>2. Salted(asked)' = Salted(asked)
  BY DEF Salted
<1>3. CASE book' = book
  BY <1>1, <1>2, <1>3 DEF OrdersInv
<1>4. CASE /\ request.path = "/order"
           /\ \A o \in book : o.signature # request.body.signature
           /\ book' = book \cup {request.body}
  <2>1. signed # NULL /\ \E k : request.body = Placed(signed, k)
    BY <1>4 DEF OrdersInv
  <2>2. signed = Salted(asked) /\ asked \in 1 .. asked
    BY <2>1 DEF OrdersInv
  <2>3. Took(request.body)
    BY <2>1, <2>2 DEF Took
  <2>4. \A o \in book' : Took(o)'
    BY <1>1, <1>4, <2>3 DEF OrdersInv
  <2>5. \A o, p \in book' : o.signature = p.signature => o = p
    BY <1>4 DEF OrdersInv
  <2>6. QED
    BY <1>2, <2>1, <2>4, <2>5 DEF OrdersInv
<1>5. QED
  BY <1>3, <1>4, ServedBook

\* A step that neither signs nor places leaves everything as it is.
LEMMA NoOrder ==
    ASSUME OrdersInv, UNCHANGED <<asked, signed, book>>,
           pc' = "signing" /\ call'.op = "placeOrder" => signed # NULL,
           pc' = "sent" /\ request'.path = "/order" =>
               signed # NULL /\ \E k : request'.body = Placed(signed, k)
    PROVE  OrdersInv'
<1>1. \A o : Took(o)' <=> Took(o)
  BY DEF Took, Salted
<1>2. Salted(asked)' = Salted(asked)
  BY DEF Salted
<1>3. QED
  BY <1>1, <1>2 DEF OrdersInv

\* A new order is for the same arguments as the ones before it.
LEMMA SignedStep ==
    ASSUME OrdersInv, NEW args \in OrderArgs, CreateSignedOrder(args)
    PROVE  OrdersInv'
<1>1. pc' = "idle" /\ book' = book
  BY DEF CreateSignedOrder, Return, exchange
<1>2. CASE args.side \in {BUY, SELL}
  <2> DEFINE new == SignedOrder(args, asked + 1)
  <2>1. signed' = new /\ asked' = asked + 1 /\ asked < MaxAsked
    BY <1>2 DEF CreateSignedOrder
  <2>2. new.args = args
    BY DEF SignedOrder
  <2>3. asked + 1 \in 1 .. MaxAsked /\ asked + 1 > 0 /\ asked \in Nat
    BY <2>1, ClobAssumption DEF OrdersInv
  <2>4. new # NULL
    BY <2>3, NullAssumption
  <2>5. new = SignedOrder(new.args, asked + 1)
    BY <2>2
  <2> HIDE DEF new
  <2>6. Salted(asked)' = signed'
    BY <2>1, <2>5 DEF Salted
  <2>7. \A o \in book : Took(o)'
    <3>1. CASE signed = NULL
      BY <3>1 DEF OrdersInv
    <3>2. CASE signed # NULL
      <4>1. signed.args = args
        BY <3>2 DEF CreateSignedOrder
      <4>2. \A n : Salted(n)' = Salted(n)
        BY <2>1, <2>2, <4>1 DEF Salted
      <4>3. \A n \in 1 .. asked : n \in 1 .. asked'
        BY <2>1, <2>3
      <4>4. \A o \in book : Took(o)
        BY DEF OrdersInv
      <4>5. QED
        BY <4>2, <4>3, <4>4 DEF Took
    <3>3. QED
      BY <3>1, <3>2
  <2>8. QED
    BY <1>1, <1>2, <2>1, <2>2, <2>3, <2>4, <2>6, <2>7 DEF OrdersInv
<1>3. CASE args.side \notin {BUY, SELL}
  <2>1. UNCHANGED <<asked, signed>>
    BY <1>3 DEF CreateSignedOrder
  <2>2. QED
    BY <1>1, <2>1, NoOrder
<1>4. QED
  BY <1>2, <1>3

LEMMA OrdersStep == OrdersInv /\ ReaderInv /\ [Next]_vars => OrdersInv'
<1> SUFFICES ASSUME OrdersInv, ReaderInv, [Next]_vars PROVE OrdersInv'
  OBVIOUS
<1> USE DEF reader, exchange, local, program
<1>1. CASE Begin
  <2>1. ASSUME NEW op \in L1Ops, CallL1(op) PROVE OrdersInv'
    <3>1. pc' = "signing" /\ call'.op # "placeOrder" /\ UNCHANGED <<asked, signed, book>>
      BY <2>1 DEF CallL1, Call, L1Ops
    <3>2. QED
      BY <3>1, NoOrder
  <2>2. ASSUME NEW op \in L2Ops, CallL2(op) PROVE OrdersInv'
    <3>1. op = "placeOrder" => signed # NULL
      BY <2>2 DEF CallL2
    <3>2. UNCHANGED <<asked, signed, book>>
          /\ (pc' = "idle" \/ (pc' = "signing" /\ call'.op = op))
      BY <2>2 DEF CallL2, Return, Call
    <3>3. QED
      BY <3>1, <3>2, NoOrder
  <2>3. ASSUME NEW op \in QuoteOps \cup MarketOps, Get(op) \/ BeginReading(op)
        PROVE  OrdersInv'
    <3>1. Path(op) # "/order"
      BY DEF Path, L1Ops, QuoteOps, MarketOps
    <3>2. pc' = "sent" /\ request'.path # "/order" /\ UNCHANGED <<asked, signed, book>>
      BY <2>3, <3>1 DEF Get, BeginReading, SendGet
    <3>3. QED
      BY <3>2, NoOrder
  <2>4. ASSUME NEW q \in Quotes, GetAmounts(q) PROVE OrdersInv'
    <3>1. pc' = "quoted" /\ UNCHANGED <<asked, signed, book>>
      BY <2>4 DEF GetAmounts
    <3>2. QED
      BY <3>1, NoOrder
  <2>5. QED
    BY <1>1, <2>1, <2>2, <2>3, <2>4, SignedStep DEF Begin
<1>2. CASE Continue
  <2>1. CASE SendL1
    <3>1. Path(call.op) = "/auth/derive-api-key"
      BY <2>1 DEF SendL1, Path, L1Ops
    <3>2. pc' = "sent" /\ request'.path = Path(call.op)
          /\ UNCHANGED <<asked, signed, book>>
      BY <2>1 DEF SendL1, Send
    <3>3. QED
      BY <3>1, <3>2, NoOrder
  <2>2. CASE SendL2
    <3>1. pc = "signing" /\ call.op \in L2Ops /\ UNCHANGED <<asked, signed, book>>
          /\ request'.path = Path(call.op) /\ request'.body = Body(call.op)
      BY <2>2 DEF SendL2, Send
    <3>2. CASE call.op = "placeOrder"
      <4>1. signed # NULL
        BY <3>1, <3>2 DEF OrdersInv
      <4>2. Body(call.op) = Placed(signed, api)
        BY <3>2 DEF Body, Placed
      <4>3. pc' # "signing"
        BY <2>2 DEF SendL2, Send
      <4>4. QED
        BY <3>1, <4>1, <4>2, <4>3, NoOrder
    <3>3. CASE call.op # "placeOrder"
      <4>1. Path(call.op) # "/order"
        BY <3>1, <3>3 DEF Path, L2Ops, L1Ops
      <4>2. pc' # "signing"
        BY <2>2 DEF SendL2, Send
      <4>3. QED
        BY <3>1, <4>1, <4>2, NoOrder
    <3>4. QED
      BY <3>2, <3>3
  <2>3. CASE NextPage
    <3>1. pc' = "sent" /\ request'.path = Path(call.op) /\ UNCHANGED <<asked, signed, book>>
      BY <2>3 DEF NextPage, SendGet
    <3>2. Path(call.op) # "/order"
      BY <2>3 DEF NextPage, ReaderInv, Path, MarketOps, L1Ops
    <3>3. QED
      BY <3>1, <3>2, NoOrder
  <2>4. CASE EndReading \/ UseAmounts \/ ParseKey \/ PrintAnswer \/ ParseQuote
    <3>1. pc' = "idle" /\ UNCHANGED <<asked, signed, book>>
      BY <2>4 DEF EndReading, UseAmounts, ParseKey, PrintAnswer, ParseQuote, Returns, Return
    <3>2. QED
      BY <3>1, NoOrder
  <2>5. CASE ParsePage
    <3>1. pc' \in {"idle", "read", "paging"} /\ UNCHANGED <<asked, signed, book>>
      BY <2>5 DEF ParsePage, Collect, Throws, Return
    <3>2. QED
      BY <3>1, NoOrder
  <2>6. QED
    BY <1>2, <2>1, <2>2, <2>3, <2>4, <2>5 DEF Continue, Answered
<1>3. CASE Network
  <2>1. CASE Serve
    <3>1. PICK answer \in Answers : Served(answer) /\ Answer(answer)
      BY <2>1 DEF Serve
    <3>2. QED
      BY <2>1, <3>1, TakenOrder DEF Serve, Answer
  <2>2. CASE LoseAnswer
    <3>1. PICK answer \in Answers : Served(answer)
      BY <2>2 DEF LoseAnswer
    <3>2. QED
      BY <2>2, <3>1, TakenOrder DEF LoseAnswer, Return
  <2>3. CASE LoseRequest \/ Refuse
    <3>1. pc' \in {"idle", "answered"} /\ UNCHANGED <<asked, signed, book>>
      BY <2>3 DEF LoseRequest, Throws, Return, Refuse, Answer
    <3>2. QED
      BY <3>1, NoOrder
  <2>4. QED
    BY <1>3, <2>1, <2>2, <2>3 DEF Network
<1>4. CASE Tick \/ List \/ UNCHANGED vars
  <2>1. UNCHANGED <<pc, call, request, asked, signed, book>>
    BY <1>4 DEF Tick, List, vars
  <2>2. QED
    BY <2>1, NoOrder DEF OrdersInv
<1>5. QED
  BY <1>1, <1>2, <1>3, <1>4 DEF Next

LEMMA Orders == Spec => []OrdersInv
<1>1. Init => OrdersInv
  BY ClobAssumption DEF Init, OrdersInv
<1>2. QED
  BY <1>1, OrdersStep, Reading, PTL DEF Spec

\* The exchange has at most one order for every one that was asked for, with
\* any number of repetitions, lost answers and orders (OrderBuilder,
\* OrderRequests.placeOrder).
THEOREM OrderPlacedOnce == Spec => []PlacedOnce
<1>1. OrdersInv => PlacedOnce
  <2> SUFFICES ASSUME OrdersInv PROVE Cardinality(book) <= asked
    BY DEF PlacedOnce
  <2> DEFINE salt == [o \in book |-> CHOOSE n \in 1 .. asked : o.signature = Salted(n).sig]
  <2>1. ASSUME NEW o \in book
        PROVE  salt[o] \in 1 .. asked /\ o.signature = Salted(salt[o]).sig
    <3>1. PICK n \in 1 .. asked : \E k : o = Placed(Salted(n), k)
      BY DEF OrdersInv, Took
    <3>2. o.signature = Salted(n).sig
      BY <3>1 DEF Placed, OrderToJson
    <3>3. QED
      BY <3>2
  <2> HIDE DEF salt
  <2>2. \A o, p \in book : salt[o] = salt[p] => o = p
    BY <2>1 DEF OrdersInv
  <2>3. salt \in Injection(book, 1 .. asked)
    <3>1. salt \in [book -> 1 .. asked]
      BY <2>1 DEF salt
    <3>2. QED
      BY <2>2, <3>1 DEF Injection, IsInjective
  <2>4. asked \in Nat /\ IsFiniteSet(1 .. asked) /\ Cardinality(1 .. asked) = asked
    BY ClobAssumption, FS_Interval DEF OrdersInv
  <2>5. QED
    BY <2>3, <2>4, FS_Injection
<1>2. QED
  BY <1>1, Orders, PTL

---------------------------------------------------------------------------
(* Induction and division.                                                 *)

\* A set of natural numbers has a least one.
LEMMA LeastNumber ==
    ASSUME NEW S \in SUBSET Nat, S # {}
    PROVE  \E n \in S : \A m \in S : n <= m
<1>1. \E n \in S : \A m \in S : ~ (<<m, n>> \in OpToRel(<, Nat))
  BY NatLessThanWellFounded, WFMin
<1>2. OpToRel(<, Nat) = {ss \in Nat \X Nat : ss[1] < ss[2]}
  BY Zenon DEF OpToRel
<1>3. PICK n \in S : \A m \in S : ~ (<<m, n>> \in {ss \in Nat \X Nat : ss[1] < ss[2]})
  BY <1>1, <1>2, Zenon
<1>4. \A m \in S : m \in Nat /\ n \in Nat /\ ~(m < n)
  BY <1>3
<1>5. QED
  BY <1>4

\* Induction, over the members of a set.
LEMMA Induction ==
    ASSUME NEW S, 0 \in S, \A n \in Nat : n \in S => n + 1 \in S
    PROVE  \A n \in Nat : n \in S
<1> DEFINE T == {n \in Nat : n \notin S}
<1> SUFFICES ASSUME T # {} PROVE FALSE
  OBVIOUS
<1>1. PICK n \in T : \A m \in T : n <= m
  BY LeastNumber
<1>2. n \in Nat /\ n # 0 /\ n - 1 \in Nat /\ ~(n <= n - 1) /\ (n - 1) + 1 = n
  BY <1>1
<1>3. n - 1 \in S
  BY <1>1, <1>2
<1>4. QED
  BY <1>1, <1>2, <1>3

\* Quotient and remainder are unique.
LEMMA DivUnique ==
    ASSUME NEW m \in Nat, m > 0, NEW q \in Int, NEW rest \in 0 .. m - 1
    PROVE  (q * m + rest) \div m = q /\ (q * m + rest) % m = rest
<1>1. PICK a \in Int : a = q * m + rest
  BY SMT
<1>2. PICK d \in Int, e \in 0 .. m - 1 : d = a \div m /\ e = a % m /\ a = d * m + e
  <2>1. a % m \in 0 .. m - 1
    BY SMT
  <2>2. a \div m \in Int /\ a = (a \div m) * m + (a % m)
    BY SMT
  <2>3. QED
    BY <2>1, <2>2
<1>3. (d - q) * m = rest - e
  BY <1>1, <1>2, SMT
<1>4. d - q \in Int /\ rest - e \in Int /\ rest - e < m /\ rest - e > -m
  BY <1>2
<1>5. ASSUME NEW k \in Int, NEW x \in Int, k * m = x, x < m, x > -m PROVE k = 0
  <2>1. CASE k >= 1
    <3>1. k * m >= m
      BY <2>1, SMT
    <3>2. QED
      BY <1>5, <3>1
  <2>2. CASE k <= -1
    <3>1. k * m <= -m
      BY <2>2, SMT
    <3>2. QED
      BY <1>5, <3>1
  <2>3. QED
    BY <2>1, <2>2
<1>6. d - q = 0
  BY <1>3, <1>4, <1>5
<1>7. d = q
  BY <1>6
<1>8. e = rest
  BY <1>1, <1>2, <1>7
<1>9. QED
  BY <1>1, <1>2, <1>7, <1>8

\* A quotient and a remainder are the ones found by division.
LEMMA Division ==
    ASSUME NEW m \in Nat, m > 0, NEW a \in Int
    PROVE  /\ a \div m \in Int /\ a % m \in 0 .. m - 1
           /\ a = (a \div m) * m + (a % m)
           /\ a \in Nat => a \div m \in Nat /\ a \div m <= a
<1>1. a % m \in 0 .. m - 1
  BY SMT
<1>2. a \div m \in Int /\ a = (a \div m) * m + (a % m)
  BY SMT
<1>3. PICK q \in Int, rest \in 0 .. m - 1 : q = a \div m /\ rest = a % m /\ a = q * m + rest
  BY <1>1, <1>2
<1>4. ASSUME a \in Nat PROVE q \in Nat /\ q <= a
  <2>1. ASSUME q <= -1 PROVE FALSE
    <3>1. q * m <= -m
      BY <2>1, SMT
    <3>2. QED
      BY <1>3, <1>4, <3>1
  <2>2. q \in Nat
    BY <2>1
  <2>3. q * m >= q
    BY <2>2, SMT
  <2>4. QED
    BY <1>3, <2>2, <2>3
<1>5. QED
  BY <1>1, <1>2, <1>3, <1>4

\* Dividing twice.
LEMMA DivisionTwice ==
    ASSUME NEW m \in Nat, m > 0, NEW n \in Nat, n > 0, NEW a \in Nat
    PROVE  (a \div m) \div n = a \div (m * n)
<1>1. PICK q \in Nat, rest \in 0 .. m - 1 : q = a \div m /\ a = q * m + rest
  BY Division
<1>2. PICK t \in Nat, u \in 0 .. n - 1 : t = q \div n /\ q = t * n + u
  BY Division
<1>3. PICK k \in Nat : k = m * n /\ k > 0
  BY SMT
<1>4. PICK v \in Nat : v = u * m + rest
  BY SMT
<1>5. a = t * k + v
  <2>1. (t * n + u) * m = t * (m * n) + u * m
    BY SMT
  <2>2. QED
    BY <1>1, <1>2, <1>3, <1>4, <2>1
<1>6. v < k
  <2>1. u * m <= (n - 1) * m
    BY SMT
  <2>2. (n - 1) * m = k - m
    BY <1>3, SMT
  <2>3. u * m \in Nat
    BY SMT
  <2>4. QED
    BY <1>3, <1>4, <2>1, <2>2, <2>3
<1>7. a \div k = t
  BY <1>3, <1>5, <1>6, DivUnique
<1>8. QED
  BY <1>1, <1>2, <1>3, <1>7

---------------------------------------------------------------------------
(* Sequences.                                                              *)

\* What a part of a sequence consists of.
LEMMA SubSeqOf ==
    ASSUME NEW S, NEW t \in Seq(S), NEW m \in Nat, NEW n \in Nat,
           m >= 1, n <= Len(t), m <= n + 1
    PROVE  /\ SubSeq(t, m, n) \in Seq(S) /\ Len(SubSeq(t, m, n)) = n - m + 1
           /\ \A i \in 1 .. n - m + 1 : SubSeq(t, m, n)[i] = t[m + i - 1]
<1>1. Len(t) \in Nat
  BY LenProperties
<1>2. \A i \in m .. n : t[i] \in S
  <2> SUFFICES ASSUME NEW i \in m .. n PROVE t[i] \in S
    OBVIOUS
  <2>1. i \in 1 .. Len(t)
    BY <1>1
  <2>2. QED
    BY <2>1, ElementOfSeq
<1>3. QED
  BY <1>1, <1>2, SubSeqProperties

\* What a concatenation consists of.
LEMMA ConcatOf ==
    ASSUME NEW S, NEW a \in Seq(S), NEW b \in Seq(S)
    PROVE  /\ a \o b \in Seq(S) /\ Len(a \o b) = Len(a) + Len(b)
           /\ \A i \in 1 .. Len(a) : (a \o b)[i] = a[i]
           /\ \A i \in 1 .. Len(b) : (a \o b)[Len(a) + i] = b[i]
<1>1. /\ a \o b \in Seq(S) /\ Len(a \o b) = Len(a) + Len(b)
      /\ \A i \in 1 .. Len(a) + Len(b) :
             (a \o b)[i] = IF i <= Len(a) THEN a[i] ELSE b[i - Len(a)]
  BY ConcatProperties
<1>2. Len(a) \in Nat /\ Len(b) \in Nat
  BY LenProperties
<1>3. \A i \in 1 .. Len(a) : (a \o b)[i] = a[i]
  BY <1>1, <1>2
<1>4. ASSUME NEW i \in 1 .. Len(b) PROVE (a \o b)[Len(a) + i] = b[i]
  <2>1. /\ Len(a) + i \in 1 .. Len(a) + Len(b) /\ ~(Len(a) + i <= Len(a))
        /\ (Len(a) + i) - Len(a) = i
    BY <1>2
  <2>2. QED
    BY <1>1, <2>1
<1>5. QED
  BY <1>1, <1>3, <1>4

---------------------------------------------------------------------------
(* Numbers in digits.                                                      *)

Digits == 0 .. BYTE - 1

\* The powers that the encodings need.
LEMMA Power ==
    ASSUME NEW n \in 0 .. WORD + 1
    PROVE  BYTE ^ n \in Nat /\ BYTE ^ n >= 1
<1> DEFINE S == {i \in Nat : i <= WORD + 1 => BYTE ^ i \in Nat /\ BYTE ^ i >= 1}
<1>1. WORD \in Nat /\ BYTE \in Nat /\ BYTE >= 1
  BY EncodingAssumption
<1>2. 0 \in S
  BY <1>1, PowersAssumption
<1>3. ASSUME NEW i \in Nat, i \in S PROVE i + 1 \in S
  <2>1. SUFFICES ASSUME i + 1 <= WORD + 1
                 PROVE  BYTE ^ (i + 1) \in Nat /\ BYTE ^ (i + 1) >= 1
    OBVIOUS
  <2>2. i \in 0 .. WORD /\ i <= WORD + 1
    BY <1>1, <2>1
  <2>3. BYTE ^ (i + 1) = BYTE * BYTE ^ i /\ BYTE ^ i \in Nat /\ BYTE ^ i >= 1
    BY <1>3, <2>2, PowersAssumption
  <2>4. PICK p \in Nat, b \in Nat : p = BYTE ^ i /\ b = BYTE /\ p >= 1 /\ b >= 1
    BY <1>1, <2>3
  <2>5. b * p \in Nat /\ b * p >= 1
    <3>1. b * p >= p
      BY <2>4, SMT
    <3>2. b * p \in Nat
      BY SMT
    <3>3. QED
      BY <2>4, <3>1, <3>2
  <2>6. QED
    BY <2>3, <2>4, <2>5
<1> HIDE DEF S
<1>4. \A i \in Nat : i \in S
  BY <1>2, <1>3, Induction
<1>5. QED
  BY <1>1, <1>4 DEF S

\* Larger exponents, larger powers.
LEMMA PowerMore ==
    ASSUME NEW m \in Nat, NEW n \in Nat, m <= n, n <= WORD + 1
    PROVE  BYTE ^ m <= BYTE ^ n
<1> DEFINE S == {i \in Nat : m + i <= WORD + 1 => BYTE ^ m <= BYTE ^ (m + i)}
<1>1. WORD \in Nat /\ BYTE \in Nat /\ BYTE >= 1
  BY EncodingAssumption
<1>2. 0 \in S
  <2>1. m \in 0 .. WORD + 1 /\ m + 0 = m
    BY <1>1
  <2>2. BYTE ^ m \in Nat
    BY <2>1, Power
  <2>3. QED
    BY <2>1, <2>2
<1>3. ASSUME NEW i \in Nat, i \in S PROVE i + 1 \in S
  <2>1. SUFFICES ASSUME m + (i + 1) <= WORD + 1 PROVE BYTE ^ m <= BYTE ^ (m + (i + 1))
    OBVIOUS
  <2>2. PICK k \in Nat : k = m + i
    OBVIOUS
  <2>3. k \in 0 .. WORD /\ k \in 0 .. WORD + 1 /\ m \in 0 .. WORD + 1 /\ m + (i + 1) = k + 1
    BY <1>1, <2>1, <2>2
  <2>4. BYTE ^ (k + 1) = BYTE * BYTE ^ k /\ BYTE ^ k \in Nat /\ BYTE ^ m \in Nat
    BY <2>3, Power, PowersAssumption
  <2>5. BYTE ^ m <= BYTE ^ k
    BY <1>1, <1>3, <2>2, <2>3
  <2>6. PICK p \in Nat, b \in Nat : p = BYTE ^ k /\ b = BYTE /\ b >= 1
    BY <1>1, <2>4
  <2>7. b * p >= p /\ b * p \in Nat
    BY <2>6, SMT
  <2>8. QED
    BY <2>3, <2>4, <2>5, <2>6, <2>7
<1> HIDE DEF S
<1>4. \A i \in Nat : i \in S
  BY <1>2, <1>3, Induction
<1>5. n - m \in Nat /\ m + (n - m) = n
  OBVIOUS
<1>6. QED
  BY <1>4, <1>5 DEF S

\* One digit more to the right.
LEMMA NextDigit ==
    ASSUME NEW n \in Nat, NEW e \in 0 .. WORD
    PROVE  /\ n \div BYTE ^ e \in Nat /\ n \div BYTE ^ (e + 1) \in Nat
           /\ (n \div BYTE ^ e) % BYTE \in Digits
           /\ n \div BYTE ^ e = (n \div BYTE ^ (e + 1)) * BYTE + ((n \div BYTE ^ e) % BYTE)
<1>1. WORD \in Nat /\ BYTE \in Nat /\ BYTE > 0
  BY EncodingAssumption
<1>2. BYTE ^ e \in Nat /\ BYTE ^ e >= 1 /\ BYTE ^ (e + 1) = BYTE * BYTE ^ e
  <2>1. e \in 0 .. WORD + 1
    BY <1>1
  <2>2. QED
    BY <2>1, Power, PowersAssumption
<1>3. PICK p \in Nat, b \in Nat : p = BYTE ^ e /\ b = BYTE /\ p > 0 /\ b > 0
  BY <1>1, <1>2
<1>4. n \div p \in Nat
  BY <1>3, Division
<1>5. (n \div p) \div b = n \div (p * b)
  BY <1>3, DivisionTwice
<1>6. PICK q \in Nat : q = n \div p
  BY <1>4
<1>7. q \div b \in Nat /\ q % b \in 0 .. b - 1 /\ q = (q \div b) * b + (q % b)
  BY <1>3, Division
<1>8. p * b = BYTE ^ (e + 1)
  BY <1>2, <1>3
<1>9. q \div b = n \div BYTE ^ (e + 1)
  BY <1>5, <1>6, <1>8
<1>10. QED
  BY <1>3, <1>4, <1>6, <1>7, <1>9 DEF Digits

\* A number in len digits.
LEMMA BigEndianIs ==
    ASSUME NEW n \in Nat, NEW len \in 0 .. WORD + 1
    PROVE  /\ BigEndian(n, len) \in Seq(Digits) /\ Len(BigEndian(n, len)) = len
           /\ \A i \in 1 .. len : BigEndian(n, len)[i] = (n \div BYTE ^ (len - i)) % BYTE
<1>1. WORD \in Nat
  BY EncodingAssumption
<1>2. \A i \in 1 .. len : (n \div BYTE ^ (len - i)) % BYTE \in Digits
  <2> SUFFICES ASSUME NEW i \in 1 .. len PROVE (n \div BYTE ^ (len - i)) % BYTE \in Digits
    OBVIOUS
  <2>1. len - i \in 0 .. WORD
    BY <1>1
  <2>2. QED
    BY <2>1, NextDigit
<1>3. len \in Nat
  BY <1>1
<1>4. BigEndian(n, len) \in [1 .. len -> Digits]
  BY <1>2 DEF BigEndian
<1>5. BigEndian(n, len) \in Seq(Digits) /\ Len(BigEndian(n, len)) = len
  BY <1>3, <1>4, IsASeq, LenProperties
<1>6. QED
  BY <1>5 DEF BigEndian

\* The digits of a number that is small enough are the number.
LEMMA DigitsAre ==
    ASSUME NEW len \in 0 .. WORD, NEW n \in Nat, n < BYTE ^ len
    PROVE  Unsigned(BigEndian(n, len)) = n
<1>1. WORD \in Nat /\ BYTE \in Nat /\ BYTE > 0 /\ len \in 0 .. WORD + 1
  BY EncodingAssumption
<1>0. PICK w : w = BigEndian(n, len)
  OBVIOUS
<1>2. PICK l \in Nat : l = len
  BY <1>1
<1>3. Len(w) = l /\ \A i \in 1 .. l : w[i] = (n \div BYTE ^ (l - i)) % BYTE
  BY <1>0, <1>1, <1>2, BigEndianIs
<1> DEFINE g == [i \in 0 .. l |-> n \div BYTE ^ (l - i)]
<1>4. g[0] = 0 /\ g[l] = n
  <2>1. l - 0 = l /\ l - l = 0 /\ 0 \in 0 .. l /\ l \in 0 .. l
    OBVIOUS
  <2>2. PICK p \in Nat : p = BYTE ^ l /\ p > 0 /\ n < p
    BY <1>1, <1>2, Power
  <2>3. n \div p = 0
    <3>1. p \in Nat /\ p > 0 /\ 0 \in Int /\ n \in 0 .. p - 1
      BY <2>2
    <3>2. (0 * p + n) \div p = 0
      BY <3>1, DivUnique
    <3>3. 0 * p + n = n
      BY <2>2
    <3>4. QED
      BY <3>2, <3>3
  <2>4. n \div 1 = n
    OBVIOUS
  <2>5. BYTE ^ 0 = 1
    BY PowersAssumption
  <2>6. QED
    BY <2>1, <2>2, <2>3, <2>4, <2>5
<1>5. ASSUME NEW i \in 1 .. l PROVE g[i] = g[i - 1] * BYTE + w[i]
  <2>1. PICK e \in 0 .. WORD : e = l - i
    BY <1>1, <1>2
  <2>2. n \div BYTE ^ e = (n \div BYTE ^ (e + 1)) * BYTE + ((n \div BYTE ^ e) % BYTE)
    BY NextDigit
  <2>3. l - (i - 1) = e + 1 /\ i \in 0 .. l /\ i - 1 \in 0 .. l
    BY <2>1
  <2>4. g[i] = n \div BYTE ^ e /\ g[i - 1] = n \div BYTE ^ (e + 1)
    BY <2>1, <2>3
  <2>5. w[i] = (n \div BYTE ^ e) % BYTE
    BY <1>3, <2>1
  <2>6. QED
    BY <2>2, <2>4, <2>5
<1> HIDE DEF g
<1>6. g = [i \in 0 .. l |-> IF i = 0 THEN 0 ELSE g[i - 1] * BYTE + w[i]]
  <2>1. ASSUME NEW i \in 0 .. l PROVE g[i] = IF i = 0 THEN 0 ELSE g[i - 1] * BYTE + w[i]
    <3>1. i = 0 \/ i \in 1 .. l
      OBVIOUS
    <3>2. QED
      BY <1>4, <1>5, <3>1
  <2>2. g = [i \in 0 .. l |-> g[i]]
    BY DEF g
  <2>3. QED
    BY <2>1, <2>2
<1> DEFINE D == CHOOSE d : d = [i \in 0 .. l |-> IF i = 0 THEN 0 ELSE d[i - 1] * BYTE + w[i]]
<1>7. D = [i \in 0 .. l |-> IF i = 0 THEN 0 ELSE D[i - 1] * BYTE + w[i]]
  BY <1>6
<1>8. Unsigned(w) = D[l]
  BY <1>3 DEF Unsigned
<1> HIDE DEF D
<1>9. \A i \in 0 .. l : D[i] = IF i = 0 THEN 0 ELSE D[i - 1] * BYTE + w[i]
  BY <1>7
<1> DEFINE S == {i \in Nat : i <= l => D[i] = g[i]}
<1>10. 0 \in S
  BY <1>4, <1>9
<1>11. ASSUME NEW i \in Nat, i \in S PROVE i + 1 \in S
  <2> SUFFICES ASSUME i + 1 <= l PROVE D[i + 1] = g[i + 1]
    OBVIOUS
  <2>1. i + 1 \in 1 .. l /\ i + 1 \in 0 .. l /\ i + 1 # 0 /\ (i + 1) - 1 = i /\ i <= l
    OBVIOUS
  <2>2. D[i] = g[i]
    BY <1>11, <2>1
  <2>3. D[i + 1] = D[i] * BYTE + w[i + 1] /\ g[i + 1] = g[i] * BYTE + w[i + 1]
    BY <1>5, <1>9, <2>1
  <2>4. QED
    BY <2>2, <2>3
<1> HIDE DEF S
<1>12. l \in S
  BY <1>10, <1>11, Induction
<1>13. D[l] = g[l]
  BY <1>12 DEF S
<1>14. QED
  BY <1>0, <1>4, <1>8, <1>13

LEMMA UnsignedIs ==
    ASSUME NEW n \in Nat, n < BYTE ^ WORD
    PROVE  Unsigned(BigEndian(n, WORD)) = n
<1>1. WORD \in 0 .. WORD
  BY EncodingAssumption
<1>2. QED
  BY <1>1, DigitsAre

---------------------------------------------------------------------------
(* The words of an order.                                                  *)

LEMMA ZerosIs ==
    ASSUME NEW k \in Nat
    PROVE  Zeros(k) \in Seq(Digits) /\ Len(Zeros(k)) = k /\ \A i \in 1 .. k : Zeros(k)[i] = 0
<1>1. 0 \in Digits
  BY EncodingAssumption DEF Digits
<1>2. Zeros(k) \in [1 .. k -> Digits]
  BY <1>1 DEF Zeros
<1>3. Zeros(k) \in Seq(Digits) /\ Len(Zeros(k)) = k
  BY <1>1, <1>2, IsASeq, LenProperties
<1>4. QED
  BY <1>3 DEF Zeros

\* A quotient by more than the number is zero.
LEMMA SmallQuotient ==
    ASSUME NEW n \in Nat, NEW p \in Nat, n < p
    PROVE  n \div p = 0
<1>1. p \in Nat /\ p > 0 /\ 0 \in Int /\ n \in 0 .. p - 1
  OBVIOUS
<1>2. (0 * p + n) \div p = 0
  BY <1>1, DivUnique
<1>3. 0 * p + n = n
  OBVIOUS
<1>4. QED
  BY <1>2, <1>3

\* Zeros before the digits are more digits.
LEMMA ZerosBefore ==
    ASSUME NEW k \in Nat, NEW len \in Nat, k + len <= WORD + 1,
           NEW n \in Nat, n < BYTE ^ len
    PROVE  Zeros(k) \o BigEndian(n, len) = BigEndian(n, k + len)
<1>1. WORD \in Nat /\ len \in 0 .. WORD + 1 /\ k + len \in 0 .. WORD + 1
  BY EncodingAssumption
<1>2. PICK m \in 0 .. WORD + 1 : m = k + len
  BY <1>1
<1>3. PICK z : z = Zeros(k)
  OBVIOUS
<1>4. PICK a : a = BigEndian(n, len)
  OBVIOUS
<1>5. PICK b : b = BigEndian(n, m)
  OBVIOUS
<1>6. z \in Seq(Digits) /\ Len(z) = k /\ \A i \in 1 .. k : z[i] = 0
  BY <1>3, ZerosIs
<1>7. /\ a \in Seq(Digits) /\ Len(a) = len
      /\ \A i \in 1 .. len : a[i] = (n \div BYTE ^ (len - i)) % BYTE
  BY <1>1, <1>4, BigEndianIs
<1>8. /\ b \in Seq(Digits) /\ Len(b) = m
      /\ \A i \in 1 .. m : b[i] = (n \div BYTE ^ (m - i)) % BYTE
  BY <1>5, BigEndianIs
<1>9. z \in Seq(Digits) /\ a \in Seq(Digits)
  BY <1>6, <1>7
<1>10. PICK c : c = z \o a
  OBVIOUS
<1>11. /\ c \in Seq(Digits) /\ Len(c) = Len(z) + Len(a)
       /\ \A i \in 1 .. Len(z) : c[i] = z[i]
       /\ \A i \in 1 .. Len(a) : c[Len(z) + i] = a[i]
  BY <1>9, <1>10, ConcatOf
<1>12. Len(c) = m /\ (\A i \in 1 .. k : c[i] = z[i]) /\ (\A i \in 1 .. len : c[k + i] = a[i])
  BY <1>2, <1>6, <1>7, <1>11
<1>13. ASSUME NEW i \in 1 .. m PROVE c[i] = b[i]
  <2>1. CASE i <= k
    <3>1. i \in 1 .. k
      BY <2>1
    <3>2. c[i] = 0
      BY <1>6, <1>12, <3>1
    <3>3. PICK e \in Nat : e = m - i
      BY <1>2
    <3>4. len <= e /\ e <= WORD + 1 /\ e \in 0 .. WORD + 1
      BY <1>1, <1>2, <2>1, <3>3
    <3>5. BYTE ^ len <= BYTE ^ e /\ BYTE ^ e \in Nat /\ BYTE ^ len \in Nat
      BY <1>1, <3>4, PowerMore, Power
    <3>6. PICK p \in Nat : p = BYTE ^ e /\ n < p
      BY <3>5
    <3>7. n \div p = 0
      BY <3>6, SmallQuotient
    <3>8. BYTE \in Nat /\ BYTE > 0
      BY EncodingAssumption
    <3>9. 0 % BYTE = 0
      BY <3>8
    <3>10. QED
      BY <1>8, <3>2, <3>3, <3>6, <3>7, <3>9
  <2>2. CASE i > k
    <3>1. PICK j \in 1 .. len : i = k + j
      <4>1. i - k \in 1 .. len /\ i = k + (i - k)
        BY <1>2, <2>2
      <4>2. QED
        BY <4>1
    <3>2. m - i = len - j
      BY <1>2, <3>1
    <3>3. QED
      BY <1>7, <1>8, <1>12, <3>1, <3>2
  <2>3. QED
    BY <2>1, <2>2
<1>14. c \in Seq(Digits) /\ b \in Seq(Digits) /\ Len(c) = Len(b)
       /\ \A i \in 1 .. Len(c) : c[i] = b[i]
  BY <1>8, <1>11, <1>12, <1>13
<1>15. c = b
  BY <1>14, SeqEqual
<1>16. QED
  BY <1>2, <1>3, <1>4, <1>5, <1>10, <1>15

\* A token's word is its digits, whatever the length of toByteArray.
LEMMA TokenWord ==
    ASSUME NEW n \in Nat, n < BYTE ^ WORD
    PROVE  Pad64(ToByteArray(n)) = BigEndian(n, WORD)
<1>1. WORD \in Nat /\ BYTE \in Nat /\ BYTE % 2 = 0 /\ BYTE > 0
  BY EncodingAssumption
<1>2. BYTE >= 2
  BY <1>1
<1> DEFINE Long == {len \in Nat : len \in 1 .. WORD + 1 /\ 2 * n < BYTE ^ len}
           Fits(len) == 2 * n < BYTE ^ len /\ (len = 1 \/ 2 * n >= BYTE ^ (len - 1))
<1>3. WORD + 1 \in Long
  <2>1. WORD \in 0 .. WORD /\ WORD \in 0 .. WORD + 1 /\ WORD + 1 \in 1 .. WORD + 1
    BY <1>1
  <2>2. BYTE ^ (WORD + 1) = BYTE * BYTE ^ WORD /\ BYTE ^ WORD \in Nat
    BY <2>1, PowersAssumption
  <2>3. PICK b \in Nat, p \in Nat : b = BYTE /\ p = BYTE ^ WORD
    BY <1>1, <2>2
  <2>4. b >= 2 /\ n < p
    BY <1>2, <2>3
  <2>5. b * p >= 2 * p /\ b * p \in Nat
    BY <2>4, SMT
  <2>6. QED
    BY <1>1, <2>1, <2>2, <2>3, <2>4, <2>5
<1> HIDE DEF Long
<1>4. Long \in SUBSET Nat /\ Long # {}
  BY <1>3 DEF Long
<1>5. PICK l \in Long : \A m \in Long : l <= m
  BY <1>4, LeastNumber
<1>6. l \in 1 .. WORD + 1 /\ Fits(l)
  <2>1. l \in 1 .. WORD + 1 /\ 2 * n < BYTE ^ l
    BY <1>5 DEF Long
  <2>2. ASSUME l # 1 PROVE 2 * n >= BYTE ^ (l - 1)
    <3>1. l - 1 \in 1 .. WORD + 1 /\ l - 1 \in 0 .. WORD + 1 /\ ~(l <= l - 1)
      BY <1>1, <2>1, <2>2
    <3>2. l - 1 \notin Long
      BY <1>5, <3>1
    <3>3. ~(2 * n < BYTE ^ (l - 1))
      BY <1>1, <3>1, <3>2 DEF Long
    <3>4. BYTE ^ (l - 1) \in Nat
      BY <3>1, Power
    <3>5. QED
      BY <3>3, <3>4
  <2>3. QED
    BY <2>1, <2>2
<1> DEFINE length == CHOOSE len \in 1 .. WORD + 1 : Fits(len)
<1>7. length \in 1 .. WORD + 1 /\ Fits(length)
  BY <1>6
<1>8. ToByteArray(n) = BigEndian(n, length)
  BY DEF ToByteArray
<1> HIDE DEF length
<1>9. PICK in : in = BigEndian(n, length)
  OBVIOUS
<1>10. length \in 0 .. WORD + 1 /\ length \in Nat
  BY <1>1, <1>7
<1>11. /\ in \in Seq(Digits) /\ Len(in) = length
       /\ \A i \in 1 .. length : in[i] = (n \div BYTE ^ (length - i)) % BYTE
  BY <1>9, <1>10, BigEndianIs
<1>12. CASE length <= WORD
  <2>1. BYTE ^ length \in Nat
    BY <1>10, Power
  <2>2. n < BYTE ^ length
    BY <1>7, <2>1
  <2>3. WORD - length \in Nat /\ (WORD - length) + length = WORD
        /\ (WORD - length) + length <= WORD + 1
    BY <1>1, <1>10, <1>12
  <2>4. Zeros(WORD - length) \o BigEndian(n, length) = BigEndian(n, (WORD - length) + length)
    BY <1>10, <2>2, <2>3, ZerosBefore
  <2>5. Pad64(in) = Zeros(WORD - length) \o in
    BY <1>11, <1>12 DEF Pad64
  <2>6. QED
    BY <1>8, <1>9, <2>3, <2>4, <2>5
<1>13. CASE length > WORD
  <2>1. length = WORD + 1
    BY <1>1, <1>7, <1>13
  <2>2. Pad64(in) = SubSeq(in, 2, WORD + 1)
    BY <1>1, <1>11, <1>13, <2>1 DEF Pad64
  <2>3. PICK w : w = SubSeq(in, 2, WORD + 1)
    OBVIOUS
  <2>4. /\ in \in Seq(Digits) /\ 2 \in Nat /\ WORD + 1 \in Nat
        /\ 2 >= 1 /\ WORD + 1 <= Len(in) /\ 2 <= (WORD + 1) + 1
        /\ (WORD + 1) - 2 + 1 = WORD
    BY <1>1, <1>11, <2>1
  <2>5. /\ w \in Seq(Digits) /\ Len(w) = WORD
        /\ \A i \in 1 .. WORD : w[i] = in[2 + i - 1]
    BY <2>3, <2>4, SubSeqOf
  <2>6. PICK b : b = BigEndian(n, WORD)
    OBVIOUS
  <2>7. WORD \in 0 .. WORD + 1
    BY <1>1
  <2>8. /\ b \in Seq(Digits) /\ Len(b) = WORD
        /\ \A i \in 1 .. WORD : b[i] = (n \div BYTE ^ (WORD - i)) % BYTE
    BY <2>6, <2>7, BigEndianIs
  <2>9. ASSUME NEW i \in 1 .. WORD PROVE w[i] = b[i]
    <3>1. 2 + i - 1 \in 1 .. length /\ length - (2 + i - 1) = WORD - i
      BY <1>1, <2>1
    <3>2. QED
      BY <1>11, <2>5, <2>8, <3>1
  <2>10. w \in Seq(Digits) /\ b \in Seq(Digits) /\ Len(w) = Len(b)
         /\ \A i \in 1 .. Len(w) : w[i] = b[i]
    BY <2>5, <2>8, <2>9
  <2>11. w = b
    BY <2>10, SeqEqual
  <2>12. QED
    BY <1>8, <1>9, <2>2, <2>3, <2>6, <2>11
<1>14. QED
  BY <1>1, <1>10, <1>12, <1>13

\* An int that is not negative is a word of its digits; any int is a word.
LEMMA IntWord ==
    ASSUME NEW i \in Ints
    PROVE  /\ EncodeInt(i) \in Seq(Digits) /\ Len(EncodeInt(i)) = WORD
           /\ i >= 0 => i < BYTE ^ WORD /\ EncodeInt(i) = BigEndian(i, WORD)
           /\ Unsigned(LowBytes(EncodeInt(i))) = i % BYTE ^ INT
<1>1. /\ WORD \in Nat /\ INT \in Nat /\ INT >= 1 /\ INT <= WORD - 1
      /\ BYTE \in Nat /\ BYTE % 2 = 0 /\ BYTE > 0
  BY EncodingAssumption
<1>2. PICK p \in Nat : p = BYTE ^ INT /\ p > 0
  <2>1. INT \in 0 .. WORD + 1
    BY <1>1
  <2>2. QED
    BY <2>1, Power
<1>3. i \in Int /\ i < p
  <2>1. PICK h \in Nat : h = p \div 2 /\ h <= p
    BY <1>2
  <2>2. i \in -h .. h - 1
    BY <1>2, <2>1 DEF Ints
  <2>3. QED
    BY <2>1, <2>2
<1>4. PICK r \in Nat : r = i % p /\ r < p
  <2>1. i % p \in 0 .. p - 1
    BY <1>2, <1>3, Division
  <2>2. QED
    BY <1>2, <2>1
<1>5. PICK k \in Nat : k = WORD - INT - 1
  BY <1>1
<1>6. PICK first \in Digits : first = (IF i < 0 THEN BYTE \div 2 ELSE 0)
  BY <1>1 DEF Digits
<1>7. EncodeInt(i) = <<first>> \o Zeros(k) \o BigEndian(r, INT)
  BY <1>2, <1>3, <1>4, <1>5, <1>6 DEF EncodeInt
<1>8. PICK a : a = <<first>>
  OBVIOUS
<1>9. a \in Seq(Digits) /\ Len(a) = 1 /\ a[1] = first
  BY <1>6, <1>8
<1>10. PICK z : z = Zeros(k)
  OBVIOUS
<1>11. z \in Seq(Digits) /\ Len(z) = k /\ \A j \in 1 .. k : z[j] = 0
  BY <1>10, ZerosIs
<1>12. PICK c : c = a \o z
  OBVIOUS
<1>13. a \in Seq(Digits) /\ z \in Seq(Digits)
  BY <1>9, <1>11
<1>14. /\ c \in Seq(Digits) /\ Len(c) = Len(a) + Len(z)
       /\ \A j \in 1 .. Len(a) : c[j] = a[j]
       /\ \A j \in 1 .. Len(z) : c[Len(a) + j] = z[j]
  BY <1>12, <1>13, ConcatOf
<1>15. PICK b : b = BigEndian(r, INT)
  OBVIOUS
<1>16. b \in Seq(Digits) /\ Len(b) = INT
  <2>1. INT \in 0 .. WORD + 1
    BY <1>1
  <2>2. QED
    BY <1>15, <2>1, BigEndianIs
<1>17. c \in Seq(Digits) /\ b \in Seq(Digits)
  BY <1>14, <1>16
<1>18. c \o b \in Seq(Digits) /\ Len(c \o b) = Len(c) + Len(b)
  BY <1>17, ConcatOf
<1>19. Len(c \o b) = WORD
  BY <1>1, <1>5, <1>9, <1>11, <1>14, <1>16, <1>18
<1>20. ASSUME i >= 0 PROVE i < BYTE ^ WORD /\ c \o b = BigEndian(i, WORD)
  <2>1. r = i
    <3>1. i \in 0 .. p - 1 /\ 0 \in Int /\ p > 0
      BY <1>2, <1>3, <1>20
    <3>2. (0 * p + i) % p = i
      BY <3>1, DivUnique
    <3>3. 0 * p + i = i
      BY <1>3
    <3>4. QED
      BY <1>4, <3>2, <3>3
  <2>2. PICK z2 : z2 = Zeros(k + 1)
    OBVIOUS
  <2>3. k + 1 \in Nat
    OBVIOUS
  <2>4. z2 \in Seq(Digits) /\ Len(z2) = k + 1 /\ \A j \in 1 .. k + 1 : z2[j] = 0
    BY <2>2, <2>3, ZerosIs
  <2>5. first = 0
    BY <1>3, <1>6, <1>20
  <2>6. ASSUME NEW j \in 1 .. k + 1 PROVE c[j] = z2[j]
    <3>1. CASE j = 1
      BY <1>9, <1>14, <2>4, <2>5, <3>1
    <3>2. CASE j # 1
      <4>1. j - 1 \in 1 .. k /\ Len(a) + (j - 1) = j
        BY <1>9, <3>2
      <4>2. c[j] = z[j - 1]
        BY <1>11, <1>14, <4>1
      <4>3. QED
        BY <1>11, <2>4, <4>1, <4>2
    <3>3. QED
      BY <3>1, <3>2
  <2>7. c \in Seq(Digits) /\ z2 \in Seq(Digits) /\ Len(c) = Len(z2)
        /\ \A j \in 1 .. Len(c) : c[j] = z2[j]
    BY <1>9, <1>11, <1>14, <2>4, <2>6
  <2>8. c = z2
    BY <2>7, SeqEqual
  <2>9. (k + 1) + INT = WORD /\ (k + 1) + INT <= WORD + 1 /\ k + 1 \in Nat /\ INT \in Nat
    BY <1>1, <1>5
  <2>10. r < BYTE ^ INT
    BY <1>2, <1>4
  <2>11. Zeros(k + 1) \o BigEndian(r, INT) = BigEndian(r, (k + 1) + INT)
    BY <2>9, <2>10, ZerosBefore
  <2>12. BYTE ^ INT <= BYTE ^ WORD /\ BYTE ^ WORD \in Nat
    <3>1. INT <= WORD /\ WORD <= WORD + 1 /\ WORD \in 0 .. WORD + 1
      BY <1>1
    <3>2. QED
      BY <1>1, <3>1, PowerMore, Power
  <2>13. i < BYTE ^ WORD
    BY <1>2, <1>3, <2>12
  <2>14. QED
    BY <1>15, <2>1, <2>2, <2>8, <2>9, <2>11, <2>13
<1>21. EncodeInt(i) = c \o b
  BY <1>7, <1>8, <1>10, <1>12, <1>15
<1>22. LowBytes(c \o b) = b
  <2>1. PICK w : w = c \o b
    OBVIOUS
  <2>2. /\ w \in Seq(Digits) /\ Len(w) = WORD
        /\ \A j \in 1 .. INT : w[WORD - INT + j] = b[j]
    <3>1. Len(c) = WORD - INT
      BY <1>1, <1>5, <1>9, <1>11, <1>14
    <3>2. \A j \in 1 .. Len(b) : (c \o b)[Len(c) + j] = b[j]
      BY <1>17, ConcatOf
    <3>3. QED
      BY <1>16, <1>18, <1>19, <2>1, <3>1, <3>2
  <2>3. PICK m \in Nat : m = WORD - INT + 1 /\ m >= 1 /\ m <= WORD + 1
    BY <1>1
  <2>4. /\ SubSeq(w, m, WORD) \in Seq(Digits)
        /\ Len(SubSeq(w, m, WORD)) = WORD - m + 1
        /\ \A j \in 1 .. WORD - m + 1 : SubSeq(w, m, WORD)[j] = w[m + j - 1]
    BY <1>1, <2>2, <2>3, SubSeqOf
  <2>5. PICK v : v = SubSeq(w, m, WORD)
    OBVIOUS
  <2>6. WORD - m + 1 = INT /\ \A j \in 1 .. INT : m + j - 1 = WORD - INT + j
    BY <1>1, <2>3
  <2>7. v \in Seq(Digits) /\ b \in Seq(Digits) /\ Len(v) = Len(b)
        /\ \A j \in 1 .. Len(v) : v[j] = b[j]
    BY <1>16, <2>2, <2>4, <2>5, <2>6
  <2>8. v = b
    BY <2>7, SeqEqual
  <2>9. QED
    BY <2>1, <2>3, <2>5, <2>8 DEF LowBytes
<1>23. Unsigned(b) = r
  <2>1. INT \in 0 .. WORD /\ r < BYTE ^ INT
    BY <1>1, <1>2, <1>4
  <2>2. QED
    BY <1>15, <2>1, DigitsAre
<1>24. Unsigned(LowBytes(EncodeInt(i))) = i % BYTE ^ INT
  BY <1>2, <1>4, <1>21, <1>22, <1>23
<1>25. QED
  BY <1>18, <1>19, <1>20, <1>21, <1>24

\* The zero address.
LEMMA ZerosNumber ==
    ASSUME NEW k \in 0 .. WORD
    PROVE  Zeros(k) = BigEndian(0, k)
<1>1. WORD \in Nat /\ k \in Nat /\ k + 0 <= WORD + 1 /\ 0 \in 0 .. WORD + 1
  BY EncodingAssumption
<1>2. 0 < BYTE ^ 0
  BY PowersAssumption
<1>3. Zeros(k) \o BigEndian(0, 0) = BigEndian(0, k + 0)
  BY <1>1, <1>2, ZerosBefore
<1>4. PICK e : e = BigEndian(0, 0)
  OBVIOUS
<1>5. e \in Seq(Digits) /\ Len(e) = 0
  BY <1>1, <1>4, BigEndianIs
<1>6. PICK z : z = Zeros(k)
  OBVIOUS
<1>7. z \in Seq(Digits) /\ Len(z) = k
  BY <1>1, <1>6, ZerosIs
<1>8. z \in Seq(Digits) /\ e \in Seq(Digits)
  BY <1>5, <1>7
<1>9. /\ z \o e \in Seq(Digits) /\ Len(z \o e) = Len(z) + Len(e)
      /\ \A i \in 1 .. Len(z) : (z \o e)[i] = z[i]
  BY <1>8, ConcatOf
<1>10. z \o e \in Seq(Digits) /\ z \in Seq(Digits) /\ Len(z \o e) = Len(z)
       /\ \A i \in 1 .. Len(z \o e) : (z \o e)[i] = z[i]
  BY <1>5, <1>7, <1>9
<1>11. z \o e = z
  BY <1>10, SeqEqual
<1>12. k + 0 = k
  BY <1>1
<1>13. QED
  BY <1>3, <1>4, <1>6, <1>11, <1>12

\* An address is a word.
LEMMA AddressWord ==
    ASSUME NEW a \in Seq(Digits), Len(a) = ADDRESS
    PROVE  EncodeAddress(a) \in Seq(Digits) /\ Len(EncodeAddress(a)) = WORD
<1>1. WORD \in Nat /\ ADDRESS \in Nat /\ WORD - ADDRESS \in Nat
  BY EncodingAssumption
<1>2. PICK z : z = Zeros(WORD - ADDRESS)
  OBVIOUS
<1>3. z \in Seq(Digits) /\ Len(z) = WORD - ADDRESS
  BY <1>1, <1>2, ZerosIs
<1>4. z \o a \in Seq(Digits) /\ Len(z \o a) = Len(z) + Len(a)
  BY <1>3, ConcatOf
<1>5. QED
  BY <1>1, <1>2, <1>3, <1>4 DEF EncodeAddress

LEMMA ZeroAddress == EncodeAddress(Zeros(ADDRESS)) = BigEndian(0, WORD)
<1>1. /\ WORD \in Nat /\ ADDRESS \in Nat /\ WORD - ADDRESS \in Nat /\ ADDRESS \in 0 .. WORD
      /\ (WORD - ADDRESS) + ADDRESS <= WORD + 1 /\ (WORD - ADDRESS) + ADDRESS = WORD
      /\ ADDRESS \in 0 .. WORD + 1
  BY EncodingAssumption
<1>2. 0 < BYTE ^ ADDRESS
  <2>1. BYTE ^ ADDRESS \in Nat /\ BYTE ^ ADDRESS >= 1
    BY <1>1, Power
  <2>2. QED
    BY <2>1
<1>3. Zeros(ADDRESS) = BigEndian(0, ADDRESS)
  BY <1>1, ZerosNumber
<1>4. Zeros(WORD - ADDRESS) \o BigEndian(0, ADDRESS)
          = BigEndian(0, (WORD - ADDRESS) + ADDRESS)
  BY <1>1, <1>2, ZerosBefore
<1>5. QED
  BY <1>1, <1>3, <1>4 DEF EncodeAddress

\* The token's word read as a signed number.
LEMMA SignedIs ==
    ASSUME NEW n \in Nat, n < BYTE ^ WORD
    PROVE  Signed(BigEndian(n, WORD)) = n \/ 2 * n >= BYTE ^ WORD
<1>1. WORD \in Nat /\ WORD >= 1 /\ BYTE \in Nat /\ BYTE % 2 = 0 /\ BYTE > 0
      /\ WORD \in 0 .. WORD + 1 /\ WORD - 1 \in 0 .. WORD /\ WORD - 1 \in 0 .. WORD + 1
      /\ (WORD - 1) + 1 = WORD
  BY EncodingAssumption
<1>2. PICK w : w = BigEndian(n, WORD)
  OBVIOUS
<1>3. Len(w) = WORD /\ w[1] = (n \div BYTE ^ (WORD - 1)) % BYTE
  <2>1. /\ Len(w) = WORD
        /\ \A i \in 1 .. WORD : w[i] = (n \div BYTE ^ (WORD - i)) % BYTE
    BY <1>1, <1>2, BigEndianIs
  <2>2. 1 \in 1 .. WORD
    BY <1>1
  <2>3. QED
    BY <2>1, <2>2
<1>4. CASE w[1] >= BYTE \div 2
  <2>1. BYTE ^ (WORD - 1) \in Nat /\ BYTE ^ (WORD - 1) >= 1
        /\ BYTE ^ WORD = BYTE * BYTE ^ (WORD - 1)
    BY <1>1, Power, PowersAssumption
  <2>2. PICK p \in Nat, b \in Nat : p = BYTE ^ (WORD - 1) /\ b = BYTE /\ p > 0 /\ b > 0
    BY <1>1, <2>1
  <2>3. PICK q \in Nat, s \in 0 .. p - 1 : q = n \div p /\ n = q * p + s
    <3>0. \A k, m \in Nat : m > 0 => k \div m \in Nat /\ k % m \in 0 .. m - 1
                                   /\ k = (k \div m) * m + (k % m)
      BY Division
    <3>1. /\ n \div p \in Nat /\ n % p \in 0 .. p - 1
          /\ n = (n \div p) * p + (n % p)
      BY <2>2, <3>0, Zenon
    <3>2. QED
      BY <3>1
  <2>4. PICK t \in Nat, d \in 0 .. b - 1 : d = q % b /\ q = t * b + d
    <3>1. /\ q \div b \in Nat /\ q % b \in 0 .. b - 1
          /\ q = (q \div b) * b + (q % b)
      BY <2>2, Division
    <3>2. QED
      BY <3>1
  <2>5. d >= b \div 2
    BY <1>3, <1>4, <2>2, <2>3, <2>4
  <2>6. b % 2 = 0
    BY <1>1, <2>2
  <2>7. 2 * d >= b
    BY <2>5, <2>6
  <2>8. t * b \in Nat
    BY SMT
  <2>9. 2 * q >= b
    BY <2>4, <2>7, <2>8
  <2>10. (2 * q) * p >= b * p
    BY <2>9, SMT
  <2>11. 2 * (q * p) = (2 * q) * p /\ q * p \in Nat /\ b * p \in Nat /\ (2 * q) * p \in Nat
    BY SMT
  <2>12. 2 * n >= b * p
    BY <2>3, <2>10, <2>11
  <2>13. QED
    BY <2>1, <2>2, <2>12
<1>5. CASE ~(w[1] >= BYTE \div 2)
  <2>1. Signed(w) = Unsigned(w)
    BY <1>5 DEF Signed
  <2>2. QED
    BY <1>2, <2>1, UnsignedIs
<1>6. QED
  BY <1>4, <1>5
---------------------------------------------------------------------------
(* The bytes of an order, cut into words.                                  *)

\* The j-th word behind the salt.
Slice(bytes, j) == SubSeq(bytes, SALT + (j - 1) * WORD + 1, SALT + j * WORD)

\* The first k of the words p follow the salt.
Cut(c, p, k) ==
    /\ c \in Seq(Digits) /\ Len(c) = SALT + k * WORD
    /\ \A j \in 1 .. k : Slice(c, j) = p[j]

LEMMA CutMore ==
    ASSUME NEW k \in Nat, NEW p, NEW c, Cut(c, p, k),
           p[k + 1] \in Seq(Digits), Len(p[k + 1]) = WORD
    PROVE  Cut(c \o p[k + 1], p, k + 1)
<1>1. WORD \in Nat /\ SALT \in Nat
  BY EncodingAssumption
<1>2. PICK v : v = p[k + 1]
  OBVIOUS
<1>3. v \in Seq(Digits) /\ Len(v) = WORD
  BY <1>2
<1>4. PICK n \in Nat : n = SALT + k * WORD
  BY <1>1, SMT
<1>5. c \in Seq(Digits) /\ Len(c) = n /\ \A j \in 1 .. k : Slice(c, j) = p[j]
  BY <1>4 DEF Cut
<1>6. PICK b : b = c \o v
  OBVIOUS
<1>7. c \in Seq(Digits) /\ v \in Seq(Digits)
  BY <1>3, <1>5
<1>8. /\ b \in Seq(Digits) /\ Len(b) = Len(c) + Len(v)
      /\ \A i \in 1 .. Len(c) : b[i] = c[i]
      /\ \A i \in 1 .. Len(v) : b[Len(c) + i] = v[i]
  BY <1>6, <1>7, ConcatOf
<1>9. /\ Len(b) = n + WORD
      /\ \A i \in 1 .. n : b[i] = c[i]
      /\ \A i \in 1 .. WORD : b[n + i] = v[i]
  BY <1>3, <1>5, <1>8
<1>10. SALT + (k + 1) * WORD = n + WORD
  <2>1. (k + 1) * WORD = k * WORD + WORD
    BY <1>1, SMT
  <2>2. k * WORD \in Nat
    BY <1>1, SMT
  <2>3. QED
    BY <1>1, <1>4, <2>1, <2>2
<1>11. ASSUME NEW m \in Nat, NEW s, s \in Seq(Digits), m + WORD <= Len(s)
       PROVE  /\ SubSeq(s, m + 1, m + WORD) \in Seq(Digits)
              /\ Len(SubSeq(s, m + 1, m + WORD)) = WORD
              /\ \A i \in 1 .. WORD : SubSeq(s, m + 1, m + WORD)[i] = s[m + i]
  <2>1. /\ m + 1 \in Nat /\ m + WORD \in Nat /\ m + 1 >= 1 /\ m + 1 <= (m + WORD) + 1
        /\ (m + WORD) - (m + 1) + 1 = WORD
        /\ \A i \in 1 .. WORD : (m + 1) + i - 1 = m + i
    BY <1>1
  <2>2. /\ SubSeq(s, m + 1, m + WORD) \in Seq(Digits)
        /\ Len(SubSeq(s, m + 1, m + WORD)) = (m + WORD) - (m + 1) + 1
        /\ \A i \in 1 .. (m + WORD) - (m + 1) + 1 :
               SubSeq(s, m + 1, m + WORD)[i] = s[(m + 1) + i - 1]
    BY <1>11, <2>1, SubSeqOf
  <2>3. QED
    BY <2>1, <2>2
<1>12. Slice(b, k + 1) = v
  <2>1. (k + 1) - 1 = k
    OBVIOUS
  <2>2. Slice(b, k + 1) = SubSeq(b, n + 1, n + WORD)
    BY <1>4, <1>10, <2>1 DEF Slice
  <2>3. PICK w : w = SubSeq(b, n + 1, n + WORD)
    OBVIOUS
  <2>4. n + WORD <= Len(b)
    BY <1>1, <1>9
  <2>5. w \in Seq(Digits) /\ Len(w) = WORD /\ \A i \in 1 .. WORD : w[i] = b[n + i]
    BY <1>8, <1>11, <2>3, <2>4
  <2>6. w \in Seq(Digits) /\ v \in Seq(Digits) /\ Len(w) = Len(v)
        /\ \A i \in 1 .. Len(w) : w[i] = v[i]
    BY <1>3, <1>9, <2>5
  <2>7. w = v
    BY <2>6, SeqEqual
  <2>8. QED
    BY <2>2, <2>3, <2>7
<1>13. ASSUME NEW j \in 1 .. k PROVE Slice(b, j) = p[j]
  <2>1. PICK i \in Nat : i = j - 1
    OBVIOUS
  <2>2. PICK m \in Nat : m = SALT + i * WORD
    BY <1>1, SMT
  <2>3. SALT + j * WORD = m + WORD
    <3>1. (i + 1) * WORD = i * WORD + WORD
      BY <1>1, SMT
    <3>2. i * WORD \in Nat
      BY <1>1, SMT
    <3>3. j = i + 1
      BY <2>1
    <3>4. QED
      BY <1>1, <2>2, <3>1, <3>2, <3>3
  <2>4. m + WORD <= n
    <3>1. j * WORD <= k * WORD
      BY <1>1, SMT
    <3>2. j * WORD \in Nat /\ k * WORD \in Nat
      BY <1>1, SMT
    <3>3. QED
      BY <1>1, <1>4, <2>3, <3>1, <3>2
  <2>5. Slice(b, j) = SubSeq(b, m + 1, m + WORD) /\ Slice(c, j) = SubSeq(c, m + 1, m + WORD)
    BY <2>1, <2>2, <2>3 DEF Slice
  <2>6. PICK x : x = SubSeq(b, m + 1, m + WORD)
    OBVIOUS
  <2>7. PICK y : y = SubSeq(c, m + 1, m + WORD)
    OBVIOUS
  <2>8. m + WORD <= Len(b) /\ m + WORD <= Len(c)
    BY <1>1, <1>5, <1>9, <2>4
  <2>9. x \in Seq(Digits) /\ Len(x) = WORD /\ \A e \in 1 .. WORD : x[e] = b[m + e]
    BY <1>8, <1>11, <2>6, <2>8
  <2>10. y \in Seq(Digits) /\ Len(y) = WORD /\ \A e \in 1 .. WORD : y[e] = c[m + e]
    BY <1>5, <1>11, <2>7, <2>8
  <2>11. ASSUME NEW e \in 1 .. WORD PROVE x[e] = y[e]
    <3>1. m + e \in 1 .. n
      BY <1>1, <2>4
    <3>2. QED
      BY <1>9, <2>9, <2>10, <3>1
  <2>12. x \in Seq(Digits) /\ y \in Seq(Digits) /\ Len(x) = Len(y)
         /\ \A e \in 1 .. Len(x) : x[e] = y[e]
    BY <2>9, <2>10, <2>11
  <2>13. x = y
    BY <2>12, SeqEqual
  <2>14. QED
    BY <1>5, <2>5, <2>6, <2>7, <2>13
<1>14. ASSUME NEW j \in 1 .. k + 1 PROVE Slice(b, j) = p[j]
  <2>1. j \in 1 .. k \/ j = k + 1
    OBVIOUS
  <2>2. QED
    BY <1>2, <1>12, <1>13, <2>1
<1>15. Len(b) = SALT + (k + 1) * WORD
  BY <1>9, <1>10
<1>16. Cut(b, p, k + 1)
  BY <1>8, <1>14, <1>15 DEF Cut
<1>17. QED
  BY <1>2, <1>6, <1>16

\* Counted from the end, when there are eleven.
LEMMA WordIsSlice ==
    ASSUME NEW c, Len(c) = SALT + 11 * WORD, NEW j \in 1 .. 11
    PROVE  Word(c, j) = Slice(c, j)
<1>1. WORD \in Nat /\ SALT \in Nat
  BY EncodingAssumption
<1>2. PICK i \in Nat : i = j - 1
  OBVIOUS
<1>3. /\ 12 - j = 11 - i /\ 11 - j \in Nat /\ 11 - i \in Nat
  BY <1>2
<1>4. /\ 11 * WORD = (11 - i) * WORD + i * WORD
      /\ 11 * WORD = (11 - j) * WORD + j * WORD
      /\ (11 - i) * WORD \in Nat /\ i * WORD \in Nat
      /\ (11 - j) * WORD \in Nat /\ j * WORD \in Nat
  BY <1>1, <1>3, SMT
<1>5. /\ Len(c) - (12 - j) * WORD + 1 = SALT + (j - 1) * WORD + 1
      /\ Len(c) - (11 - j) * WORD = SALT + j * WORD
  BY <1>1, <1>2, <1>3, <1>4
<1>6. QED
  BY <1>5 DEF Word, Slice

\* The words of an order.
Words(order) ==
    << EncodeAddress(order.maker), EncodeAddress(order.signer),
       EncodeAddress(order.taker), order.tokenId,
       EncodeInt(order.makerAmount), EncodeInt(order.takerAmount),
       EncodeInt(order.expiration), EncodeInt(order.nonce),
       EncodeInt(order.feeRateBps), EncodeInt(order.side),
       EncodeInt(order.signatureType) >>

LEMMA EncodedWords ==
    ASSUME NEW order,
           order.salt \in Seq(Digits), Len(order.salt) = SALT,
           order.maker \in Seq(Digits), Len(order.maker) = ADDRESS,
           order.signer \in Seq(Digits), Len(order.signer) = ADDRESS,
           order.taker \in Seq(Digits), Len(order.taker) = ADDRESS,
           order.tokenId \in Seq(Digits), Len(order.tokenId) = WORD,
           order.makerAmount \in Ints, order.takerAmount \in Ints,
           order.expiration \in Ints, order.nonce \in Ints,
           order.feeRateBps \in Ints, order.side \in Ints,
           order.signatureType \in Ints
    PROVE  Cut(EncodeData(order), Words(order), 11)
<1>1. PICK p : p = Words(order)
  OBVIOUS
<1>2. /\ p[1] = EncodeAddress(order.maker) /\ p[2] = EncodeAddress(order.signer)
      /\ p[3] = EncodeAddress(order.taker) /\ p[4] = order.tokenId
      /\ p[5] = EncodeInt(order.makerAmount) /\ p[6] = EncodeInt(order.takerAmount)
      /\ p[7] = EncodeInt(order.expiration) /\ p[8] = EncodeInt(order.nonce)
      /\ p[9] = EncodeInt(order.feeRateBps) /\ p[10] = EncodeInt(order.side)
      /\ p[11] = EncodeInt(order.signatureType)
  BY <1>1 DEF Words
<1>3. /\ p[1] \in Seq(Digits) /\ Len(p[1]) = WORD
      /\ p[2] \in Seq(Digits) /\ Len(p[2]) = WORD
      /\ p[3] \in Seq(Digits) /\ Len(p[3]) = WORD
  BY <1>2, AddressWord
<1>4. p[4] \in Seq(Digits) /\ Len(p[4]) = WORD
  BY <1>2
<1>5. /\ p[5] \in Seq(Digits) /\ Len(p[5]) = WORD
      /\ p[6] \in Seq(Digits) /\ Len(p[6]) = WORD
      /\ p[7] \in Seq(Digits) /\ Len(p[7]) = WORD
      /\ p[8] \in Seq(Digits) /\ Len(p[8]) = WORD
      /\ p[9] \in Seq(Digits) /\ Len(p[9]) = WORD
      /\ p[10] \in Seq(Digits) /\ Len(p[10]) = WORD
      /\ p[11] \in Seq(Digits) /\ Len(p[11]) = WORD
  BY <1>2, IntWord
<1>6. PICK c0 : c0 = order.salt
  OBVIOUS
<1>7. PICK c1 : c1 = c0 \o p[1]
  OBVIOUS
<1>8. PICK c2 : c2 = c1 \o p[2]
  OBVIOUS
<1>9. PICK c3 : c3 = c2 \o p[3]
  OBVIOUS
<1>10. PICK c4 : c4 = c3 \o p[4]
  OBVIOUS
<1>11. PICK c5 : c5 = c4 \o p[5]
  OBVIOUS
<1>12. PICK c6 : c6 = c5 \o p[6]
  OBVIOUS
<1>13. PICK c7 : c7 = c6 \o p[7]
  OBVIOUS
<1>14. PICK c8 : c8 = c7 \o p[8]
  OBVIOUS
<1>15. PICK c9 : c9 = c8 \o p[9]
  OBVIOUS
<1>16. PICK c10 : c10 = c9 \o p[10]
  OBVIOUS
<1>17. PICK c11 : c11 = c10 \o p[11]
  OBVIOUS
<1>18. c11 = EncodeData(order)
  BY <1>2, <1>6, <1>7, <1>8, <1>9, <1>10, <1>11, <1>12, <1>13, <1>14, <1>15, <1>16, <1>17
     DEF EncodeData
<1>19. \A k \in Nat : \A c :
                         /\ Cut(c, p, k)
                         /\ p[k + 1] \in Seq(Digits) /\ Len(p[k + 1]) = WORD
                         => Cut(c \o p[k + 1], p, k + 1)
  BY CutMore
<1>20. Cut(c0, p, 0)
  <2>1. SALT + 0 * WORD = SALT
    BY EncodingAssumption
  <2>2. QED
    BY <1>6, <2>1 DEF Cut
<1>21. /\ 0 + 1 = 1 /\ 1 + 1 = 2 /\ 2 + 1 = 3 /\ 3 + 1 = 4 /\ 4 + 1 = 5 /\ 5 + 1 = 6
       /\ 6 + 1 = 7 /\ 7 + 1 = 8 /\ 8 + 1 = 9 /\ 9 + 1 = 10 /\ 10 + 1 = 11
       /\ 0 \in Nat /\ 1 \in Nat /\ 2 \in Nat /\ 3 \in Nat /\ 4 \in Nat /\ 5 \in Nat
       /\ 6 \in Nat /\ 7 \in Nat /\ 8 \in Nat /\ 9 \in Nat /\ 10 \in Nat
  OBVIOUS
<1>22. Cut(c1, p, 1)
  BY <1>3, <1>7, <1>19, <1>20, <1>21, Zenon
<1>23. Cut(c2, p, 2)
  BY <1>3, <1>8, <1>19, <1>21, <1>22, Zenon
<1>24. Cut(c3, p, 3)
  BY <1>3, <1>9, <1>19, <1>21, <1>23, Zenon
<1>25. Cut(c4, p, 4)
  BY <1>4, <1>10, <1>19, <1>21, <1>24, Zenon
<1>26. Cut(c5, p, 5)
  BY <1>5, <1>11, <1>19, <1>21, <1>25, Zenon
<1>27. Cut(c6, p, 6)
  BY <1>5, <1>12, <1>19, <1>21, <1>26, Zenon
<1>28. Cut(c7, p, 7)
  BY <1>5, <1>13, <1>19, <1>21, <1>27, Zenon
<1>29. Cut(c8, p, 8)
  BY <1>5, <1>14, <1>19, <1>21, <1>28, Zenon
<1>30. Cut(c9, p, 9)
  BY <1>5, <1>15, <1>19, <1>21, <1>29, Zenon
<1>31. Cut(c10, p, 10)
  BY <1>5, <1>16, <1>19, <1>21, <1>30, Zenon
<1>32. Cut(c11, p, 11)
  BY <1>5, <1>17, <1>19, <1>21, <1>31, Zenon
<1>33. QED
  BY <1>1, <1>18, <1>32

\* Every signed order says what was asked for.
SaysAsAsked(s) ==
    /\ \A i \in 1 .. 2 : Word(s.sig[2], i) = Zeros(WORD - ADDRESS) \o Own
    /\ Unsigned(Word(s.sig[2], 3)) = 0
    /\ Unsigned(Word(s.sig[2], 4)) = s.args.tokenId
    /\ WordSays(Word(s.sig[2], 5), AmountsOf(s.args).makerAmount)
    /\ WordSays(Word(s.sig[2], 6), AmountsOf(s.args).takerAmount)
    /\ WordSays(Word(s.sig[2], 7), s.args.expiration)
    /\ WordSays(Word(s.sig[2], 8), s.args.nonce)
    /\ WordSays(Word(s.sig[2], 10), s.args.side)
    /\ s.sig[1] = s.args.negativeRisk

LEMMA SmallInts == 0 \in Ints /\ 1 \in Ints
<1>1. /\ WORD \in Nat /\ INT \in Nat /\ INT >= 1 /\ INT <= WORD - 1
      /\ BYTE \in Nat /\ BYTE >= 4
  BY EncodingAssumption
<1>2. BYTE ^ 1 = BYTE
  <2>1. 0 \in 0 .. WORD /\ 0 + 1 = 1
    BY <1>1
  <2>2. BYTE ^ (0 + 1) = BYTE * BYTE ^ 0 /\ BYTE ^ 0 = 1
    BY <2>1, PowersAssumption
  <2>3. QED
    BY <1>1, <2>1, <2>2
<1>3. BYTE ^ 1 <= BYTE ^ INT
  BY <1>1, PowerMore
<1>4. INT \in 0 .. WORD + 1
  BY <1>1
<1>5. PICK p \in Nat : p = BYTE ^ INT /\ p >= 4
  BY <1>1, <1>2, <1>3, <1>4, Power
<1>6. p \div 2 >= 2 /\ p \div 2 \in Nat
  BY <1>5
<1>7. QED
  BY <1>5, <1>6 DEF Ints

\* A number's word, read.
LEMMA IntSays ==
    ASSUME NEW i \in Ints
    PROVE  WordSays(EncodeInt(i), i)
<1> SUFFICES ASSUME i >= 0 PROVE Unsigned(EncodeInt(i)) = i
  BY IntWord DEF WordSays
<1>1. i < BYTE ^ WORD /\ EncodeInt(i) = BigEndian(i, WORD)
  BY IntWord
<1>2. BYTE ^ INT \in Nat
  <2>1. INT \in 0 .. WORD + 1
    BY EncodingAssumption
  <2>2. QED
    BY <2>1, Power
<1>3. i \in Nat
  <2>1. PICK p \in Nat : p = BYTE ^ INT
    BY <1>2
  <2>2. p \div 2 \in Nat
    BY <2>1
  <2>3. i \in Int
    BY <2>1, <2>2 DEF Ints
  <2>4. QED
    BY <2>3
<1>4. QED
  BY <1>1, <1>3, UnsignedIs

\* What createSignedOrder returns says what it was asked for.
LEMMA SignedSays ==
    ASSUME NEW args \in OrderArgs, args.side \in {BUY, SELL}, NEW salt \in Nat
    PROVE  SaysAsAsked(SignedOrder(args, salt))
<1>1. /\ WORD \in Nat /\ SALT \in Nat /\ SALT \in 0 .. WORD + 1 /\ ADDRESS \in Nat
      /\ WORD \in 0 .. WORD + 1 /\ 0 \in Nat
  BY EncodingAssumption
<1>2. PICK o : o = OrderStruct(args, salt)
  OBVIOUS
<1>3. /\ o.salt = RandomU256(salt) /\ o.maker = Own /\ o.signer = Own
      /\ o.taker = Zeros(ADDRESS) /\ o.tokenId = Pad64(ToByteArray(args.tokenId))
      /\ o.expiration = args.expiration /\ o.nonce = args.nonce
      /\ o.feeRateBps = 0 /\ o.side = args.side /\ o.signatureType = 1
      /\ o.makerAmount = AmountsOf(args).makerAmount
      /\ o.takerAmount = AmountsOf(args).takerAmount
  BY <1>2 DEF OrderStruct
<1>4. /\ o.makerAmount \in Ints /\ o.takerAmount \in Ints
      /\ o.makerAmount >= 0 /\ o.takerAmount >= 0
      /\ o.expiration \in Ints /\ o.nonce \in Ints
  BY <1>3, OrderAssumption
<1>5. /\ o.feeRateBps \in Ints /\ o.signatureType \in Ints
      /\ o.side \in Ints /\ o.side >= 0
  BY <1>3, SmallInts DEF BUY, SELL
<1>6. PICK t \in Nat : t = args.tokenId /\ t < BYTE ^ WORD
  <2>1. args.tokenId \in 0 .. BYTE ^ WORD - 1 /\ BYTE ^ WORD \in Nat
    BY <1>1, OrderAssumption, Power
  <2>2. QED
    BY <2>1
<1>7. o.tokenId = BigEndian(t, WORD)
  BY <1>3, <1>6, TokenWord
<1>8. o.tokenId \in Seq(Digits) /\ Len(o.tokenId) = WORD
  BY <1>1, <1>7, BigEndianIs
<1>9. o.salt \in Seq(Digits) /\ Len(o.salt) = SALT
  BY <1>1, <1>3, BigEndianIs DEF RandomU256
<1>10. /\ o.maker \in Seq(Digits) /\ Len(o.maker) = ADDRESS
       /\ o.signer \in Seq(Digits) /\ Len(o.signer) = ADDRESS
  BY <1>3, OrderAssumption DEF Digits
<1>11. o.taker \in Seq(Digits) /\ Len(o.taker) = ADDRESS
  BY <1>1, <1>3, ZerosIs
<1>12. Cut(EncodeData(o), Words(o), 11)
  BY <1>4, <1>5, <1>8, <1>9, <1>10, <1>11, EncodedWords
<1>13. PICK c : c = EncodeData(o)
  OBVIOUS
<1>14. \A j \in 1 .. 11 : Word(c, j) = Words(o)[j]
  BY <1>12, <1>13, WordIsSlice DEF Cut
<1>15. /\ Word(c, 1) = EncodeAddress(Own) /\ Word(c, 2) = EncodeAddress(Own)
       /\ Word(c, 3) = EncodeAddress(Zeros(ADDRESS)) /\ Word(c, 4) = o.tokenId
       /\ Word(c, 5) = EncodeInt(o.makerAmount) /\ Word(c, 6) = EncodeInt(o.takerAmount)
       /\ Word(c, 7) = EncodeInt(o.expiration) /\ Word(c, 8) = EncodeInt(o.nonce)
       /\ Word(c, 10) = EncodeInt(o.side)
  BY <1>3, <1>14 DEF Words
<1>16. Unsigned(Word(c, 3)) = 0
  <2>1. BYTE ^ WORD \in Nat /\ BYTE ^ WORD >= 1
    BY <1>1, Power
  <2>2. 0 < BYTE ^ WORD
    BY <2>1
  <2>3. Unsigned(BigEndian(0, WORD)) = 0
    BY <1>1, <2>2, UnsignedIs
  <2>4. QED
    BY <1>15, <2>3, ZeroAddress
<1>17. Unsigned(Word(c, 4)) = args.tokenId
  BY <1>6, <1>7, <1>15, UnsignedIs
<1>18. /\ WordSays(Word(c, 5), o.makerAmount) /\ WordSays(Word(c, 6), o.takerAmount)
       /\ WordSays(Word(c, 7), args.expiration) /\ WordSays(Word(c, 8), args.nonce)
       /\ WordSays(Word(c, 10), o.side)
  BY <1>3, <1>4, <1>5, <1>15, IntSays
<1>19. PICK s : s = SignedOrder(args, salt)
  OBVIOUS
<1>20. /\ s.args = args /\ s.order = o
       /\ s.sig[1] = args.negativeRisk /\ s.sig[2] = c
  BY <1>2, <1>13, <1>19 DEF SignedOrder, Digest
<1>21. \A i \in 1 .. 2 : Word(c, i) = Zeros(WORD - ADDRESS) \o Own
  <2>1. \A i \in 1 .. 2 : i = 1 \/ i = 2
    OBVIOUS
  <2>2. QED
    BY <1>15, <2>1 DEF EncodeAddress
<1>22. SaysAsAsked(s)
  BY <1>3, <1>16, <1>17, <1>18, <1>20, <1>21 DEF SaysAsAsked
<1>23. QED
  BY <1>19, <1>22

\* What is sent of a signed order says what the signature is over.
SaysAsSigned(o) ==
    /\ \/ o.tokenId = Unsigned(Word(o.signature[2], 4))
       \/ 2 * Unsigned(Word(o.signature[2], 4)) >= BYTE ^ WORD
    /\ o.makerAmount = Unsigned(Word(o.signature[2], 5))
    /\ o.takerAmount = Unsigned(Word(o.signature[2], 6))
    /\ o.expiration >= 0 => o.expiration = Unsigned(Word(o.signature[2], 7))
    /\ o.nonce >= 0 => o.nonce = Unsigned(Word(o.signature[2], 8))
    /\ o.side = (IF Unsigned(Word(o.signature[2], 10)) = BUY THEN "BUY" ELSE "SELL")

LEMMA PlacedSays ==
    ASSUME NEW args \in OrderArgs, args.side \in {BUY, SELL}, NEW salt \in Nat, NEW k
    PROVE  SaysAsSigned(Placed(SignedOrder(args, salt), k))
<1>1. PICK s : s = SignedOrder(args, salt)
  OBVIOUS
<1>2. PICK o : o = Placed(s, k)
  OBVIOUS
<1>3. SaysAsAsked(s)
  BY <1>1, SignedSays
<1>4. /\ o.signature = s.sig
      /\ o.side = IF s.order.side = 0 THEN "BUY" ELSE "SELL"
      /\ o.expiration = s.order.expiration /\ o.nonce = s.order.nonce
      /\ o.makerAmount = s.order.makerAmount /\ o.takerAmount = s.order.takerAmount
      /\ o.tokenId = Signed(s.order.tokenId)
  BY <1>2 DEF Placed, OrderToJson
<1>5. /\ s.args = args /\ s.order.side = args.side
      /\ s.order.expiration = args.expiration /\ s.order.nonce = args.nonce
      /\ s.order.makerAmount = AmountsOf(args).makerAmount
      /\ s.order.takerAmount = AmountsOf(args).takerAmount
      /\ s.order.tokenId = Pad64(ToByteArray(args.tokenId))
  BY <1>1 DEF SignedOrder, OrderStruct
<1>6. PICK t \in Nat : t = args.tokenId /\ t < BYTE ^ WORD
  <2>1. WORD \in 0 .. WORD + 1
    BY EncodingAssumption
  <2>2. args.tokenId \in 0 .. BYTE ^ WORD - 1 /\ BYTE ^ WORD \in Nat
    BY <2>1, OrderAssumption, Power
  <2>3. QED
    BY <2>2
<1>7. s.order.tokenId = BigEndian(t, WORD)
  BY <1>5, <1>6, TokenWord
<1>8. o.tokenId = t \/ 2 * t >= BYTE ^ WORD
  BY <1>4, <1>6, <1>7, SignedIs
<1>9. t = Unsigned(Word(o.signature[2], 4))
  BY <1>3, <1>4, <1>5, <1>6 DEF SaysAsAsked
<1>10. /\ WordSays(Word(o.signature[2], 5), o.makerAmount)
       /\ WordSays(Word(o.signature[2], 6), o.takerAmount)
       /\ WordSays(Word(o.signature[2], 7), o.expiration)
       /\ WordSays(Word(o.signature[2], 8), o.nonce)
       /\ WordSays(Word(o.signature[2], 10), args.side)
  BY <1>3, <1>4, <1>5 DEF SaysAsAsked
<1>11. o.makerAmount >= 0 /\ o.takerAmount >= 0 /\ args.side >= 0
  BY <1>4, <1>5, OrderAssumption DEF BUY, SELL
<1>12. /\ o.makerAmount = Unsigned(Word(o.signature[2], 5))
       /\ o.takerAmount = Unsigned(Word(o.signature[2], 6))
       /\ o.expiration >= 0 => o.expiration = Unsigned(Word(o.signature[2], 7))
       /\ o.nonce >= 0 => o.nonce = Unsigned(Word(o.signature[2], 8))
       /\ args.side = Unsigned(Word(o.signature[2], 10))
  BY <1>10, <1>11 DEF WordSays
<1>13. o.side = IF Unsigned(Word(o.signature[2], 10)) = BUY THEN "BUY" ELSE "SELL"
  BY <1>4, <1>5, <1>12 DEF BUY
<1>14. SaysAsSigned(o)
  BY <1>8, <1>9, <1>12, <1>13 DEF SaysAsSigned
<1>15. QED
  BY <1>1, <1>2, <1>14

\* Whatever is asked for, the bytes under the signature, cut into words, say
\* so, for any size of bytes, words, ints, addresses and salts
\* (OrderStruct.encodeData, EIP712Signature, OrderArgs.pad64).
THEOREM AskedIsSigned == Spec => []SignedAsAsked
<1>1. OrdersInv => SignedAsAsked
  <2> SUFFICES ASSUME OrdersInv, signed # NULL PROVE SignedAsAsked
    BY DEF SignedAsAsked
  <2>1. /\ signed = SignedOrder(signed.args, asked)
        /\ signed.args \in OrderArgs /\ signed.args.side \in {BUY, SELL}
        /\ asked \in Nat
    BY ClobAssumption DEF OrdersInv, Salted
  <2>2. SaysAsAsked(signed)
    BY <2>1, SignedSays
  <2>3. QED
    BY <2>2 DEF SaysAsAsked, SignedAsAsked
<1>2. QED
  BY <1>1, Orders, PTL

\* Every order the exchange took says in numbers what its signature says in
\* bytes, for the tokens in the lower half of the range, however often it was
\* asked for and placed (SignedOrder.toString, OrderRequests.placeOrder).
THEOREM SignedIsPlaced == Spec => []PlacedAsSigned
<1>1. OrdersInv => PlacedAsSigned
  <2> SUFFICES ASSUME OrdersInv, NEW o \in book PROVE SaysAsSigned(o)
    BY DEF PlacedAsSigned, SaysAsSigned
  <2>1. signed # NULL /\ signed.args \in OrderArgs /\ signed.args.side \in {BUY, SELL}
    BY DEF OrdersInv
  <2>2. PICK n \in 1 .. asked : \E k : o = Placed(SignedOrder(signed.args, n), k)
    BY DEF OrdersInv, Took, Salted
  <2>3. PICK k : o = Placed(SignedOrder(signed.args, n), k)
    BY <2>2
  <2>4. n \in Nat
    OBVIOUS
  <2>5. QED
    BY <2>1, <2>3, <2>4, PlacedSays
<1>2. QED
  BY <1>1, Orders, PTL
=============================================================================
