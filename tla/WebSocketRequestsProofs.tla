------------------------- MODULE WebSocketRequestsProofs -------------------------
(***************************************************************************)
(* Theorems about WebSocket that follow the requests from the gateway to   *)
(* the exchange and back: which requests are outstanding together, which   *)
(* of them is answered, and what cancelling all orders reaches.            *)
(***************************************************************************)
EXTENDS WebSocketProofs

-----------------------------------------------------------------------------
(* One answer per request *)

\* Requests and answers for the same order and version.
Same(a, b) == a.order = b.order /\ a.version = b.version

\* Its version is one that the dispatcher has used for the order.
Issued(x) == x.version <= Len(asked[x.order])

Waiting  == {r \in toExchange : IsAction(r)}
Replying == {m \in toGateway : IsAction(m.re)}

\* An order action that was issued is in one place at most: on the wire of the
\* session, in an answer of the exchange, or in a response to the dispatcher.
AnswersAccounted ==
  /\ \A r \in Waiting : Issued(r)
  /\ \A m \in Replying : Issued(m.re)
  /\ \A a \in answers : Issued(a)
  /\ \A r, s \in Waiting : Same(r, s) => r = s
  /\ \A m, n \in Replying : Same(m.re, n.re) => m = n
  /\ OneAnswerPerRequest
  /\ \A r \in Waiting, m \in Replying : ~ Same(r, m.re)
  /\ \A r \in Waiting, a \in answers : ~ Same(r, a)
  /\ \A m \in Replying, a \in answers : ~ Same(m.re, a)

\* Nothing is issued, answered or responded to; it may be lost.
LEMMA AccountedLess ==
  ASSUME AnswersAccounted, Waiting' \subseteq Waiting, Replying' \subseteq Replying,
         UNCHANGED <<asked, answers>>
  PROVE  AnswersAccounted'
BY DEF AnswersAccounted, Issued, OneAnswerPerRequest

\* Requests and messages that leave or join the wires and are not about an order
\* action.
LEMMA OtherTraffic ==
  ASSUME AnswersAccounted,
         \A r \in toExchange' \ toExchange : ~ IsAction(r),
         \A m \in toGateway' \ toGateway : ~ IsAction(m.re),
         UNCHANGED <<asked, answers>>
  PROVE  AnswersAccounted'
<1>1. Waiting' \subseteq Waiting /\ Replying' \subseteq Replying
  BY DEF Waiting, Replying
<1> QED
  BY <1>1, AccountedLess

\* The dispatcher issues the next version, which nobody has seen before.
LEMMA AccountedAsk ==
  ASSUME TypeOK, AnswersAccounted, NEW o \in Own, NEW type \in Actions, Ask(o, type),
         \/ Send(Action(type, o, NextVersion(o))) /\ UNCHANGED answers
         \/ Thrown(o, type) /\ UNCHANGED toExchange,
         UNCHANGED toGateway
  PROVE  AnswersAccounted'
<1>0. PICK new : new = NextVersion(o)
  OBVIOUS
<1>1. /\ asked \in [Own -> Seq(Actions)] /\ asked[o] \in Seq(Actions)
      /\ new = Len(asked[o]) + 1 /\ Len(asked[o]) \in Nat
  BY <1>0 DEF TypeOK, NextVersion
<1>2. Len(asked'[o]) = new
  BY <1>1 DEF Ask
<1>3. \A p \in Own \ {o} : asked'[p] = asked[p]
  BY <1>1 DEF Ask
<1>4. /\ \A r \in Waiting : r.order \in Own /\ r.version \in Nat
      /\ \A m \in Replying : m.re.order \in Own /\ m.re.version \in Nat
      /\ \A a \in answers : a.order \in Own /\ a.version \in Nat
  <2>1. \A r \in Waiting : r \in Request /\ IsAction(r)
    BY DEF Waiting, TypeOK
  <2>2. \A m \in Replying : m.re \in Request /\ IsAction(m.re)
    BY DEF Replying, TypeOK, Message, ExecutionReport, IsAction, Actions
  <2>3. \A a \in answers : a.order \in Own /\ a.version \in Nat
    BY DEF TypeOK
  <2> QED
    BY <2>1, <2>2, <2>3, ActionOrder
\* What has been issued stays issued and has another version.
<1>5. ASSUME NEW x, x.order \in Own, x.version \in Nat, Issued(x)
      PROVE  Issued(x)' /\ ~ (x.order = o /\ x.version = new)
  <2>1. CASE x.order = o
    BY <1>1, <1>2, <1>5, <2>1 DEF Issued
  <2>2. CASE x.order # o
    BY <1>3, <1>5, <2>2 DEF Issued
  <2> QED
    BY <2>1, <2>2
<1>6. /\ \A r \in Waiting : Issued(r)' /\ ~ (r.order = o /\ r.version = new)
      /\ \A m \in Replying : Issued(m.re)' /\ ~ (m.re.order = o /\ m.re.version = new)
      /\ \A a \in answers : Issued(a)' /\ ~ (a.order = o /\ a.version = new)
  BY <1>4, <1>5 DEF AnswersAccounted
<1>7. Replying' = Replying
  BY DEF Replying
<1>8. CASE Send(Action(type, o, new)) /\ UNCHANGED answers
  <2> DEFINE r == Action(type, o, new)
  <2>1. r.order = o /\ r.version = new
    BY DEF Action
  <2>2. Issued(r)'
    BY <1>1, <1>2, <2>1 DEF Issued
  <2> HIDE DEF r
  <2>3. Waiting' \subseteq Waiting \cup {r}
    BY <1>0, <1>8 DEF Send, Waiting, r
  <2> QED
    BY <1>6, <1>7, <1>8, <2>1, <2>2, <2>3
       DEF AnswersAccounted, OneAnswerPerRequest, Same
<1>9. CASE Thrown(o, type) /\ UNCHANGED toExchange
  <2> DEFINE a == Response(type, o, new, "THROWN")
  <2>1. a.order = o /\ a.version = new
    BY DEF Response
  <2>2. Issued(a)'
    BY <1>1, <1>2, <2>1 DEF Issued
  <2> HIDE DEF a
  <2>3. answers' = answers \cup {a} /\ Waiting' = Waiting
    BY <1>0, <1>9 DEF Thrown, Waiting, a
  <2> QED
    BY <1>6, <1>7, <2>1, <2>2, <2>3
       DEF AnswersAccounted, OneAnswerPerRequest, Same
<1> QED
  BY <1>0, <1>8, <1>9

\* The exchange takes an order action: it leaves the wire for an answer, or was
\* of a lost connection and is not answered.
LEMMA AccountedTake ==
  ASSUME AnswersAccounted, NEW r, IsAction(r), Take(r),
         NEW ok, NEW image, NEW pushed, \A m \in pushed : m.re = ExecutionReport,
         toGateway' = toGateway \cup Answers(r, ok, image) \cup pushed,
         UNCHANGED <<asked, answers>>
  PROVE  AnswersAccounted'
<1>1. ~ IsAction(ExecutionReport)
  BY DEF IsAction, ExecutionReport, Actions
<1>2. Waiting' = Waiting \ {r}
  BY DEF Waiting, Take
<1>3. \A m \in Replying' \ Replying : r \in Waiting /\ m.re = r /\ m = Reply(r, ok, image)
  BY <1>1 DEF Replying, Waiting, Answers, Reply
<1> QED
  BY <1>2, <1>3 DEF AnswersAccounted, OneAnswerPerRequest, Same, Issued

\* The gateway responds for an answer it received.
LEMMA AccountedRespond ==
  ASSUME AnswersAccounted, NEW m \in Replying, NEW a, Same(a, m.re),
         toGateway' = toGateway \ {m},
         answers' = answers \cup {a},
         UNCHANGED <<toExchange, asked>>
  PROVE  AnswersAccounted'
<1>1. Replying' = Replying \ {m} /\ Waiting' = Waiting
  BY DEF Replying, Waiting
<1> QED
  BY <1>1 DEF AnswersAccounted, OneAnswerPerRequest, Same, Issued

LEMMA AccountedInit == Init => AnswersAccounted
BY DEF Init, AnswersAccounted, Waiting, Replying, OneAnswerPerRequest

LEMMA AccountedTransport == AnswersAccounted /\ Transport => AnswersAccounted'
<1> SUFFICES ASSUME AnswersAccounted, Transport PROVE AnswersAccounted'
  OBVIOUS
<1>1. CASE Connected
  BY <1>1, OtherTraffic DEF Connected, oms
<1>2. CASE Ready
  <2>1. toExchange' = toExchange \cup {Query("SESSION_LOGON", sequence + 1)}
    BY <1>2 DEF Ready, Enter, Requests
  <2>2. ~ IsAction(Query("SESSION_LOGON", sequence + 1))
    BY DEF IsAction, Query, Actions
  <2> QED
    BY <1>2, <2>1, <2>2, OtherTraffic DEF Ready, oms
<1>3. CASE Disconnected \/ EventStreamTerminated
  BY <1>3, OtherTraffic DEF Disconnected, EventStreamTerminated, LoseConnection
<1> QED
  BY <1>1, <1>2, <1>3 DEF Transport

LEMMA AccountedDispatcher == TypeOK /\ AnswersAccounted /\ Dispatcher => AnswersAccounted'
<1> SUFFICES ASSUME TypeOK, AnswersAccounted, Dispatcher PROVE AnswersAccounted'
  OBVIOUS
<1>0. "ORDER_PLACE" \in Actions /\ "ORDER_AMEND_KEEP_PRIORITY" \in Actions
        /\ "ORDER_CANCEL" \in Actions
  BY DEF Actions
<1>1. ASSUME NEW o \in Own, CreateOrder(o) PROVE AnswersAccounted'
  <2>1. NextVersion(o) = 1
    BY <1>1 DEF CreateOrder, NextVersion
  <2> QED
    BY <1>0, <1>1, <2>1, AccountedAsk DEF CreateOrder
<1>2. ASSUME NEW o \in Own, ModifyOrder(o) PROVE AnswersAccounted'
  BY <1>0, <1>2, AccountedAsk DEF ModifyOrder
<1>3. ASSUME NEW o \in Own, CancelOrder(o) PROVE AnswersAccounted'
  BY <1>0, <1>3, AccountedAsk DEF CancelOrder
<1>4. ASSUME NEW symbols, CancelAllOrders(symbols) PROVE AnswersAccounted'
  <2>1. \A r \in toExchange' \ toExchange : ~ IsAction(r)
    BY <1>4 DEF CancelAllOrders, CancelAll, IsAction, Actions
  <2> QED
    BY <1>4, <2>1, OtherTraffic DEF CancelAllOrders, oms
<1> QED
  BY <1>1, <1>2, <1>3, <1>4 DEF Dispatcher

LEMMA AccountedExchange ==
  ASSUME TypeOK, AnswersAccounted, NEW r \in toExchange \cup orphans,
         ExchangeProcesses(r)
  PROVE  AnswersAccounted'
<1>0. ~ IsAction(ExecutionReport)
  BY DEF IsAction, ExecutionReport, Actions
<1>1. \A image : \A m \in Push(image) : m.re = ExecutionReport
  BY DEF Push, Report, Reply
<1>2. ASSUME NEW ok \in BOOLEAN, ExchangeAnswersQuery(r, ok) PROVE AnswersAccounted'
  <2>1. ~ IsAction(r) /\ \A m \in toGateway' \ toGateway : m.re = r
    BY <1>2 DEF ExchangeAnswersQuery, IsQuery, IsAction, Downloads, Actions, Reply
  <2> QED
    BY <1>2, <2>1, OtherTraffic DEF ExchangeAnswersQuery, oms
<1>3. CASE ExchangePlaces(r) \/ ExchangeAmends(r) \/ ExchangeCancels(r)
  <2> DEFINE image == ImageOf({r.order}, revision')
  <2>1. /\ IsAction(r) /\ Take(r)
        /\ toGateway' = toGateway \cup Answers(r, TRUE, image) \cup Push(image)
        /\ UNCHANGED <<asked, answers>>
    BY <1>3 DEF ExchangePlaces, ExchangeAmends, ExchangeCancels, IsAction, Actions, oms
  <2> HIDE DEF image
  <2> QED
    BY <1>1, <2>1, AccountedTake
<1>4. CASE ExchangeRejects(r)
  <2> DEFINE pushed == {}
  <2>1. /\ IsAction(r) /\ Take(r)
        /\ toGateway' = toGateway \cup Answers(r, FALSE, NoImage) \cup pushed
        /\ \A m \in pushed : m.re = ExecutionReport
        /\ UNCHANGED <<asked, answers>>
    BY <1>4 DEF ExchangeRejects, oms
  <2> HIDE DEF pushed
  <2> QED
    BY <2>1, AccountedTake
<1>5. CASE ExchangeCancelsAll(r)
  <2>1. ~ IsAction(r)
    BY <1>5 DEF ExchangeCancelsAll, IsAction, Actions
  <2>2. \A m \in toGateway' \ toGateway : m.re = r \/ m.re = ExecutionReport
    BY <1>5 DEF ExchangeCancelsAll, Answers, Push, Report, Reply
  <2>3. toExchange' \subseteq toExchange /\ UNCHANGED <<asked, answers>>
    BY <1>5 DEF ExchangeCancelsAll, Take, oms
  <2> QED
    BY <1>0, <2>1, <2>2, <2>3, OtherTraffic
<1> QED
  BY <1>2, <1>3, <1>4, <1>5 DEF ExchangeProcesses

LEMMA AccountedMarket == AnswersAccounted /\ Market => AnswersAccounted'
<1> SUFFICES ASSUME AnswersAccounted, Market PROVE AnswersAccounted'
  OBVIOUS
<1>0. ASSUME NEW image, toGateway' = toGateway \cup Push(image)
      PROVE  \A m \in toGateway' \ toGateway : m.re = ExecutionReport
  BY <1>0 DEF Push, Report, Reply
<1>1. /\ \A m \in toGateway' \ toGateway : m.re = ExecutionReport
      /\ UNCHANGED <<toExchange, asked, answers>>
  BY <1>0 DEF Market, ForeignOrder, Fill, oms
<1>2. ~ IsAction(ExecutionReport)
  BY DEF IsAction, ExecutionReport, Actions
<1> QED
  BY <1>1, <1>2, OtherTraffic

\* What the callback of the download issues is no order action.
LEMMA EnterIsNoAction ==
  ASSUME NEW state, Enter(state), state \in Downloads \cup {"DONE"}
  PROVE  \A r \in toExchange' \ toExchange : ~ IsAction(r)
BY DEF Enter, Requests, Query, TradesQuery, IsAction, Actions, Downloads

LEMMA AccountedHandle ==
  ASSUME TypeOK, AnswersAccounted, NEW m \in toGateway, Handle(m)
  PROVE  AnswersAccounted'
<1>1. ASSUME NEW state \in Downloads, CheckOrRetry(m.ok, state),
             toGateway' = toGateway \ {m}, UNCHANGED <<asked, answers>>
      PROVE  AnswersAccounted'
  <2>1. Following(state) \in Downloads \cup {"DONE"}
    BY FollowingType
  <2>2. \A r \in toExchange' \ toExchange : ~ IsAction(r)
    BY <1>1, <2>1, EnterIsNoAction DEF CheckOrRetry, Check, Retry, Stay
  <2> QED
    BY <1>1, <2>2, OtherTraffic
<1>2. ASSUME NEW state \in Downloads, OnDownloadReply(m, state) PROVE AnswersAccounted'
  BY <1>1, <1>2 DEF OnDownloadReply, Receive, oms
<1>3. CASE OnOpenOrders(m)
  BY <1>1, <1>3 DEF OnOpenOrders, Receive, Downloads
<1>4. CASE OnTrades(m)
  BY <1>1, <1>4 DEF OnTrades, Receive, Downloads
<1>5. ASSUME NEW type \in Actions, NEW good, NEW bad, Respond(m, type, good, bad)
      PROVE  AnswersAccounted'
  <2> DEFINE a == Response(IF m.ok THEN good ELSE bad, m.re.order, m.re.version,
                           IF m.ok THEN "ACCEPTED" ELSE "REJECTED")
  <2>1. m \in Replying
    BY <1>5 DEF Respond, Receive, Replying, IsAction
  <2>2. Same(a, m.re)
    BY DEF Same, Response
  <2>3. answers' = answers \cup {a}
    BY <1>5 DEF Respond
  <2> HIDE DEF a
  <2> QED
    BY <1>5, <2>1, <2>2, <2>3, AccountedRespond DEF Respond, Receive
<1>6. ASSUME NEW type, NEW image, OnUpdates(m, type, image) PROVE AnswersAccounted'
  BY <1>6, OtherTraffic DEF OnUpdates, Receive
<1>7. CASE OnSessionLogon(m) \/ OnUserDataStreamSubscribe(m) \/ OnAccount(m)
  BY <1>2, <1>7 DEF OnSessionLogon, OnUserDataStreamSubscribe, OnAccount, Downloads
<1>8. ASSUME NEW type \in Actions, Respond(m, type, type, type)
      PROVE  AnswersAccounted'
  BY <1>5, <1>8
<1>9. CASE OnOrderAmendKeepPriority(m)
  <2>1. "ORDER_AMEND_KEEP_PRIORITY" \in Actions
    BY DEF Actions
  <2> QED
    BY <1>5, <1>9, <2>1 DEF OnOrderAmendKeepPriority
<1>10. CASE OnCancelOpenOrders(m) \/ OnExecutionReport(m)
  <2>1. "OPEN_ORDERS_CANCEL_ALL" \notin Actions /\ "EXECUTION_REPORT" \notin Actions
    BY DEF Actions
  <2> QED
    BY <1>6, <1>10, <2>1 DEF OnCancelOpenOrders, OnExecutionReport
<1> QED
  <2>1. "ORDER_PLACE" \in Actions /\ "ORDER_CANCEL" \in Actions
    BY DEF Actions
  <2>2. CASE OnOrderPlace(m)
    BY <1>8, <2>1, <2>2 DEF OnOrderPlace
  <2>3. CASE OnCancelOrder(m)
    BY <1>8, <2>1, <2>3 DEF OnCancelOrder
  <2> QED
    BY <1>3, <1>4, <1>7, <1>9, <1>10, <2>2, <2>3 DEF Handle

LEMMA AccountedStep == TypeOK /\ AnswersAccounted /\ [Next]_vars => AnswersAccounted'
<1> SUFFICES ASSUME TypeOK, AnswersAccounted, [Next]_vars PROVE AnswersAccounted'
  OBVIOUS
<1>1. CASE UNCHANGED vars
  BY <1>1, OtherTraffic DEF vars, transport, oms
<1> QED
  BY <1>1, AccountedTransport, AccountedDispatcher, AccountedExchange,
     AccountedMarket, AccountedHandle DEF Next

\* The dispatcher gets at most one response for each request it has made,
\* although requests for the same order are outstanding together and the answers
\* come in any order: the version echoed by the exchange is never shared.
THEOREM AnsweredAtMostOnce == Spec => []OneAnswerPerRequest
<1>1. Spec => []AnswersAccounted
  BY AccountedInit, AccountedStep, TypeCorrect, PTL DEF Spec
<1>2. AnswersAccounted => OneAnswerPerRequest
  BY DEF AnswersAccounted
<1> QED
  BY <1>1, <1>2, PTL

-----------------------------------------------------------------------------
(* Which answers name the request, and that none is dropped *)

\* A response that answers for m: it names the request, or is the refusal of an
\* amendment, which the code reports as that of a cancellation.
AnswerTo(a, m) ==
  /\ Same(a, m.re)
  /\ \/ a.type = m.re.type
     \/ /\ m.re.type = "ORDER_AMEND_KEEP_PRIORITY"
        /\ a.type = "ORDER_CANCEL" /\ a.status = "REJECTED"

\* What a step that issues nothing does to the order actions: a request becomes
\* an answer and an answer a response; with the connection they may be lost.
ActionsFlow ==
  /\ UNCHANGED asked
  /\ Waiting' \subseteq Waiting
  /\ \A m \in Replying' : m \in Replying \/ m.re \in Waiting
  /\ \A a \in answers' : a \in answers \/ \E m \in Replying : AnswerTo(a, m)
  /\ answers \subseteq answers'
  /\ connection' # "closed" =>
       /\ \A r \in Waiting : r \in Waiting' \/ \E m \in Replying' : m.re = r
       /\ \A m \in Replying : m \in Replying' \/ \E a \in answers' : AnswerTo(a, m)

ActionIssued ==
  \E o \in Own, type \in Actions :
    /\ Ask(o, type)
    /\ \/ Send(Action(type, o, NextVersion(o))) /\ UNCHANGED answers
       \/ Thrown(o, type) /\ UNCHANGED toExchange
    /\ UNCHANGED toGateway

LEMMA FlowOther ==
  ASSUME \A r \in toExchange' \ toExchange : ~ IsAction(r),
         \A r \in toExchange \ toExchange' : ~ IsAction(r),
         \A m \in toGateway' \ toGateway : ~ IsAction(m.re),
         \A m \in toGateway \ toGateway' : ~ IsAction(m.re),
         UNCHANGED <<asked, answers>>
  PROVE  ActionsFlow
<1>1. Waiting' = Waiting /\ Replying' = Replying
  BY DEF Waiting, Replying
<1> QED
  BY <1>1 DEF ActionsFlow

LEMMA FlowTake ==
  ASSUME NEW r, IsAction(r), Take(r),
         NEW ok, NEW image, NEW pushed, \A m \in pushed : m.re = ExecutionReport,
         toGateway' = toGateway \cup Answers(r, ok, image) \cup pushed,
         UNCHANGED <<asked, answers>>
  PROVE  ActionsFlow
<1>1. ~ IsAction(ExecutionReport)
  BY DEF IsAction, ExecutionReport, Actions
<1>2. Waiting' = Waiting \ {r} /\ Replying \subseteq Replying'
  BY DEF Waiting, Replying, Take
<1>3. \A m \in Replying' \ Replying : r \in Waiting /\ m.re = r
  BY <1>1 DEF Replying, Waiting, Answers, Reply
<1>4. r \in Waiting => \E m \in Replying' : m.re = r
  <2> SUFFICES ASSUME r \in Waiting PROVE \E m \in Replying' : m.re = r
    OBVIOUS
  <2>1. Reply(r, ok, image) \in toGateway' /\ Reply(r, ok, image).re = r
    BY DEF Waiting, Answers, Reply
  <2> QED
    BY <2>1 DEF Replying
<1> QED
  BY <1>2, <1>3, <1>4 DEF ActionsFlow

LEMMA FlowRespond ==
  ASSUME NEW m \in Replying, NEW a, AnswerTo(a, m),
         toGateway' = toGateway \ {m},
         answers' = answers \cup {a},
         UNCHANGED <<toExchange, asked>>
  PROVE  ActionsFlow
<1>1. Replying' = Replying \ {m} /\ Waiting' = Waiting
  BY DEF Replying, Waiting
<1> QED
  BY <1>1 DEF ActionsFlow

LEMMA FlowTransport == Transport => ActionsFlow
<1> SUFFICES ASSUME Transport PROVE ActionsFlow
  OBVIOUS
<1>1. CASE Connected
  BY <1>1, FlowOther DEF Connected, oms
<1>2. CASE Ready
  <2>1. toExchange' = toExchange \cup {Query("SESSION_LOGON", sequence + 1)}
    BY <1>2 DEF Ready, Enter, Requests
  <2>2. ~ IsAction(Query("SESSION_LOGON", sequence + 1))
    BY DEF IsAction, Query, Actions
  <2> QED
    BY <1>2, <2>1, <2>2, FlowOther DEF Ready, oms
<1>3. CASE Disconnected \/ EventStreamTerminated
  <2>1. /\ connection' = "closed" /\ toExchange' = {} /\ toGateway' = {}
        /\ UNCHANGED <<asked, answers>>
    BY <1>3 DEF Disconnected, EventStreamTerminated, LoseConnection
  <2>2. Waiting' = {} /\ Replying' = {}
    BY <2>1 DEF Waiting, Replying
  <2> QED
    BY <2>1, <2>2 DEF ActionsFlow
<1> QED
  BY <1>1, <1>2, <1>3 DEF Transport

LEMMA FlowDispatcher == Dispatcher => ActionsFlow \/ ActionIssued
<1> SUFFICES ASSUME Dispatcher PROVE ActionsFlow \/ ActionIssued
  OBVIOUS
<1>0. "ORDER_PLACE" \in Actions /\ "ORDER_AMEND_KEEP_PRIORITY" \in Actions
        /\ "ORDER_CANCEL" \in Actions
  BY DEF Actions
<1>1. ASSUME NEW o \in Own, CreateOrder(o) PROVE ActionIssued
  <2>1. NextVersion(o) = 1
    BY <1>1 DEF CreateOrder, NextVersion
  <2> QED
    BY <1>0, <1>1, <2>1 DEF CreateOrder, ActionIssued
<1>2. ASSUME NEW o \in Own, ModifyOrder(o) PROVE ActionIssued
  BY <1>0, <1>2 DEF ModifyOrder, ActionIssued
<1>3. ASSUME NEW o \in Own, CancelOrder(o) PROVE ActionIssued
  BY <1>0, <1>3 DEF CancelOrder, ActionIssued
<1>4. ASSUME NEW symbols, CancelAllOrders(symbols) PROVE ActionsFlow
  <2>1. /\ \A r \in toExchange' \ toExchange : ~ IsAction(r)
        /\ toExchange \subseteq toExchange'
    BY <1>4 DEF CancelAllOrders, CancelAll, IsAction, Actions
  <2> QED
    BY <1>4, <2>1, FlowOther DEF CancelAllOrders, oms
<1> QED
  BY <1>1, <1>2, <1>3, <1>4 DEF Dispatcher

LEMMA FlowExchange ==
  ASSUME NEW r \in toExchange \cup orphans, ExchangeProcesses(r)
  PROVE  ActionsFlow
<1>0. ~ IsAction(ExecutionReport)
  BY DEF IsAction, ExecutionReport, Actions
<1>1. \A image : \A m \in Push(image) : m.re = ExecutionReport
  BY DEF Push, Report, Reply
<1>2. ASSUME NEW ok \in BOOLEAN, ExchangeAnswersQuery(r, ok) PROVE ActionsFlow
  <2>1. /\ ~ IsAction(r) /\ \A m \in toGateway' \ toGateway : m.re = r
        /\ toExchange' = toExchange \ {r} /\ toGateway \subseteq toGateway'
    BY <1>2 DEF ExchangeAnswersQuery, IsQuery, IsAction, Downloads, Actions, Reply
  <2> QED
    BY <1>2, <2>1, FlowOther DEF ExchangeAnswersQuery, oms
<1>3. CASE ExchangePlaces(r) \/ ExchangeAmends(r) \/ ExchangeCancels(r)
  <2> DEFINE image == ImageOf({r.order}, revision')
  <2>1. /\ IsAction(r) /\ Take(r)
        /\ toGateway' = toGateway \cup Answers(r, TRUE, image) \cup Push(image)
        /\ UNCHANGED <<asked, answers>>
    BY <1>3 DEF ExchangePlaces, ExchangeAmends, ExchangeCancels, IsAction, Actions, oms
  <2> HIDE DEF image
  <2> QED
    BY <1>1, <2>1, FlowTake
<1>4. CASE ExchangeRejects(r)
  <2> DEFINE pushed == {}
  <2>1. /\ IsAction(r) /\ Take(r)
        /\ toGateway' = toGateway \cup Answers(r, FALSE, NoImage) \cup pushed
        /\ \A m \in pushed : m.re = ExecutionReport
        /\ UNCHANGED <<asked, answers>>
    BY <1>4 DEF ExchangeRejects, oms
  <2> HIDE DEF pushed
  <2> QED
    BY <2>1, FlowTake
<1>5. CASE ExchangeCancelsAll(r)
  <2>1. ~ IsAction(r)
    BY <1>5 DEF ExchangeCancelsAll, IsAction, Actions
  <2>2. /\ \A m \in toGateway' \ toGateway : m.re = r \/ m.re = ExecutionReport
        /\ toGateway \subseteq toGateway'
    BY <1>5 DEF ExchangeCancelsAll, Answers, Push, Report, Reply
  <2>3. toExchange' = toExchange \ {r} /\ UNCHANGED <<asked, answers>>
    BY <1>5 DEF ExchangeCancelsAll, Take, oms
  <2> QED
    BY <1>0, <2>1, <2>2, <2>3, FlowOther
<1> QED
  BY <1>2, <1>3, <1>4, <1>5 DEF ExchangeProcesses

LEMMA FlowMarket == Market => ActionsFlow
<1> SUFFICES ASSUME Market PROVE ActionsFlow
  OBVIOUS
<1>0. ASSUME NEW image, toGateway' = toGateway \cup Push(image)
      PROVE  /\ \A m \in toGateway' \ toGateway : m.re = ExecutionReport
             /\ toGateway \subseteq toGateway'
  BY <1>0 DEF Push, Report, Reply
<1>1. /\ \A m \in toGateway' \ toGateway : m.re = ExecutionReport
      /\ toGateway \subseteq toGateway'
      /\ UNCHANGED <<toExchange, asked, answers>>
  BY <1>0 DEF Market, ForeignOrder, Fill, oms
<1>2. ~ IsAction(ExecutionReport)
  BY DEF IsAction, ExecutionReport, Actions
<1> QED
  BY <1>1, <1>2, FlowOther

LEMMA FlowHandle ==
  ASSUME NEW m \in toGateway, Handle(m)
  PROVE  ActionsFlow
<1>1. ASSUME NEW state \in Downloads, m.re.type = state, CheckOrRetry(m.ok, state),
             toGateway' = toGateway \ {m}, UNCHANGED <<asked, answers>>
      PROVE  ActionsFlow
  <2>1. Following(state) \in Downloads \cup {"DONE"}
    BY FollowingType
  <2>2. /\ \A r \in toExchange' \ toExchange : ~ IsAction(r)
        /\ toExchange \subseteq toExchange'
    BY <1>1, <2>1, EnterIsNoAction DEF CheckOrRetry, Check, Retry, Stay, Enter
  <2>3. ~ IsAction(m.re)
    BY <1>1 DEF IsAction, Actions, Downloads
  <2> QED
    BY <1>1, <2>2, <2>3, FlowOther
<1>2. ASSUME NEW state \in Downloads, OnDownloadReply(m, state) PROVE ActionsFlow
  BY <1>1, <1>2 DEF OnDownloadReply, Receive, oms
<1>3. CASE OnOpenOrders(m)
  BY <1>1, <1>3 DEF OnOpenOrders, Receive, Downloads
<1>4. CASE OnTrades(m)
  BY <1>1, <1>4 DEF OnTrades, Receive, Downloads
<1>5. ASSUME NEW type \in Actions, NEW bad, Respond(m, type, type, bad),
             \/ bad = type
             \/ type = "ORDER_AMEND_KEEP_PRIORITY" /\ bad = "ORDER_CANCEL"
      PROVE  ActionsFlow
  <2> DEFINE a == Response(IF m.ok THEN type ELSE bad, m.re.order, m.re.version,
                           IF m.ok THEN "ACCEPTED" ELSE "REJECTED")
  <2>1. m \in Replying
    BY <1>5 DEF Respond, Receive, Replying, IsAction
  <2>2. AnswerTo(a, m)
    <3>1. /\ a.order = m.re.order /\ a.version = m.re.version
          /\ a.type = IF m.ok THEN type ELSE bad
          /\ a.status = IF m.ok THEN "ACCEPTED" ELSE "REJECTED"
          /\ m.re.type = type
      BY <1>5 DEF Response, Respond, Receive
    <3> HIDE DEF a
    <3> QED
      BY <1>5, <3>1 DEF AnswerTo, Same
  <2>3. answers' = answers \cup {a}
    BY <1>5 DEF Respond
  <2> HIDE DEF a
  <2> QED
    BY <1>5, <2>1, <2>2, <2>3, FlowRespond DEF Respond, Receive
<1>6. ASSUME NEW type, NEW image, OnUpdates(m, type, image), type \notin Actions
      PROVE  ActionsFlow
  BY <1>6, FlowOther DEF OnUpdates, Receive, IsAction
<1>7. CASE OnSessionLogon(m) \/ OnUserDataStreamSubscribe(m) \/ OnAccount(m)
  BY <1>2, <1>7 DEF OnSessionLogon, OnUserDataStreamSubscribe, OnAccount, Downloads
<1>8. ASSUME NEW type \in Actions, Respond(m, type, type, type) PROVE ActionsFlow
  BY <1>5, <1>8
<1>9. CASE OnOrderAmendKeepPriority(m)
  <2>1. "ORDER_AMEND_KEEP_PRIORITY" \in Actions
    BY DEF Actions
  <2> QED
    BY <1>5, <1>9, <2>1 DEF OnOrderAmendKeepPriority
<1>10. CASE OnCancelOpenOrders(m) \/ OnExecutionReport(m)
  <2>1. "OPEN_ORDERS_CANCEL_ALL" \notin Actions /\ "EXECUTION_REPORT" \notin Actions
    BY DEF Actions
  <2> QED
    BY <1>6, <1>10, <2>1 DEF OnCancelOpenOrders, OnExecutionReport
<1> QED
  <2>1. "ORDER_PLACE" \in Actions /\ "ORDER_CANCEL" \in Actions
    BY DEF Actions
  <2>2. CASE OnOrderPlace(m)
    BY <1>8, <2>1, <2>2 DEF OnOrderPlace
  <2>3. CASE OnCancelOrder(m)
    BY <1>8, <2>1, <2>3 DEF OnCancelOrder
  <2> QED
    BY <1>3, <1>4, <1>7, <1>9, <1>10, <2>2, <2>3 DEF Handle

LEMMA ActionsStep == [Next]_vars => ActionsFlow \/ ActionIssued
<1>1. UNCHANGED vars => ActionsFlow
  BY FlowOther DEF vars, transport, oms
<1> QED
  BY <1>1, FlowTransport, FlowDispatcher, FlowExchange, FlowMarket, FlowHandle DEF Next

\* A request of the session stays on the wire until it is answered, and an
\* answer until it is responded to, unless the connection is lost.
NothingDropped ==
  connection' # "closed" =>
    /\ \A r \in Waiting : r \in Waiting' \/ \E m \in Replying' : m.re = r
    /\ \A m \in Replying : m \in Replying' \/ \E a \in answers' : AnswerTo(a, m)

\* No order action is dropped on its way: neither a late answer, nor a retry of
\* the download, nor a cancel-all makes one disappear without a response, as
\* long as the connection holds.
THEOREM NoActionDropped == Spec => [][NothingDropped]_vars
<1>1. ActionsFlow => NothingDropped
  BY DEF ActionsFlow, NothingDropped
<1>2. ActionIssued => NothingDropped
  <2> SUFFICES ASSUME ActionIssued PROVE NothingDropped
    OBVIOUS
  <2>1. toExchange \subseteq toExchange' /\ toGateway' = toGateway
    BY DEF ActionIssued, Send
  <2> QED
    BY <2>1 DEF NothingDropped, Waiting, Replying
<1>3. [Next]_vars => [NothingDropped]_vars
  BY <1>1, <1>2, ActionsStep
<1> QED
  BY <1>3, PTL DEF Spec

-----------------------------------------------------------------------------
(* What an answer says *)

\* Every request on its way, and every answer, is for what was asked.
RequestsAsAsked ==
  /\ \A r \in Waiting : AsAsked(r)
  /\ \A m \in Replying : AsAsked(m.re)
  /\ OnlyRefusedAmendsMisnamed

LEMMA AsAskedFlow == RequestsAsAsked /\ ActionsFlow => RequestsAsAsked'
<1> SUFFICES ASSUME RequestsAsAsked, ActionsFlow PROVE RequestsAsAsked'
  OBVIOUS
<1>1. \A x : (AsAsked(x) <=> AsAsked(x)') /\ (MisnamedRefusal(x) <=> MisnamedRefusal(x)')
  BY DEF ActionsFlow, AsAsked, MisnamedRefusal
<1>2. ASSUME NEW m \in Replying, NEW a, AnswerTo(a, m)
      PROVE  AsAsked(a) \/ MisnamedRefusal(a)
  <2>1. AsAsked(m.re)
    BY DEF RequestsAsAsked
  <2> QED
    BY <1>2, <2>1 DEF AnswerTo, Same, AsAsked, MisnamedRefusal
<1> QED
  BY <1>1, <1>2 DEF ActionsFlow, RequestsAsAsked, OnlyRefusedAmendsMisnamed

\* A new request is appended: what was asked before keeps its version.
LEMMA AsAskedIssue == TypeOK /\ RequestsAsAsked /\ ActionIssued => RequestsAsAsked'
<1> SUFFICES ASSUME TypeOK, RequestsAsAsked, ActionIssued PROVE RequestsAsAsked'
  OBVIOUS
<1>1. PICK o \in Own, type \in Actions :
        /\ Ask(o, type)
        /\ \/ Send(Action(type, o, NextVersion(o))) /\ UNCHANGED answers
           \/ Thrown(o, type) /\ UNCHANGED toExchange
        /\ UNCHANGED toGateway
  BY DEF ActionIssued
<1>2. PICK new : new = NextVersion(o)
  OBVIOUS
<1>3. /\ asked \in [Own -> Seq(Actions)] /\ asked[o] \in Seq(Actions)
      /\ new = Len(asked[o]) + 1 /\ Len(asked[o]) \in Nat
      /\ DOMAIN asked[o] = 1..Len(asked[o])
  BY <1>2 DEF TypeOK, NextVersion
<1>4. /\ DOMAIN asked'[o] = 1..new /\ asked'[o][new] = type
      /\ \A v \in DOMAIN asked[o] : v \in DOMAIN asked'[o] /\ asked'[o][v] = asked[o][v]
  BY <1>1, <1>3 DEF Ask
<1>5. \A p \in Own \ {o} : asked'[p] = asked[p]
  BY <1>1, <1>3 DEF Ask
<1>6. /\ \A r \in Waiting : r.order \in Own
      /\ \A m \in Replying : m.re.order \in Own
      /\ \A a \in answers : a.order \in Own
  <2>1. \A r \in Waiting : r \in Request /\ IsAction(r)
    BY DEF Waiting, TypeOK
  <2>2. \A m \in Replying : m.re \in Request /\ IsAction(m.re)
    BY DEF Replying, TypeOK, Message, ExecutionReport, IsAction, Actions
  <2> QED
    BY <2>1, <2>2, ActionOrder DEF TypeOK
<1>7. ASSUME NEW x, x.order \in Own
      PROVE  (AsAsked(x) => AsAsked(x)') /\ (MisnamedRefusal(x) => MisnamedRefusal(x)')
  <2>1. CASE x.order = o
    BY <1>4, <2>1 DEF AsAsked, MisnamedRefusal
  <2>2. CASE x.order # o
    BY <1>5, <1>7, <2>2 DEF AsAsked, MisnamedRefusal
  <2> QED
    BY <2>1, <2>2
<1>8. ASSUME NEW x, x.order = o, x.version = new, x.type = type PROVE AsAsked(x)'
  BY <1>3, <1>4, <1>8 DEF AsAsked
<1>9. /\ \A r \in Waiting' \ Waiting : AsAsked(r)'
      /\ \A a \in answers' \ answers : AsAsked(a)'
      /\ Replying' = Replying
  <2>1. Replying' = Replying
    BY <1>1 DEF Replying
  <2>2. CASE Send(Action(type, o, new)) /\ UNCHANGED answers
    <3> DEFINE r == Action(type, o, new)
    <3>1. r.order = o /\ r.version = new /\ r.type = type
      BY DEF Action
    <3> HIDE DEF r
    <3>2. Waiting' \subseteq Waiting \cup {r}
      BY <2>2 DEF Send, Waiting, r
    <3> QED
      BY <1>8, <2>1, <2>2, <3>1, <3>2
  <2>3. CASE Thrown(o, type) /\ UNCHANGED toExchange
    <3> DEFINE a == Response(type, o, new, "THROWN")
    <3>1. a.order = o /\ a.version = new /\ a.type = type
      BY DEF Response
    <3> HIDE DEF a
    <3>2. answers' = answers \cup {a} /\ Waiting' = Waiting
      BY <1>2, <2>3 DEF Thrown, Waiting, a
    <3> QED
      BY <1>8, <2>1, <3>1, <3>2
  <2> QED
    BY <1>1, <1>2, <2>2, <2>3
<1>10. \A r \in Waiting : AsAsked(r)'
  BY <1>6, <1>7 DEF RequestsAsAsked
<1>11. \A m \in Replying : AsAsked(m.re)'
  BY <1>6, <1>7 DEF RequestsAsAsked
<1>12. \A a \in answers : AsAsked(a)' \/ MisnamedRefusal(a)'
  BY <1>6, <1>7 DEF RequestsAsAsked, OnlyRefusedAmendsMisnamed
<1> QED
  BY <1>9, <1>10, <1>11, <1>12 DEF RequestsAsAsked, OnlyRefusedAmendsMisnamed

\* AnswersNameTheRequest, as far as the code satisfies it: the refusal of an
\* amendment, reported as that of a cancellation, is the only response that does
\* not name the request the dispatcher made under its version.
THEOREM AnswersNameWhatWasAsked == Spec => []OnlyRefusedAmendsMisnamed
<1>1. Init => RequestsAsAsked
  BY DEF Init, RequestsAsAsked, OnlyRefusedAmendsMisnamed, Waiting, Replying
<1>2. TypeOK /\ RequestsAsAsked /\ [Next]_vars => RequestsAsAsked'
  BY AsAskedFlow, AsAskedIssue, ActionsStep
<1>3. RequestsAsAsked => OnlyRefusedAmendsMisnamed
  BY DEF RequestsAsAsked
<1> QED
  BY <1>1, <1>2, <1>3, TypeCorrect, PTL DEF Spec

-----------------------------------------------------------------------------
(* One download request at a time *)

Queries == {r \in toExchange : IsQuery(r)}
Replies == {m \in toGateway : IsQuery(m.re)}

\* It is what the download waits for; trades may still come when it is done.
Current(type) == type = download \/ (type = "MY_TRADES" /\ download = "DONE")

\* What is outstanding of the download is one request or its answer, or any
\* number of requests for trades: an answer leads to one new request at most,
\* be it the next one or the same again.
OneQuery ==
  /\ \A r \in Queries : Current(r.type)
  /\ \A m \in Replies : Current(m.re.type)
  /\ \A r, s \in Queries : r = s \/ r.type = "MY_TRADES"
  /\ \A m, n \in Replies : m = n \/ m.re.type = "MY_TRADES"
  /\ \A r \in Queries, m \in Replies : r.type = "MY_TRADES" /\ m.re.type = "MY_TRADES"

LEMMA OneQueryLess ==
  ASSUME OneQuery, Queries' \subseteq Queries, Replies' \subseteq Replies,
         UNCHANGED download
  PROVE  OneQuery'
BY DEF OneQuery, Current

\* Traffic that is not about the download.
LEMMA NoQueryTraffic ==
  ASSUME OneQuery,
         \A r \in toExchange' \ toExchange : ~ IsQuery(r),
         \A m \in toGateway' \ toGateway : ~ IsQuery(m.re),
         UNCHANGED download
  PROVE  OneQuery'
<1>1. Queries' \subseteq Queries /\ Replies' \subseteq Replies
  BY DEF Queries, Replies
<1> QED
  BY <1>1, OneQueryLess

\* A state is entered when nothing is outstanding, or nothing but trades.
LEMMA OneQueryEnter ==
  ASSUME NEW state \in Downloads \cup {"DONE"}, Enter(state),
         \/ Queries = {} /\ Replies' = {}
         \/ /\ state \in {"MY_TRADES", "DONE"}
            /\ \A r \in Queries : r.type = "MY_TRADES"
            /\ \A m \in Replies' : m.re.type = "MY_TRADES"
  PROVE  OneQuery'
<1>1. /\ download' = state
      /\ Queries' \subseteq Queries \cup Requests(state, sequence + 1)
  BY DEF Enter, Queries
<1>2. CASE state \in {"MY_TRADES", "DONE"}
  <2>1. \A r \in Requests(state, sequence + 1) : r.type = "MY_TRADES"
    BY <1>2 DEF Requests, TradesQuery
  <2>2. /\ \A r \in Queries' : r.type = "MY_TRADES"
        /\ \A m \in Replies' : m.re.type = "MY_TRADES"
    BY <1>1, <2>1
  <2> QED
    BY <1>1, <1>2, <2>2 DEF OneQuery, Current
<1>3. CASE state \notin {"MY_TRADES", "DONE"}
  <2> DEFINE r == Query(state, sequence + 1)
  <2>1. Requests(state, sequence + 1) = {r} /\ r.type = state
    BY <1>3 DEF Requests, Query
  <2> HIDE DEF r
  <2>2. Queries' \subseteq {r} /\ Replies' = {}
    BY <1>1, <1>3, <2>1
  <2> QED
    BY <1>1, <2>1, <2>2 DEF OneQuery, Current
<1> QED
  BY <1>2, <1>3

LEMMA OneQueryInit == Init => OneQuery
BY DEF Init, OneQuery, Queries, Replies

LEMMA OneQueryTransport == IInv /\ OneQuery /\ Transport => OneQuery'
<1> SUFFICES ASSUME IInv, OneQuery, Transport PROVE OneQuery'
  OBVIOUS
<1>1. CASE Connected
  BY <1>1, NoQueryTraffic DEF Connected, gateway
<1>2. CASE Ready
  <2>1. toExchange = {} /\ toGateway = {} /\ toGateway' = toGateway
    BY <1>2 DEF Ready, IInv, NothingWithoutConnection
  <2>2. Queries = {} /\ Replies' = {}
    BY <2>1 DEF Queries, Replies
  <2> QED
    BY <1>2, <2>2, OneQueryEnter DEF Ready, Downloads
<1>3. CASE Disconnected \/ EventStreamTerminated
  <2>1. toExchange' = {} /\ toGateway' = {}
    BY <1>3 DEF Disconnected, EventStreamTerminated, LoseConnection
  <2> QED
    BY <2>1 DEF OneQuery, Queries, Replies
<1> QED
  BY <1>1, <1>2, <1>3 DEF Transport

LEMMA OneQueryDispatcher == OneQuery /\ Dispatcher => OneQuery'
<1> SUFFICES ASSUME OneQuery, Dispatcher PROVE OneQuery'
  OBVIOUS
<1>1. /\ UNCHANGED <<download, toGateway>>
      /\ \A r \in toExchange' \ toExchange :
           r.type \in Actions \cup {"OPEN_ORDERS_CANCEL_ALL"}
  BY DEF Dispatcher, CreateOrder, ModifyOrder, CancelOrder, CancelAllOrders,
         Send, Action, CancelAll, Actions, gateway
<1> QED
  BY <1>1, NoQueryTraffic DEF IsQuery, Actions, Downloads

\* The exchange: an answer takes the place of its request.
LEMMA OneQueryExchange ==
  ASSUME OneQuery, NEW r \in toExchange \cup orphans, ExchangeProcesses(r)
  PROVE  OneQuery'
<1>1. ASSUME NEW ok \in BOOLEAN, ExchangeAnswersQuery(r, ok) PROVE OneQuery'
  <2>1. /\ r \in Queries
        /\ Queries' = Queries \ {r}
        /\ download' = download
    BY <1>1 DEF ExchangeAnswersQuery, Queries, gateway
  <2> DEFINE image == IF ok /\ r.type = "OPEN_ORDERS_STATUS"
                      THEN ImageOf(open, revision) ELSE NoImage
             m == Reply(r, ok, image)
  <2>2. m.re = r /\ toGateway' = toGateway \cup {m}
    BY <1>1 DEF ExchangeAnswersQuery, Reply
  <2> HIDE DEF m
  <2>3. PICK reply : reply.re = r /\ Replies' \subseteq Replies \cup {reply}
    BY <2>2 DEF Replies
  <2>4. \A n \in Replies : n.re.type = "MY_TRADES" /\ r.type = "MY_TRADES"
    BY <2>1 DEF OneQuery
  <2>5. \A s \in Queries' : s.type = "MY_TRADES" /\ r.type = "MY_TRADES"
    BY <2>1 DEF OneQuery
  <2>6. Current(r.type) /\ \A n \in Replies : Current(n.re.type)
    BY <2>1 DEF OneQuery
  <2>7. \A n \in Replies' : Current(n.re.type)'
    BY <2>1, <2>3, <2>6 DEF Current
  <2>8. \A n, p \in Replies' : n = p \/ n.re.type = "MY_TRADES"
    BY <2>3, <2>4
  <2>9. \A s \in Queries' : Current(s.type)'
    BY <2>1 DEF OneQuery, Current
  <2> QED
    BY <2>3, <2>4, <2>5, <2>7, <2>8, <2>9 DEF OneQuery
<1>2. ASSUME ~ IsQuery(r), toExchange' \subseteq toExchange, UNCHANGED download,
             \A m \in toGateway' \ toGateway : m.re = r \/ m.re = ExecutionReport
      PROVE  OneQuery'
  <2>1. ~ IsQuery(ExecutionReport)
    BY DEF IsQuery, ExecutionReport, Downloads
  <2> QED
    BY <1>2, <2>1, NoQueryTraffic
<1>3. \A ok, image : \A m \in Answers(r, ok, image) \cup Push(image) :
        m.re = r \/ m.re = ExecutionReport
  BY DEF Answers, Push, Report, Reply
<1>4. CASE ExchangePlaces(r) \/ ExchangeAmends(r) \/ ExchangeCancels(r)
  <2> DEFINE image == ImageOf({r.order}, revision')
  <2>1. /\ ~ IsQuery(r) /\ toExchange' \subseteq toExchange /\ UNCHANGED download
        /\ toGateway' = toGateway \cup Answers(r, TRUE, image) \cup Push(image)
    BY <1>4 DEF ExchangePlaces, ExchangeAmends, ExchangeCancels, Take, IsQuery,
                Downloads, gateway
  <2> HIDE DEF image
  <2> QED
    BY <1>2, <1>3, <2>1
<1>5. CASE ExchangeRejects(r)
  <2>1. /\ ~ IsQuery(r) /\ toExchange' \subseteq toExchange /\ UNCHANGED download
        /\ toGateway' = toGateway \cup Answers(r, FALSE, NoImage)
    BY <1>5 DEF ExchangeRejects, Take, IsQuery, IsAction, Actions, Downloads, gateway
  <2> QED
    BY <1>2, <1>3, <2>1
<1>6. CASE ExchangeCancelsAll(r)
  <2>1. ~ IsQuery(r) /\ toExchange' \subseteq toExchange /\ UNCHANGED download
    BY <1>6 DEF ExchangeCancelsAll, Take, IsQuery, Downloads, gateway
  <2>2. PICK ok, image : toGateway' \subseteq toGateway \cup Answers(r, ok, image)
                                               \cup Push(image)
    BY <1>6 DEF ExchangeCancelsAll
  <2> QED
    BY <1>2, <1>3, <2>1, <2>2
<1> QED
  BY <1>1, <1>4, <1>5, <1>6 DEF ExchangeProcesses

LEMMA OneQueryMarket == OneQuery /\ Market => OneQuery'
<1> SUFFICES ASSUME OneQuery, Market PROVE OneQuery'
  OBVIOUS
<1>1. PICK image : /\ toGateway' = toGateway \cup Push(image)
                   /\ UNCHANGED <<toExchange, download>>
  BY DEF Market, ForeignOrder, Fill, gateway
<1>2. \A m \in toGateway' \ toGateway : m.re = ExecutionReport
  BY <1>1 DEF Push, Report, Reply
<1> QED
  BY <1>1, <1>2, NoQueryTraffic DEF IsQuery, ExecutionReport, Downloads

\* An answer that is current is the only one, unless it is about trades.
LEMMA OneQueryHandle ==
  ASSUME IInv, OneQuery, NEW m \in toGateway, Handle(m)
  PROVE  OneQuery'
<1>1. ASSUME NEW state \in Downloads, m.re.type = state, CheckOrRetry(m.ok, state),
             toGateway' = toGateway \ {m}
      PROVE  OneQuery'
  <2>1. m \in Replies /\ Replies' = Replies \ {m}
    BY <1>1 DEF Replies, IsQuery
  <2>2. CASE Stay
    BY <1>1, <2>2, NoQueryTraffic DEF Stay
  <2>3. CASE state # "MY_TRADES"
    <3>1. Queries = {} /\ Replies' = {}
      BY <1>1, <2>1, <2>3 DEF OneQuery
    <3> QED
      BY <1>1, <2>2, <3>1, OneQueryEnter, FollowingType
         DEF CheckOrRetry, Check, Retry
  <2>4. CASE state = "MY_TRADES" /\ ~ Stay
    <3>1. Current("MY_TRADES")
      BY <1>1, <2>1, <2>4 DEF OneQuery
    <3>2. download = "MY_TRADES"
      BY <1>1, <2>4, <3>1 DEF Current, CheckOrRetry, Check, Retry, Downloading
    <3>3. /\ \A r \in Queries : r.type = "MY_TRADES"
          /\ \A n \in Replies' : n.re.type = "MY_TRADES"
      BY <2>1, <3>2 DEF OneQuery, Current
    <3>4. Following("MY_TRADES") = "DONE"
      BY DEF Following
    <3>5. CASE Enter("MY_TRADES")
      BY <3>3, <3>5, OneQueryEnter DEF Downloads
    <3>6. CASE Enter("DONE")
      BY <3>3, <3>6, OneQueryEnter
    <3> QED
      BY <1>1, <2>4, <3>4, <3>5, <3>6 DEF CheckOrRetry, Check, Retry
  <2> QED
    BY <2>2, <2>3, <2>4
<1>2. ASSUME NEW state \in Downloads, OnDownloadReply(m, state) PROVE OneQuery'
  BY <1>1, <1>2 DEF OnDownloadReply, Receive
<1>3. CASE OnOpenOrders(m)
  BY <1>1, <1>3 DEF OnOpenOrders, Receive, Downloads
<1>4. CASE OnTrades(m)
  BY <1>1, <1>4 DEF OnTrades, Receive, Downloads
<1>5. ASSUME toGateway' = toGateway \ {m}, UNCHANGED <<gateway, toExchange>>
      PROVE  OneQuery'
  BY <1>5, NoQueryTraffic DEF gateway
<1>6. ASSUME NEW type, NEW good, NEW bad, Respond(m, type, good, bad) PROVE OneQuery'
  BY <1>5, <1>6 DEF Respond, Receive
<1>7. ASSUME NEW type, NEW image, OnUpdates(m, type, image) PROVE OneQuery'
  BY <1>5, <1>7 DEF OnUpdates, Receive
<1> QED
  BY <1>2, <1>3, <1>4, <1>6, <1>7
     DEF Handle, OnSessionLogon, OnUserDataStreamSubscribe, OnAccount,
         OnOrderPlace, OnOrderAmendKeepPriority, OnCancelOrder,
         OnCancelOpenOrders, OnExecutionReport, Downloads

\* The download never has two requests outstanding (the trades apart), although
\* every bad answer leads to another one: a late answer cannot be mistaken for
\* that of a later round.
THEOREM OneDownloadRequestAtATime == Spec => []OneQuery
<1>1. IInv /\ OneQuery /\ [Next]_vars => OneQuery'
  <2> SUFFICES ASSUME IInv, OneQuery, [Next]_vars PROVE OneQuery'
    OBVIOUS
  <2>1. CASE UNCHANGED vars
    BY <2>1, NoQueryTraffic DEF vars, gateway, transport
  <2> QED
    BY <2>1, OneQueryTransport, OneQueryDispatcher, OneQueryExchange,
       OneQueryMarket, OneQueryHandle DEF Next
<1> QED
  BY <1>1, OneQueryInit, Invariance, PTL DEF Spec

-----------------------------------------------------------------------------
(* The download is never left waiting for nothing *)

Awaited(type) ==
  (\E r \in Queries : r.type = type) \/ (\E m \in Replies : m.re.type = type)

\* As long as the download is not done something is outstanding that moves it
\* on: a request of its state or the answer. The callback of the trades never
\* leaves the download in a state that requests nothing.
DownloadAwaited ==
  Downloading =>
    /\ Awaited(download)
    /\ download = "MY_TRADES" => TradesSymbols # {}

\* Nothing of the download leaves the wires, except a request by its answer.
LEMMA AwaitedStays ==
  ASSUME DownloadAwaited, UNCHANGED <<download, download_trades_is_first>>,
         \A r \in Queries : r \in Queries' \/ \E m \in Replies' : m.re = r,
         Replies \subseteq Replies'
  PROVE  DownloadAwaited'
BY DEF DownloadAwaited, Awaited, Downloading, TradesSymbols, Lookback

\* Traffic that is not about the download.
LEMMA AwaitedTraffic ==
  ASSUME DownloadAwaited, UNCHANGED <<download, download_trades_is_first>>,
         \A r \in toExchange \ toExchange' : ~ IsQuery(r),
         \A m \in toGateway \ toGateway' : ~ IsQuery(m.re)
  PROVE  DownloadAwaited'
<1>1. Queries \subseteq Queries' /\ Replies \subseteq Replies'
  BY DEF Queries, Replies
<1> QED
  BY <1>1, AwaitedStays

\* A state that is entered issues its requests.
LEMMA AwaitedEnter ==
  ASSUME NEW state \in Downloads \cup {"DONE"}, Enter(state),
         state = "MY_TRADES" => TradesSymbols # {} /\ TradesSymbols' = TradesSymbols
  PROVE  DownloadAwaited'
<1>1. /\ download' = state
      /\ toExchange' = toExchange \cup Requests(state, sequence + 1)
  BY DEF Enter
<1>2. CASE state = "MY_TRADES"
  <2>1. PICK s : s \in TradesSymbols
    BY <1>2
  <2> DEFINE r == TradesQuery(sequence + 1, s)
  <2>2. r \in toExchange' /\ r.type = state /\ IsQuery(r)
    BY <1>1, <1>2, <2>1 DEF Requests, TradesQuery, IsQuery, Downloads
  <2> HIDE DEF r
  <2>3. r \in Queries'
    BY <2>2 DEF Queries
  <2> QED
    BY <1>1, <1>2, <2>2, <2>3 DEF DownloadAwaited, Awaited
<1>3. CASE state = "DONE"
  BY <1>1, <1>3 DEF DownloadAwaited, Downloading
<1>4. CASE state \notin {"MY_TRADES", "DONE"}
  <2> DEFINE r == Query(state, sequence + 1)
  <2>1. r \in toExchange' /\ r.type = state /\ IsQuery(r)
    BY <1>1, <1>4 DEF Requests, Query, IsQuery
  <2> HIDE DEF r
  <2>2. r \in Queries'
    BY <2>1 DEF Queries
  <2> QED
    BY <1>1, <1>4, <2>1, <2>2 DEF DownloadAwaited, Awaited
<1> QED
  BY <1>2, <1>3, <1>4

LEMMA AwaitedTransport == DownloadAwaited /\ Transport => DownloadAwaited'
<1> SUFFICES ASSUME DownloadAwaited, Transport PROVE DownloadAwaited'
  OBVIOUS
<1>1. CASE Connected
  BY <1>1, AwaitedTraffic DEF Connected, gateway
<1>2. CASE Ready
  BY <1>2, AwaitedEnter DEF Ready, Downloads
<1>3. CASE Disconnected \/ EventStreamTerminated
  <2>1. download' = "UNDEFINED"
    BY <1>3 DEF Disconnected, EventStreamTerminated, Reset
  <2> QED
    BY <2>1 DEF DownloadAwaited, Downloading
<1> QED
  BY <1>1, <1>2, <1>3 DEF Transport

LEMMA AwaitedDispatcher == DownloadAwaited /\ Dispatcher => DownloadAwaited'
<1> SUFFICES ASSUME DownloadAwaited, Dispatcher PROVE DownloadAwaited'
  OBVIOUS
<1>1. /\ UNCHANGED <<download, download_trades_is_first, toGateway>>
      /\ toExchange \subseteq toExchange'
  BY DEF Dispatcher, CreateOrder, ModifyOrder, CancelOrder, CancelAllOrders,
         Send, gateway
<1> QED
  BY <1>1, AwaitedTraffic

LEMMA AwaitedExchange ==
  ASSUME DownloadAwaited, NEW r \in toExchange \cup orphans, ExchangeProcesses(r)
  PROVE  DownloadAwaited'
<1>1. ASSUME NEW ok \in BOOLEAN, ExchangeAnswersQuery(r, ok) PROVE DownloadAwaited'
  <2> DEFINE image == IF ok /\ r.type = "OPEN_ORDERS_STATUS"
                      THEN ImageOf(open, revision) ELSE NoImage
             m == Reply(r, ok, image)
  <2>1. m.re = r /\ toGateway' = toGateway \cup {m}
    BY <1>1 DEF ExchangeAnswersQuery, Reply
  <2> HIDE DEF m
  <2>2. /\ m \in Replies' /\ Replies \subseteq Replies'
        /\ Queries' = Queries \ {r}
        /\ UNCHANGED <<download, download_trades_is_first>>
    BY <1>1, <2>1 DEF ExchangeAnswersQuery, Queries, Replies, gateway
  <2> QED
    BY <2>1, <2>2, AwaitedStays
<1>2. CASE \/ ExchangePlaces(r) \/ ExchangeAmends(r) \/ ExchangeCancels(r)
           \/ ExchangeRejects(r) \/ ExchangeCancelsAll(r)
  <2>1. /\ ~ IsQuery(r) /\ toExchange' = toExchange \ {r}
        /\ UNCHANGED <<download, download_trades_is_first>>
    BY <1>2 DEF ExchangePlaces, ExchangeAmends, ExchangeCancels, ExchangeRejects,
                ExchangeCancelsAll, Take, IsQuery, IsAction, Actions, Downloads,
                gateway
  <2>2. toGateway \subseteq toGateway'
    BY <1>2 DEF ExchangePlaces, ExchangeAmends, ExchangeCancels, ExchangeRejects,
                ExchangeCancelsAll
  <2> QED
    BY <2>1, <2>2, AwaitedTraffic
<1> QED
  BY <1>1, <1>2 DEF ExchangeProcesses

\* An answer moves the download on if it is the awaited one; by OneQuery no other
\* is outstanding then, so a retry enters the state the download is in.
LEMMA AwaitedHandle ==
  ASSUME TypeOK, OneQuery, DownloadAwaited, NEW m \in toGateway, Handle(m)
  PROVE  DownloadAwaited'
<1>1. ASSUME NEW state \in Downloads, m.re.type = state, CheckOrRetry(m.ok, state),
             toGateway' = toGateway \ {m},
             \/ UNCHANGED download_trades_is_first
             \/ m.ok /\ state = "MY_TRADES"
      PROVE  DownloadAwaited'
  <2>1. m \in Replies /\ Replies' = Replies \ {m}
    BY <1>1 DEF Replies, IsQuery
  <2>2. Current(state)
    BY <1>1, <2>1 DEF OneQuery
  <2>3. CASE download # state
    <3>1. download = "DONE" /\ download' = download
      BY <1>1, <2>2, <2>3
         DEF Current, CheckOrRetry, Check, Retry, Downloading, Stay
    <3> QED
      BY <3>1 DEF DownloadAwaited, Downloading
  <2>4. CASE download = state /\ m.ok
    <3>1. Enter(Following(state)) /\ Following(state) \in Downloads \cup {"DONE"}
      BY <1>1, <2>4, FollowingType DEF CheckOrRetry, Check
    <3>2. ASSUME Following(state) = "MY_TRADES"
          PROVE  TradesSymbols # {} /\ TradesSymbols' = TradesSymbols
      <4>1. state = "OPEN_ORDERS_STATUS" /\ TradesSymbols # {}
        BY <3>2 DEF Following, Downloads
      <4> QED
        BY <1>1, <4>1 DEF TradesSymbols, Lookback
    <3> QED
      BY <3>1, <3>2, AwaitedEnter
  <2>5. CASE download = state /\ ~ m.ok
    <3>1. Enter(state)
      BY <1>1, <2>5 DEF CheckOrRetry, Retry, Downloading, Downloads
    <3>2. state = "MY_TRADES" => TradesSymbols # {}
      BY <1>1, <2>5 DEF DownloadAwaited, Downloading
    <3>3. TradesSymbols' = TradesSymbols
      BY <1>1, <2>5 DEF TradesSymbols, Lookback
    <3> QED
      BY <3>1, <3>2, <3>3, AwaitedEnter
  <2> QED
    BY <2>3, <2>4, <2>5
<1>2. ASSUME NEW state \in Downloads, OnDownloadReply(m, state) PROVE DownloadAwaited'
  BY <1>1, <1>2 DEF OnDownloadReply, Receive
<1>3. CASE OnSessionLogon(m) \/ OnUserDataStreamSubscribe(m) \/ OnAccount(m)
  BY <1>2, <1>3 DEF OnSessionLogon, OnUserDataStreamSubscribe, OnAccount, Downloads
<1>4. CASE OnOpenOrders(m)
  BY <1>1, <1>4 DEF OnOpenOrders, Receive, Downloads
<1>5. CASE OnTrades(m)
  <2>1. UNCHANGED download_trades_is_first \/ m.ok
    BY <1>5 DEF OnTrades, TypeOK
  <2> QED
    BY <1>1, <1>5, <2>1 DEF OnTrades, Receive, Downloads
<1>6. CASE \/ OnOrderPlace(m) \/ OnOrderAmendKeepPriority(m) \/ OnCancelOrder(m)
           \/ OnCancelOpenOrders(m) \/ OnExecutionReport(m)
  <2>1. ~ IsQuery(m.re) /\ toGateway' = toGateway \ {m} /\ UNCHANGED toExchange
    BY <1>6 DEF OnOrderPlace, OnOrderAmendKeepPriority, OnCancelOrder,
                OnCancelOpenOrders, OnExecutionReport, Respond, OnUpdates, Receive,
                IsQuery, Downloads
  <2>2. UNCHANGED <<download, download_trades_is_first>>
    BY <1>6 DEF OnOrderPlace, OnOrderAmendKeepPriority, OnCancelOrder,
                OnCancelOpenOrders, OnExecutionReport, Respond, OnUpdates, gateway
  <2> QED
    BY <2>1, <2>2, AwaitedTraffic
<1> QED
  BY <1>3, <1>4, <1>5, <1>6 DEF Handle

LEMMA AwaitedStep ==
  ASSUME TypeOK, OneQuery, DownloadAwaited, [Next]_vars
  PROVE  DownloadAwaited'
<1>1. CASE UNCHANGED vars \/ Market
  <2>1. /\ UNCHANGED <<download, download_trades_is_first, toExchange>>
        /\ toGateway \subseteq toGateway'
    BY <1>1 DEF vars, gateway, transport, Market, ForeignOrder, Fill
  <2> QED
    BY <2>1, AwaitedTraffic
<1> QED
  BY <1>1, AwaitedTransport, AwaitedDispatcher, AwaitedExchange, AwaitedHandle DEF Next

\* The safety half of SessionBecomesReady, for every session and any number of
\* bad answers: the download never stops half way with nothing outstanding.
\* That the answers arrive is what the fairness of FairSpec adds.
THEOREM DownloadNeverStalls == Spec => []DownloadAwaited
<1>1. Init => DownloadAwaited
  BY DEF Init, DownloadAwaited, Downloading
<1> QED
  BY <1>1, AwaitedStep, OneDownloadRequestAtATime, TypeCorrect, PTL DEF Spec

-----------------------------------------------------------------------------
(* When READY means that the trades were downloaded *)

TradesDownloaded ==
  LookbackLater /\ download = "DONE" => tradesSeen = DownloadSymbols

\* For one symbol the first good answer is the last one.
LEMMA TradesStep ==
  ASSUME LookbackFirst, \A s, t \in DownloadSymbols : s = t,
         TypeOK, TypeOK', TradesDownloaded, [Next]_vars
  PROVE  TradesDownloaded'
<1> SUFFICES ASSUME LookbackLater, download' = "DONE",
                    DownloadSymbols # {}
             PROVE  tradesSeen' = DownloadSymbols
  BY DEF TradesDownloaded, TypeOK
<1>1. ASSUME UNCHANGED <<download, tradesSeen>> PROVE tradesSeen' = DownloadSymbols
  BY <1>1 DEF TradesDownloaded
<1>2. CASE UNCHANGED vars \/ Dispatcher \/ Market
  BY <1>1, <1>2 DEF vars, gateway, oms, Dispatcher, CreateOrder, ModifyOrder,
                    CancelOrder, CancelAllOrders, Market, ForeignOrder, Fill
<1>3. CASE Transport
  BY <1>1, <1>3 DEF Transport, Connected, Ready, Disconnected,
                    EventStreamTerminated, Reset, Enter, gateway, oms
<1>4. ASSUME NEW r \in toExchange \cup orphans, ExchangeProcesses(r)
      PROVE  tradesSeen' = DownloadSymbols
  BY <1>1, <1>4 DEF ExchangeProcesses, ExchangeAnswersQuery, ExchangePlaces,
                    ExchangeAmends, ExchangeCancels, ExchangeRejects,
                    ExchangeCancelsAll, gateway, oms
<1>5. TradesSymbols # {}
  BY DEF TradesSymbols, Lookback
<1>6. ASSUME NEW ok, NEW state \in Downloads \ {"MY_TRADES"}, CheckOrRetry(ok, state)
      PROVE  UNCHANGED download
  <2>1. Following(state) # "DONE"
    BY <1>5 DEF Following, Downloads
  <2> QED
    BY <1>6, <2>1 DEF CheckOrRetry, Check, Retry, Enter, Stay, Downloads
<1>7. ASSUME NEW m \in toGateway, Handle(m) PROVE tradesSeen' = DownloadSymbols
  <2>1. ASSUME NEW state \in Downloads \ {"MY_TRADES"}, OnDownloadReply(m, state)
        PROVE  tradesSeen' = DownloadSymbols
    BY <1>1, <1>6, <2>1 DEF OnDownloadReply, oms
  <2>2. CASE OnSessionLogon(m) \/ OnUserDataStreamSubscribe(m) \/ OnAccount(m)
    BY <2>1, <2>2 DEF OnSessionLogon, OnUserDataStreamSubscribe, OnAccount, Downloads
  <2>3. CASE OnOpenOrders(m)
    BY <1>1, <1>6, <2>3 DEF OnOpenOrders, Downloads
  <2>4. CASE OnTrades(m) /\ m.ok
    <3>1. m.re.symbol \in DownloadSymbols
      <4>1. m.re \in Request /\ m.re.type = "MY_TRADES"
        BY <2>4 DEF OnTrades, Receive, TypeOK, Message, ExecutionReport
      <4> QED
        BY <4>1 DEF Request, Actions, Downloads
    <3>2. m.re.symbol \in tradesSeen' /\ tradesSeen' \subseteq DownloadSymbols
      BY <2>4 DEF OnTrades, TypeOK
    <3> QED
      BY <3>1, <3>2
  <2>5. CASE OnTrades(m) /\ ~ m.ok
    <3>1. UNCHANGED <<download, tradesSeen>>
      BY <2>5 DEF OnTrades, CheckOrRetry, Retry, Enter, Stay
    <3> QED
      BY <1>1, <3>1
  <2>6. CASE \/ OnOrderPlace(m) \/ OnOrderAmendKeepPriority(m) \/ OnCancelOrder(m)
             \/ OnCancelOpenOrders(m) \/ OnExecutionReport(m)
    BY <1>1, <2>6 DEF OnOrderPlace, OnOrderAmendKeepPriority, OnCancelOrder,
                OnCancelOpenOrders, OnExecutionReport, Respond, OnUpdates, gateway
  <2> QED
    BY <1>7, <2>2, <2>3, <2>4, <2>5, <2>6 DEF Handle
<1> QED
  BY <1>2, <1>3, <1>4, <1>7 DEF Next

\* ReadyMeansTradesDownloaded, as far as the code satisfies it: with one symbol to
\* download and a lookback from the start, a READY session has seen its trades.
\* With two symbols it has not: the first good answer ends the download.
THEOREM OneSymbolIsDownloaded ==
  ASSUME LookbackFirst, \A s, t \in DownloadSymbols : s = t
  PROVE  Spec => []ReadyMeansTradesDownloaded
<1>1. Init => TradesDownloaded
  BY DEF Init, TradesDownloaded
<1>2. TypeOK /\ TradesDownloaded /\ [Next]_vars => TradesDownloaded'
  BY TypeStep, TradesStep
<1>3. ReadyConsistent /\ TradesDownloaded => ReadyMeansTradesDownloaded
  BY DEF ReadyConsistent, TradesDownloaded, ReadyMeansTradesDownloaded
<1> QED
  BY <1>1, <1>2, <1>3, TypeCorrect, ReadyIsConsistent, PTL DEF Spec

-----------------------------------------------------------------------------
(* What cancelling all orders reaches *)

Covered(o) == Symbol[o] \in open_orders_symbols

\* An order of this gateway: it is covered, or an earlier process asked for it.
Known(o) == asked[o] # <<>> /\ (o \in previous \/ Covered(o))

\* An order of this gateway is known from the moment its creation is requested,
\* so before the exchange accepts it, be it by a session that was lost.
PlacedIsKnown ==
  /\ \A r \in toExchange \cup orphans : r.type = "ORDER_PLACE" => Known(r.order)
  /\ \A o \in Own : revision[o] # 0 => Known(o)

OnItsWay(o) ==
  \E m \in toGateway : m.re.type = "OPEN_ORDERS_STATUS" /\ m.image[o] # 0

\* Once the open orders were read each of them that has a client_order_id is
\* covered, or will be when the answer arrives.
SnapshotCovers ==
  /\ \A o \in open : revision[o] # 0
  /\ snapshot => \A o \in open \ (late \cup Unnamed) : Covered(o) \/ OnItsWay(o)

LEMMA CoverageInit == Init => PlacedIsKnown /\ SnapshotCovers
BY DEF Init, PlacedIsKnown, SnapshotCovers, NoImage, Orders

\* No step forgets an order: the process that loses its memory leaves its orders
\* to the next one as those of an earlier process.
LEMMA KnownStays ==
  ASSUME TypeOK, [Next]_vars, NEW o \in Own, Known(o)
  PROVE  Known(o)'
<1>1. asked[o] \in Seq(Actions) /\ asked \in [Own -> Seq(Actions)]
  BY DEF TypeOK
<1>2. ASSUME UNCHANGED asked, previous' = previous,
             open_orders_symbols \subseteq open_orders_symbols'
      PROVE  Known(o)'
  BY <1>2 DEF Known, Covered
<1>3. CASE UNCHANGED vars
  BY <1>2, <1>3 DEF vars, gateway, exchange, oms
<1>4. CASE Transport
  <2>1. CASE Connected \/ Ready \/ Disconnected
    BY <1>2, <2>1 DEF Connected, Ready, Disconnected, gateway, exchange, oms
  <2>2. CASE EventStreamTerminated
    BY <2>2 DEF EventStreamTerminated, Known
  <2> QED
    BY <1>4, <2>1, <2>2 DEF Transport
<1>5. CASE Dispatcher
  <2>1. ASSUME NEW p \in Own, NEW type \in Actions, Ask(p, type),
               previous' = previous,
               open_orders_symbols \subseteq open_orders_symbols'
        PROVE  Known(o)'
    <3>1. asked'[o] # <<>>
      <4>1. CASE o = p
        <5>1. asked'[o] = Append(asked[o], type)
          BY <1>1, <2>1, <4>1 DEF Ask
        <5> QED
          BY <1>1, <5>1
      <4>2. CASE o # p
        BY <1>1, <2>1, <4>2 DEF Ask, Known
      <4> QED
        BY <4>1, <4>2
    <3> QED
      BY <2>1, <3>1 DEF Known, Covered
  <2>2. ASSUME NEW p \in Own, CreateOrder(p) \/ ModifyOrder(p) \/ CancelOrder(p)
        PROVE  Known(o)'
    BY <2>1, <2>2 DEF CreateOrder, ModifyOrder, CancelOrder, Actions, gateway, exchange
  <2>3. ASSUME NEW symbols, CancelAllOrders(symbols) PROVE Known(o)'
    BY <1>2, <2>3 DEF CancelAllOrders, gateway, exchange, oms
  <2> QED
    BY <1>5, <2>2, <2>3 DEF Dispatcher
<1>6. ASSUME NEW r, ExchangeProcesses(r) PROVE Known(o)'
  BY <1>2, <1>6 DEF ExchangeProcesses, ExchangeAnswersQuery, ExchangePlaces,
       ExchangeAmends, ExchangeCancels, ExchangeRejects, ExchangeCancelsAll,
       gateway, exchange, oms
<1>7. CASE Market
  BY <1>2, <1>7 DEF Market, ForeignOrder, Fill, gateway, oms
<1>8. ASSUME NEW m, Handle(m) PROVE Known(o)'
  BY <1>2, <1>8 DEF Handle, OnSessionLogon, OnUserDataStreamSubscribe, OnAccount,
       OnDownloadReply, OnOpenOrders, Learn, OnTrades, OnOrderPlace,
       OnOrderAmendKeepPriority, OnCancelOrder, Respond, OnCancelOpenOrders,
       OnExecutionReport, OnUpdates, gateway, exchange, oms
<1> QED
  BY <1>3, <1>4, <1>5, <1>6, <1>7, <1>8 DEF Next

\* Only a creation puts a request for one on the wire.
LEMMA NewPlacements ==
  ASSUME TypeOK, [Next]_vars, NEW r \in toExchange' \cup orphans',
         r.type = "ORDER_PLACE"
  PROVE  r \in toExchange \cup orphans \/ Known(r.order)'
<1>1. ASSUME NEW state \in Downloads \cup {"DONE"}, Enter(state), orphans' = orphans
      PROVE  r \in toExchange \cup orphans
  <2>1. \A q \in Requests(state, sequence + 1) : q.type # "ORDER_PLACE"
    BY DEF Requests, Query, TradesQuery, Downloads
  <2> QED
    BY <1>1, <2>1 DEF Enter
<1>2. CASE UNCHANGED vars
  BY <1>2 DEF vars, transport
<1>3. CASE Transport
  <2>1. CASE Ready
    BY <1>1, <2>1 DEF Ready, Downloads
  <2> QED
    BY <1>3, <2>1 DEF Transport, Connected, Disconnected, EventStreamTerminated,
                      LoseConnection
<1>4. ASSUME NEW o \in Own, CreateOrder(o)
      PROVE  r \in toExchange \cup orphans \/ Known(r.order)'
  <2>1. CASE toExchange' = toExchange /\ orphans' = orphans
    BY <2>1
  <2>2. CASE Send(Action("ORDER_PLACE", o, 1)) /\ Covered(o)'
    <3>1. asked \in [Own -> Seq(Actions)] /\ asked[o] \in Seq(Actions)
      BY DEF TypeOK
    <3>2. asked'[o] = Append(asked[o], "ORDER_PLACE")
      BY <1>4, <3>1 DEF CreateOrder, Ask
    <3>3. Known(o)'
      BY <2>2, <3>1, <3>2 DEF Known
    <3> QED
      BY <1>4, <2>2, <3>3 DEF CreateOrder, Send, Action
  <2> QED
    BY <1>4, <2>1, <2>2 DEF CreateOrder, Covered
<1>5. ASSUME NEW o \in Own, ModifyOrder(o) \/ CancelOrder(o)
      PROVE  r \in toExchange \cup orphans
  BY <1>5 DEF ModifyOrder, CancelOrder, Send, Action
<1>6. ASSUME NEW symbols, CancelAllOrders(symbols)
      PROVE  r \in toExchange \cup orphans
  BY <1>6 DEF CancelAllOrders, CancelAll
<1>7. ASSUME NEW q, ExchangeProcesses(q) PROVE r \in toExchange \cup orphans
  BY <1>7 DEF ExchangeProcesses, ExchangeAnswersQuery, ExchangePlaces,
       ExchangeAmends, ExchangeCancels, ExchangeRejects, ExchangeCancelsAll, Take
<1>8. CASE Market
  BY <1>8 DEF Market, ForeignOrder, Fill
<1>9. ASSUME NEW m, Handle(m) PROVE r \in toExchange \cup orphans
  <2>1. ASSUME NEW state \in Downloads, NEW ok, CheckOrRetry(ok, state),
               orphans' = orphans
        PROVE  r \in toExchange \cup orphans
    BY <1>1, <2>1, FollowingType DEF CheckOrRetry, Check, Retry, Stay
  <2>2. ASSUME NEW state \in Downloads, OnDownloadReply(m, state)
        PROVE  r \in toExchange \cup orphans
    BY <2>1, <2>2 DEF OnDownloadReply
  <2>3. CASE OnOpenOrders(m) \/ OnTrades(m)
    BY <2>1, <2>3 DEF OnOpenOrders, OnTrades, Downloads
  <2> QED
    BY <1>9, <2>2, <2>3
       DEF Handle, OnSessionLogon, OnUserDataStreamSubscribe, OnAccount,
           OnOrderPlace, OnOrderAmendKeepPriority, OnCancelOrder, Respond,
           OnCancelOpenOrders, OnExecutionReport, OnUpdates, Downloads
<1> QED
  BY <1>2, <1>3, <1>4, <1>5, <1>6, <1>7, <1>8, <1>9 DEF Next, Dispatcher

\* An order exists from the moment the exchange accepts it.
LEMMA OrdersArePlaced ==
  ASSUME TypeOK, SnapshotCovers, [Next]_vars, NEW o \in Orders
  PROVE  /\ o \in open' => revision'[o] # 0
         /\ revision'[o] # 0 =>
              \/ revision[o] # 0
              \/ o \in Foreign
              \/ \E r \in toExchange \cup orphans : r.type = "ORDER_PLACE" /\ r.order = o
<1> DEFINE Goal == /\ o \in open' => revision'[o] # 0
                   /\ revision'[o] # 0 =>
                        \/ revision[o] # 0
                        \/ o \in Foreign
                        \/ \E r \in toExchange \cup orphans :
                             r.type = "ORDER_PLACE" /\ r.order = o
<1>0. /\ revision \in Image /\ open \subseteq Orders
      /\ o \in open => revision[o] # 0
  BY DEF TypeOK, SnapshotCovers
<1>1. ASSUME UNCHANGED <<revision, open>> PROVE Goal
  BY <1>0, <1>1
\* One order changes, which was open unless it is placed.
<1>2. ASSUME NEW p \in Orders, NEW stays, Change(p, stays),
             \/ p \in open
             \/ p \in Foreign
             \/ \E r \in toExchange \cup orphans : r.type = "ORDER_PLACE" /\ r.order = p
      PROVE  Goal
  <2>1. CASE p = o
    <3>1. revision'[o] = revision[o] + 1 /\ revision[o] \in Nat
      BY <1>0, <1>2, <2>1 DEF Change, Image
    <3> QED
      BY <1>0, <1>2, <2>1, <3>1
  <2>2. CASE p # o
    BY <1>0, <1>2, <2>2 DEF Change, Image
  <2> QED
    BY <2>1, <2>2
<1>3. ASSUME UNCHANGED vars PROVE Goal
  BY <1>1, <1>3 DEF vars, exchange
<1>4. ASSUME Transport PROVE Goal
  BY <1>1, <1>4 DEF Transport, Connected, Ready, Disconnected, EventStreamTerminated,
                    LoseConnection, exchange
<1>5. ASSUME Dispatcher PROVE Goal
  BY <1>1, <1>5 DEF Dispatcher, CreateOrder, ModifyOrder, CancelOrder,
                    CancelAllOrders, exchange
<1>6. ASSUME NEW r \in toExchange \cup orphans, ExchangeProcesses(r) PROVE Goal
  <2> HIDE DEF Goal
  <2>1. ASSUME NEW ok \in BOOLEAN, ExchangeAnswersQuery(r, ok) PROVE Goal
    BY <1>1, <2>1 DEF ExchangeAnswersQuery
  <2>2. CASE ExchangePlaces(r)
    <3>1. r.order \in Orders
      BY <2>2, ActionOrder DEF ExchangePlaces, IsAction, Actions, TypeOK
    <3> QED
      BY <1>2, <2>2, <3>1 DEF ExchangePlaces
  <2>3. CASE ExchangeAmends(r) \/ ExchangeCancels(r)
    BY <1>0, <1>2, <2>3 DEF ExchangeAmends, ExchangeCancels
  <2>4. CASE ExchangeRejects(r)
    BY <1>1, <2>4 DEF ExchangeRejects, exchange
  <2>5. CASE ExchangeCancelsAll(r)
    <3>1. /\ revision' = [p \in Orders |->
                            IF p \in open /\ Symbol[p] = r.symbol
                            THEN revision[p] + 1 ELSE revision[p]]
          /\ open' \subseteq open
          /\ \A p \in open' : Symbol[p] # r.symbol
      BY <2>5 DEF ExchangeCancelsAll
    <3>2. revision[o] # 0 => revision'[o] # 0
      BY <1>0, <3>1 DEF Image
    <3>3. revision'[o] # 0 => revision[o] # 0
      BY <1>0, <3>1 DEF Image
    <3> QED
      BY <1>0, <3>1, <3>2, <3>3 DEF Goal
  <2> QED
    BY <1>6, <2>1, <2>2, <2>3, <2>4, <2>5 DEF ExchangeProcesses
<1>7. ASSUME Market PROVE Goal
  <2> HIDE DEF Goal
  <2>1. ASSUME NEW p \in Foreign, ForeignOrder(p) PROVE Goal
    BY <1>2, <2>1 DEF ForeignOrder, Orders
  <2>2. ASSUME NEW p \in Orders, NEW stays \in BOOLEAN, Fill(p, stays) PROVE Goal
    BY <1>2, <2>2 DEF Fill
  <2> QED
    BY <1>7, <2>1, <2>2 DEF Market
<1>8. ASSUME NEW m, Handle(m) PROVE Goal
  BY <1>1, <1>8 DEF Handle, OnSessionLogon, OnUserDataStreamSubscribe, OnAccount,
       OnDownloadReply, OnOpenOrders, OnTrades, OnOrderPlace,
       OnOrderAmendKeepPriority, OnCancelOrder, Respond, OnCancelOpenOrders,
       OnExecutionReport, OnUpdates, exchange
<1> HIDE DEF Goal
<1>9. Goal
  BY <1>3, <1>4, <1>5, <1>6, <1>7, <1>8 DEF Next
<1> QED
  BY <1>9 DEF Goal

LEMMA PlacedIsKnownStep ==
  TypeOK /\ PlacedIsKnown /\ SnapshotCovers /\ [Next]_vars => PlacedIsKnown'
<1> SUFFICES ASSUME TypeOK, PlacedIsKnown, SnapshotCovers, [Next]_vars
             PROVE  PlacedIsKnown'
  OBVIOUS
<1>0. Own \cap Foreign = {} /\ Own \subseteq Orders
  BY WebSocketAssumption DEF Orders
<1>1. \A r \in toExchange \cup orphans :
        r.type = "ORDER_PLACE" => r.order \in Own /\ Known(r.order)
  BY ActionOrder DEF TypeOK, PlacedIsKnown, IsAction, Actions
<1>2. ASSUME NEW r \in toExchange' \cup orphans', r.type = "ORDER_PLACE"
      PROVE  Known(r.order)'
  BY <1>1, <1>2, NewPlacements, KnownStays
<1>3. ASSUME NEW o \in Own, revision'[o] # 0 PROVE Known(o)'
  <2>1. Known(o)
    BY <1>0, <1>1, <1>3, OrdersArePlaced DEF PlacedIsKnown
  <2> QED
    BY <2>1, KnownStays
<1> QED
  BY <1>2, <1>3 DEF PlacedIsKnown

\* A step that neither takes the snapshot nor opens an order that was not
\* known, and that delivers the open orders only to have them covered.
LEMMA CoversStay ==
  ASSUME SnapshotCovers,
         \A o \in open' : revision'[o] # 0,
         snapshot' => snapshot,
         open_orders_symbols \subseteq open_orders_symbols',
         \A o \in open' \ late' : o \in open \ late \/ Covered(o)',
         \A m \in toGateway \ toGateway' :
           m.re.type = "OPEN_ORDERS_STATUS" =>
             \A o \in open' \ Unnamed : m.image[o] # 0 => Covered(o)'
  PROVE  SnapshotCovers'
BY DEF SnapshotCovers, OnItsWay, Covered

\* An order that is placed under the eyes of the snapshot comes from outside this
\* process, and is late, or is known.
LEMMA SnapshotCoversExchange ==
  ASSUME TypeOK, PlacedIsKnown, SnapshotCovers, \A o \in open' : revision'[o] # 0,
         NEW r \in toExchange \cup orphans, ExchangeProcesses(r)
  PROVE  SnapshotCovers'
<1>1. ASSUME NEW ok \in BOOLEAN, ExchangeAnswersQuery(r, ok) PROVE SnapshotCovers'
  <2>1. /\ UNCHANGED <<open, revision, open_orders_symbols>>
        /\ toGateway \subseteq toGateway'
    BY <1>1 DEF ExchangeAnswersQuery, gateway
  <2>2. CASE ok /\ r.type = "OPEN_ORDERS_STATUS"
    <3> DEFINE m == Reply(r, ok, ImageOf(open, revision))
    <3>1. toGateway' = toGateway \cup {m}
      BY <1>1, <2>2 DEF ExchangeAnswersQuery
    <3>2. m.re.type = "OPEN_ORDERS_STATUS" /\ \A o \in open : m.image[o] = revision[o]
      BY <2>2, ImageOfValue DEF Reply, TypeOK
    <3> HIDE DEF m
    <3>3. \A o \in open : OnItsWay(o)'
      BY <2>1, <3>1, <3>2 DEF SnapshotCovers, OnItsWay
    <3> QED
      BY <2>1, <3>3 DEF SnapshotCovers
  <2>3. CASE ~ (ok /\ r.type = "OPEN_ORDERS_STATUS")
    <3>1. (snapshot' <=> snapshot) /\ late' = late
      BY <1>1, <2>3 DEF ExchangeAnswersQuery
    <3> QED
      BY <2>1, <3>1, CoversStay
  <2> QED
    BY <2>2, <2>3
<1>2. ASSUME UNCHANGED <<open_orders_symbols, snapshot>>,
             toGateway \subseteq toGateway',
             \A o \in open' \ late' : o \in open \ late \/ Covered(o)'
      PROVE  SnapshotCovers'
  BY <1>2, CoversStay
<1>3. CASE ExchangePlaces(r)
  <2>1. /\ r.order \in Own /\ (r.order \in previous \/ Covered(r.order))
        /\ open' = open \cup {r.order}
        /\ late' = IF snapshot /\ r.order \in previous THEN late \cup {r.order} ELSE late
        /\ UNCHANGED <<open_orders_symbols, snapshot>>
        /\ toGateway \subseteq toGateway'
    BY <1>3, ActionOrder
       DEF ExchangePlaces, Change, IsAction, Actions, TypeOK, PlacedIsKnown, Known, gateway
  <2>2. CASE snapshot
    <3>1. \A o \in open' \ late' : o \in open \ late \/ Covered(o)'
      BY <2>1, <2>2 DEF Covered
    <3> QED
      BY <1>2, <2>1, <3>1
  <2>3. CASE ~ snapshot
    BY <1>3, <2>1, <2>3 DEF SnapshotCovers
  <2> QED
    BY <2>2, <2>3
<1>4. CASE ExchangeAmends(r) \/ ExchangeCancels(r)
  <2>1. open' \subseteq open
    BY <1>4 DEF ExchangeAmends, ExchangeCancels, Change
  <2> QED
    BY <1>2, <1>4, <2>1 DEF ExchangeAmends, ExchangeCancels, gateway
<1>5. CASE ExchangeRejects(r)
  BY <1>2, <1>5 DEF ExchangeRejects, gateway, exchange
<1>6. CASE ExchangeCancelsAll(r)
  <2>1. /\ open' \subseteq open /\ toGateway \subseteq toGateway'
        /\ UNCHANGED <<open_orders_symbols, snapshot, late>>
    BY <1>6 DEF ExchangeCancelsAll, gateway
  <2> QED
    BY <1>2, <2>1
<1> QED
  BY <1>1, <1>3, <1>4, <1>5, <1>6 DEF ExchangeProcesses

LEMMA SnapshotCoversMarket ==
  SnapshotCovers /\ (\A o \in open' : revision'[o] # 0) /\ Market => SnapshotCovers'
<1> SUFFICES ASSUME SnapshotCovers, \A o \in open' : revision'[o] # 0, Market
             PROVE  SnapshotCovers'
  OBVIOUS
<1>1. ASSUME NEW o \in Foreign, ForeignOrder(o) PROVE SnapshotCovers'
  <2>1. /\ open' = open \cup {o}
        /\ late' = IF snapshot THEN late \cup {o} ELSE late
        /\ UNCHANGED <<open_orders_symbols, snapshot>>
        /\ toGateway \subseteq toGateway'
    BY <1>1 DEF ForeignOrder, Change, gateway
  <2>2. CASE snapshot
    <3>1. \A p \in open' \ late' : p \in open \ late
      BY <2>1, <2>2
    <3> QED
      BY <2>1, <3>1, CoversStay
  <2>3. CASE ~ snapshot
    BY <2>1, <2>3 DEF SnapshotCovers
  <2> QED
    BY <2>2, <2>3
<1>2. ASSUME NEW o \in Orders, NEW stays \in BOOLEAN, Fill(o, stays) PROVE SnapshotCovers'
  <2>1. open' \subseteq open
    BY <1>2 DEF Fill, Change
  <2> QED
    BY <1>2, <2>1, CoversStay DEF Fill, gateway
<1> QED
  BY <1>1, <1>2 DEF Market

LEMMA SnapshotCoversHandle ==
  ASSUME SnapshotCovers, \A o \in open' : revision'[o] # 0, open \subseteq Orders,
         NEW m \in toGateway, Handle(m)
  PROVE  SnapshotCovers'
<1>1. ASSUME toGateway' = toGateway \ {m}, m.re.type # "OPEN_ORDERS_STATUS",
             UNCHANGED <<open_orders_symbols, exchange>>
      PROVE  SnapshotCovers'
  BY <1>1, CoversStay DEF exchange
<1>2. CASE OnOpenOrders(m)
  <2>1. /\ toGateway' = toGateway \ {m}
        /\ open_orders_symbols \subseteq open_orders_symbols'
        /\ UNCHANGED <<open, late, snapshot>>
    BY <1>2 DEF OnOpenOrders, Receive, Learn, exchange
  <2>2. \A o \in open' \ Unnamed : m.image[o] # 0 => Covered(o)'
    BY <1>2, <2>1 DEF OnOpenOrders, Learn, Mentioned, Named, Covered
  <2> QED
    BY <2>1, <2>2, CoversStay
<1>3. ASSUME NEW state \in Downloads \ {"OPEN_ORDERS_STATUS"}, OnDownloadReply(m, state)
      PROVE  SnapshotCovers'
  BY <1>1, <1>3 DEF OnDownloadReply, Receive
<1>4. CASE OnTrades(m)
  BY <1>1, <1>4 DEF OnTrades, Receive
<1>5. ASSUME NEW type \in Actions, NEW good, NEW bad, Respond(m, type, good, bad)
      PROVE  SnapshotCovers'
  BY <1>1, <1>5 DEF Respond, Receive, Actions, gateway
<1>6. CASE OnCancelOpenOrders(m) \/ OnExecutionReport(m)
  BY <1>1, <1>6 DEF OnCancelOpenOrders, OnExecutionReport, OnUpdates, Receive, gateway
<1> QED
  BY <1>2, <1>3, <1>4, <1>5, <1>6
     DEF Handle, OnSessionLogon, OnUserDataStreamSubscribe, OnAccount,
         OnOrderPlace, OnOrderAmendKeepPriority, OnCancelOrder, Downloads, Actions

LEMMA SnapshotCoversStep ==
  TypeOK /\ PlacedIsKnown /\ SnapshotCovers /\ [Next]_vars => SnapshotCovers'
<1> SUFFICES ASSUME TypeOK, PlacedIsKnown, SnapshotCovers, [Next]_vars
             PROVE  SnapshotCovers'
  OBVIOUS
<1>1. \A o \in open' : revision'[o] # 0
  BY TypeStep, OrdersArePlaced DEF TypeOK
<1>2. CASE UNCHANGED vars \/ Connected \/ Ready
  BY <1>1, <1>2, CoversStay DEF vars, gateway, transport, exchange, Connected, Ready
<1>3. CASE Disconnected \/ EventStreamTerminated
  BY <1>1, <1>3 DEF Disconnected, EventStreamTerminated, LoseConnection, SnapshotCovers
<1>4. CASE Dispatcher
  <2>1. /\ UNCHANGED <<toGateway, exchange>>
        /\ open_orders_symbols \subseteq open_orders_symbols'
    BY <1>4 DEF Dispatcher, CreateOrder, ModifyOrder, CancelOrder, CancelAllOrders, gateway
  <2> QED
    BY <1>1, <2>1, CoversStay DEF exchange
<1> QED
  BY <1>1, <1>2, <1>3, <1>4, SnapshotCoversExchange, SnapshotCoversMarket,
     SnapshotCoversHandle DEF Next, Transport, TypeOK

\* Cancelling all orders of a READY session reaches every open order that this
\* process created, on whatever session, or could have learned of from the
\* snapshot, by its client_order_id, whatever was retried, lost or restarted: the open orders are asked
\* for once at a time, so READY means that the answer was processed.
THEOREM CancelAllCoversOpenOrders == Spec => []CancelAllCovers
<1>1. Spec => [](PlacedIsKnown /\ SnapshotCovers)
  BY CoverageInit, PlacedIsKnownStep, SnapshotCoversStep, TypeCorrect, PTL DEF Spec
<1>2. ASSUME IInv, OneQuery, SnapshotCovers PROVE CancelAllCovers
  <2> SUFFICES ASSUME IsReady, NEW o \in open \ (late \cup Unnamed) PROVE Covered(o)
    BY DEF CancelAllCovers, Covered
  <2>1. snapshot /\ download = "DONE"
    BY <1>2 DEF IInv, ReadyConsistent, DownloadFollowsSession, AfterSnapshot
  <2>2. ASSUME NEW m \in toGateway PROVE m.re.type # "OPEN_ORDERS_STATUS"
    BY <1>2, <2>1, <2>2 DEF OneQuery, Current, Replies, IsQuery, Downloads
  <2> QED
    BY <1>2, <2>1, <2>2 DEF SnapshotCovers, OnItsWay
<1> QED
  BY <1>1, <1>2, Invariance, OneDownloadRequestAtATime, PTL

=============================================================================
