---------------------------- MODULE WebSocketProofs ----------------------------
(***************************************************************************)
(* Theorems about WebSocket, for any number of orders, instruments,        *)
(* sessions and faults.                                                    *)
(***************************************************************************)
EXTENDS WebSocket, TLAPS

LEMMA RequestTypes ==
  ASSUME NEW r \in Request
  PROVE  r.type \in Downloads \cup Actions \cup {"OPEN_ORDERS_CANCEL_ALL"}
BY DEF Request, Downloads

LEMMA NoImageType == NoImage \in Image
BY DEF NoImage, Image

LEMMA FollowingType ==
  ASSUME NEW state \in Downloads
  PROVE  Following(state) \in (Downloads \cup {"DONE"}) \ {"SESSION_LOGON"}
BY DEF Following, Downloads

\* What the callback of the download leaves of the type invariant.
DownloadTypeOK ==
  /\ connection_status \in ConnectionStatuses
  /\ ready \in BOOLEAN
  /\ download \in States
  /\ sequence \in Nat
  /\ toExchange \subseteq Request

LEMMA EnterType ==
  ASSUME TypeOK, NEW state \in Downloads \cup {"DONE"}, Enter(state)
  PROVE  DownloadTypeOK'
<1>1. TradesSymbols \subseteq DownloadSymbols
  BY DEF TradesSymbols
<1>2. sequence + 1 \in Nat
  BY DEF TypeOK
<1>3. Requests(state, sequence + 1) \subseteq Request
  BY <1>1, <1>2 DEF Requests, Request, Query, TradesQuery, Downloads
<1>4. StatusIn(state) \in ConnectionStatuses
  BY DEF StatusIn, ConnectionStatuses
<1>5. ready' \in BOOLEAN
  BY Zenon DEF Enter, TypeOK
<1> QED
  BY <1>2, <1>3, <1>4, <1>5 DEF Enter, TypeOK, DownloadTypeOK, States

LEMMA CheckOrRetryType ==
  ASSUME TypeOK, NEW state \in Downloads, NEW ok, CheckOrRetry(ok, state)
  PROVE  DownloadTypeOK'
<1>1. Following(state) \in Downloads \cup {"DONE"}
  BY FollowingType
<1>2. CASE Enter(state)
  BY <1>2, EnterType
<1>3. CASE Enter(Following(state))
  BY <1>1, <1>3, EnterType
<1>4. CASE Stay
  BY <1>4 DEF Stay, TypeOK, DownloadTypeOK
<1> QED
  BY <1>2, <1>3, <1>4 DEF CheckOrRetry, Check, Retry

LEMMA ImageOfType ==
  ASSUME NEW S, NEW rev \in Image
  PROVE  ImageOf(S, rev) \in Image
BY DEF ImageOf, Image

LEMMA MessageType ==
  ASSUME NEW r \in Request \cup {ExecutionReport}, NEW ok \in BOOLEAN,
         NEW image \in Image
  PROVE  Reply(r, ok, image) \in Message
BY DEF Reply, Message

LEMMA ReportType ==
  ASSUME NEW image \in Image
  PROVE  Push(image) \subseteq Message
BY MessageType DEF Push, Report

LEMMA AnswersType ==
  ASSUME TypeOK, NEW r, NEW ok \in BOOLEAN, NEW image \in Image
  PROVE  Answers(r, ok, image) \subseteq Message
BY MessageType DEF Answers, TypeOK

LEMMA NamedImage ==
  ASSUME NEW image \in Image
  PROVE  /\ Named(image) \in Image
         /\ \A o \in Orders : Named(image)[o] <= image[o]
         /\ \A o \in Orders \ Unnamed : Named(image)[o] = image[o]
BY DEF Named, Image

LEMMA PublishType ==
  ASSUME TypeOK, NEW image \in Image, Publish(image)
  PROVE  told' \in Image
BY DEF TypeOK, Publish, Image

LEMMA TypeInit == Init => TypeOK
<1> SUFFICES ASSUME Init PROVE TypeOK
  OBVIOUS
<1>1. asked \in [Own -> Seq(Actions)]
  BY DEF Init
<1>2. revision \in Image /\ told \in Image
  BY NoImageType DEF Init
<1> QED
  BY <1>1, <1>2 DEF Init, TypeOK, ConnectionStatuses, States

-----------------------------------------------------------------------------
(* The type invariant, one lemma for each group of actions *)

LEMMA TransportType == TypeOK /\ Transport => TypeOK'
<1> SUFFICES ASSUME TypeOK, Transport PROVE TypeOK'
  OBVIOUS
<1> USE DEF TypeOK
<1>1. CASE Connected
  BY <1>1 DEF Connected, gateway, exchange, oms
<1>2. CASE Ready
  <2>1. DownloadTypeOK'
    BY <1>2, EnterType DEF Ready, Downloads
  <2> QED
    BY <1>2, <2>1 DEF Ready, DownloadTypeOK, exchange, oms
<1>3. ASSUME LoseConnection
      PROVE  orphans' \subseteq Request /\ tradesSeen' \subseteq DownloadSymbols
  BY <1>3 DEF LoseConnection
<1>4. CASE Disconnected
  BY <1>3, <1>4 DEF Disconnected, LoseConnection, Reset, ConnectionStatuses, States
<1>5. CASE EventStreamTerminated
  BY <1>3, <1>5, NoImageType
     DEF EventStreamTerminated, LoseConnection, Reset, ConnectionStatuses, States
<1> QED
  BY <1>1, <1>2, <1>4, <1>5 DEF Transport

\* A request for an order and the answer the dispatcher gets when it throws.
LEMMA AskType ==
  ASSUME TypeOK, NEW o \in Own, NEW type \in Actions, Ask(o, type)
  PROVE  /\ NextVersion(o) \in Nat
         /\ asked' \in [Own -> Seq(Actions)]
         /\ Action(type, o, NextVersion(o)) \in Request
         /\ Response(type, o, NextVersion(o), "THROWN")
              \in [type : Actions, order : Own, version : Nat,
                   status : {"ACCEPTED", "REJECTED", "THROWN"}]
<1>1. asked[o] \in Seq(Actions)
  BY DEF TypeOK
<1>2. NextVersion(o) \in Nat
  BY <1>1 DEF NextVersion
<1>3. Append(asked[o], type) \in Seq(Actions)
  BY <1>1
<1>4. asked' \in [Own -> Seq(Actions)]
  BY <1>3 DEF Ask, TypeOK
<1> QED
  BY <1>2, <1>4 DEF Action, Request, Response

LEMMA SymbolsOfOrders == \A o \in Orders : Symbol[o] \in Symbols
BY WebSocketAssumption DEF Orders

LEMMA DispatcherType == TypeOK /\ Dispatcher => TypeOK'
<1> SUFFICES ASSUME TypeOK, Dispatcher PROVE TypeOK'
  OBVIOUS
<1>1. ASSUME NEW o \in Own, CreateOrder(o) PROVE TypeOK'
  <2>1. "ORDER_PLACE" \in Actions
    BY DEF Actions
  <2>2. Ask(o, "ORDER_PLACE") /\ NextVersion(o) = 1
    BY <1>1 DEF CreateOrder, NextVersion
  <2>3. Symbol[o] \in Symbols
    BY SymbolsOfOrders DEF Orders
  <2>4. Action("ORDER_PLACE", o, 1) \in Request
    BY <2>1, <2>2, AskType
  <2>5. /\ asked' \in [Own -> Seq(Actions)]
        /\ Response("ORDER_PLACE", o, NextVersion(o), "THROWN")
             \in [type : Actions, order : Own, version : Nat,
                  status : {"ACCEPTED", "REJECTED", "THROWN"}]
    BY <2>1, <2>2, AskType
  <2> QED
    BY <1>1, <2>3, <2>4, <2>5 DEF CreateOrder, Thrown, Send, TypeOK, exchange
<1>2. ASSUME NEW o \in Own, NEW type \in Actions, Ask(o, type),
             UNCHANGED <<gateway, connection, toGateway, orphans, sessions, faults,
                         exchange, told, tradesSeen>>,
             \/ Send(Action(type, o, NextVersion(o))) /\ UNCHANGED answers
             \/ Thrown(o, type) /\ UNCHANGED toExchange
      PROVE  TypeOK'
  <2>1. /\ asked' \in [Own -> Seq(Actions)]
        /\ Action(type, o, NextVersion(o)) \in Request
        /\ Response(type, o, NextVersion(o), "THROWN")
             \in [type : Actions, order : Own, version : Nat,
                  status : {"ACCEPTED", "REJECTED", "THROWN"}]
    BY <1>2, AskType
  <2> QED
    BY <1>2, <2>1 DEF Thrown, Send, TypeOK, gateway, exchange
<1>3. ASSUME NEW o \in Own, ModifyOrder(o) PROVE TypeOK'
  BY <1>2, <1>3 DEF ModifyOrder, Actions
<1>4. ASSUME NEW o \in Own, CancelOrder(o) PROVE TypeOK'
  BY <1>2, <1>4 DEF CancelOrder, Actions
<1>5. ASSUME NEW symbols, CancelAllOrders(symbols) PROVE TypeOK'
  <2>1. \A s \in Symbols : CancelAll(s) \in Request
    BY DEF CancelAll, Request
  <2>2. toExchange' \subseteq Request
    BY <1>5, <2>1 DEF CancelAllOrders, TypeOK
  <2> QED
    BY <1>5, <2>2 DEF CancelAllOrders, TypeOK, gateway, exchange, oms
<1> QED
  BY <1>1, <1>3, <1>4, <1>5 DEF Dispatcher

LEMMA ChangeType ==
  ASSUME TypeOK, NEW o \in Orders, NEW stays, Change(o, stays)
  PROVE  revision' \in Image /\ open' \subseteq Orders
BY DEF TypeOK, Change, Image

LEMMA TakeType ==
  ASSUME TypeOK, NEW r, Take(r)
  PROVE  /\ r \in Request
         /\ toExchange' \subseteq Request
         /\ orphans' \subseteq Request
BY DEF TypeOK, Take

LEMMA ActionOrder ==
  ASSUME NEW r \in Request, IsAction(r)
  PROVE  r.order \in Own /\ r.order \in Orders /\ r.version \in Nat
BY DEF Request, IsAction, Actions, Downloads, Orders

LEMMA ExchangeType ==
  ASSUME TypeOK, NEW r \in toExchange \cup orphans, ExchangeProcesses(r)
  PROVE  TypeOK'
<1>0. r \in Request
  BY DEF TypeOK
<1>1. ASSUME NEW ok \in BOOLEAN, ExchangeAnswersQuery(r, ok) PROVE TypeOK'
  <2> DEFINE reads == ok /\ r.type = "OPEN_ORDERS_STATUS"
             image == IF reads THEN ImageOf(open, revision) ELSE NoImage
  <2>1. image \in Image
    BY NoImageType, ImageOfType DEF TypeOK
  <2>2. Reply(r, ok, image) \in Message
    BY <1>0, <2>1, MessageType
  <2> HIDE DEF image
  <2>3. toGateway' \subseteq Message
    BY <1>1, <2>2 DEF ExchangeAnswersQuery, TypeOK, image
  <2>4. /\ snapshot' \in BOOLEAN
        /\ subscribed' \in BOOLEAN
    <3>1. snapshot' = (snapshot \/ reads)
      BY <1>1, Zenon DEF ExchangeAnswersQuery
    <3>2. subscribed' = (subscribed \/ (ok /\ r.type = "USER_DATA_STREAM_SUBSCRIBE"))
      BY <1>1, Zenon DEF ExchangeAnswersQuery
    <3> QED
      BY <3>1, <3>2, Zenon DEF TypeOK
  <2>5. faults' \in Nat /\ late' \subseteq Orders /\ toExchange' \subseteq Request
    BY <1>1 DEF ExchangeAnswersQuery, TypeOK
  <2> QED
    BY <1>1, <2>3, <2>4, <2>5 DEF ExchangeAnswersQuery, TypeOK, gateway, oms
\* The orders r is about change, and all that is said about them is an image.
<1>2. ASSUME NEW o \in Orders, NEW stays, Take(r), Change(o, stays),
             toGateway' = toGateway \cup Answers(r, TRUE, ImageOf({o}, revision'))
                                    \cup Push(ImageOf({o}, revision')),
             late' \subseteq Orders,
             UNCHANGED <<connection, sessions, faults, gateway, subscribed,
                         snapshot, previous, oms>>
      PROVE  TypeOK'
  <2>1. revision' \in Image /\ open' \subseteq Orders
    BY <1>2, ChangeType
  <2>2. ImageOf({o}, revision') \in Image
    BY <2>1, ImageOfType
  <2>3. toGateway' \subseteq Message
    BY <1>2, <2>2, AnswersType, ReportType DEF TypeOK
  <2> QED
    BY <1>2, <2>1, <2>3, TakeType DEF TypeOK, gateway, oms
<1>3. CASE ExchangePlaces(r)
  <2>1. r.order \in Orders
    BY <1>0, <1>3, ActionOrder DEF ExchangePlaces, IsAction, Actions
  <2>2. late' \subseteq Orders
    BY <1>3, <2>1 DEF ExchangePlaces, TypeOK
  <2> QED
    BY <1>2, <1>3, <2>1, <2>2 DEF ExchangePlaces
<1>4. CASE ExchangeAmends(r)
  <2>1. r.order \in Orders
    BY <1>4 DEF ExchangeAmends, TypeOK
  <2> QED
    BY <1>2, <1>4, <2>1 DEF ExchangeAmends, TypeOK
<1>5. CASE ExchangeCancels(r)
  <2>1. r.order \in Orders
    BY <1>5 DEF ExchangeCancels, TypeOK
  <2> QED
    BY <1>2, <1>5, <2>1 DEF ExchangeCancels, TypeOK
<1>6. CASE ExchangeRejects(r)
  <2>1. toGateway' \subseteq Message
    BY <1>6, AnswersType, NoImageType DEF ExchangeRejects, TypeOK
  <2>2. toExchange' \subseteq Request /\ orphans' \subseteq Request
    BY <1>6, TakeType DEF ExchangeRejects
  <2> QED
    BY <1>6, <2>1, <2>2 DEF ExchangeRejects, TypeOK, gateway, exchange, oms
<1>7. CASE ExchangeCancelsAll(r)
  <2> DEFINE hit == {o \in open : Symbol[o] = r.symbol}
             image == ImageOf(hit, revision')
  <2>1. revision' \in Image
    BY <1>7 DEF ExchangeCancelsAll, TypeOK, Image
  <2>2. image \in Image
    BY <2>1, ImageOfType
  <2>3. Answers(r, hit # {}, image) \subseteq Message
    BY <2>2, AnswersType
  <2>4. Push(image) \subseteq Message
    BY <2>2, ReportType
  <2>5. toGateway' = toGateway \cup Answers(r, hit # {}, image)
                       \cup (IF hit # {} THEN Push(image) ELSE {})
    BY <1>7 DEF ExchangeCancelsAll
  <2>6. toGateway' \subseteq Message
    BY <2>3, <2>4, <2>5 DEF TypeOK
  <2>7. open' \subseteq Orders
    BY <1>7 DEF ExchangeCancelsAll, TypeOK
  <2>8. toExchange' \subseteq Request /\ orphans' \subseteq Request
    BY <1>7, TakeType DEF ExchangeCancelsAll
  <2> QED
    BY <1>7, <2>1, <2>6, <2>7, <2>8 DEF ExchangeCancelsAll, TypeOK, gateway, oms
<1> QED
  BY <1>1, <1>3, <1>4, <1>5, <1>6, <1>7 DEF ExchangeProcesses

LEMMA MarketType == TypeOK /\ Market => TypeOK'
<1> SUFFICES ASSUME TypeOK, Market PROVE TypeOK'
  OBVIOUS
<1>1. ASSUME NEW o \in Orders, NEW stays, Change(o, stays), late' \subseteq Orders,
             toGateway' = toGateway \cup Push(ImageOf({o}, revision')),
             UNCHANGED <<connection, toExchange, orphans, sessions, faults, gateway,
                         subscribed, snapshot, previous, oms>>
      PROVE  TypeOK'
  <2>1. revision' \in Image /\ open' \subseteq Orders
    BY <1>1, ChangeType
  <2>2. toGateway' \subseteq Message
    BY <1>1, <2>1, ImageOfType, ReportType DEF TypeOK
  <2> QED
    BY <1>1, <2>1, <2>2 DEF TypeOK, gateway, oms
<1>2. ASSUME NEW o \in Foreign, ForeignOrder(o) PROVE TypeOK'
  <2>1. o \in Orders /\ late' \subseteq Orders
    BY <1>2 DEF ForeignOrder, Orders, TypeOK
  <2> QED
    BY <1>1, <1>2, <2>1 DEF ForeignOrder
<1>3. ASSUME NEW o \in Orders, NEW stays \in BOOLEAN, Fill(o, stays) PROVE TypeOK'
  BY <1>1, <1>3 DEF Fill, TypeOK
<1> QED
  BY <1>2, <1>3 DEF Market

LEMMA HandleType ==
  ASSUME TypeOK, NEW m \in toGateway, Handle(m)
  PROVE  TypeOK'
<1>0. m \in Message /\ m.image \in Image /\ m.ok \in BOOLEAN
  BY DEF TypeOK, Message
<1>1. ASSUME NEW state \in Downloads, OnDownloadReply(m, state) PROVE TypeOK'
  <2>1. DownloadTypeOK'
    BY <1>1, CheckOrRetryType DEF OnDownloadReply
  <2> QED
    BY <1>1, <2>1 DEF OnDownloadReply, Receive, DownloadTypeOK, TypeOK, exchange, oms
<1>2. CASE OnOpenOrders(m)
  <2>1. DownloadTypeOK'
    BY <1>2, CheckOrRetryType DEF OnOpenOrders, Downloads
  <2>2. told' \in Image
    BY <1>0, <1>2, NamedImage, PublishType DEF OnOpenOrders
  <2>3. open_orders_symbols' \subseteq Symbols
    BY <1>2, SymbolsOfOrders DEF OnOpenOrders, Learn, Mentioned, TypeOK
  <2> QED
    BY <1>2, <2>1, <2>2, <2>3 DEF OnOpenOrders, Receive, DownloadTypeOK, TypeOK, exchange
<1>3. CASE OnTrades(m)
  <2>1. DownloadTypeOK'
    BY <1>3, CheckOrRetryType DEF OnTrades, Downloads
  <2>2. m.re.type = "MY_TRADES"
    BY <1>3 DEF OnTrades, Receive
  <2>3. m.re \in Request
    BY <1>0, <2>2 DEF Message, ExecutionReport
  <2>4. tradesSeen' \subseteq DownloadSymbols
    <3>1. m.re.symbol \in DownloadSymbols
      BY <2>2, <2>3 DEF Request, Actions, Downloads
    <3> QED
      BY <1>3, <3>1 DEF OnTrades, TypeOK
  <2>5. download_trades_is_first' \in BOOLEAN
    <3>1. download_trades_is_first' = (download_trades_is_first /\ ~ m.ok)
      BY <1>3, Zenon DEF OnTrades
    <3> QED
      BY <3>1, Zenon DEF TypeOK
  <2> QED
    BY <1>3, <2>1, <2>4, <2>5 DEF OnTrades, Receive, DownloadTypeOK, TypeOK, exchange
<1>4. ASSUME NEW type \in Actions, NEW good \in Actions, NEW bad \in Actions,
             Respond(m, type, good, bad)
      PROVE  TypeOK'
  <2>1. m.re \in Request /\ IsAction(m.re)
    BY <1>0, <1>4 DEF Respond, Receive, Message, ExecutionReport, IsAction, Actions
  <2>2. m.re.order \in Own /\ m.re.version \in Nat
    BY <2>1, ActionOrder
  <2>3. told' \in Image
    BY <1>0, <1>4, PublishType DEF Respond
  <2>4. answers' \subseteq [type : Actions, order : Own, version : Nat,
                           status : {"ACCEPTED", "REJECTED", "THROWN"}]
    BY <1>4, <2>2 DEF Respond, Response, TypeOK
  <2> QED
    BY <1>4, <2>3, <2>4 DEF Respond, Receive, TypeOK, gateway, exchange
<1>5. ASSUME NEW type, NEW image \in Image, OnUpdates(m, type, image) PROVE TypeOK'
  <2>1. told' \in Image
    BY <1>0, <1>5, PublishType DEF OnUpdates
  <2> QED
    BY <1>5, <2>1 DEF OnUpdates, Receive, TypeOK, gateway, exchange
<1> QED
  BY <1>0, <1>1, <1>2, <1>3, <1>4, <1>5, NamedImage
     DEF Handle, OnSessionLogon, OnUserDataStreamSubscribe, OnAccount,
         OnOrderPlace, OnOrderAmendKeepPriority, OnCancelOrder,
         OnCancelOpenOrders, OnExecutionReport, Downloads, Actions

LEMMA TypeStep == TypeOK /\ [Next]_vars => TypeOK'
<1> SUFFICES ASSUME TypeOK, [Next]_vars PROVE TypeOK'
  OBVIOUS
<1>1. CASE UNCHANGED vars
  BY <1>1 DEF vars, gateway, transport, exchange, oms, TypeOK
<1> QED
  BY <1>1, TransportType, DispatcherType, ExchangeType, MarketType, HandleType
     DEF Next

\* Type correctness.
THEOREM TypeCorrect == Spec => []TypeOK
BY TypeInit, TypeStep, PTL DEF Spec

-----------------------------------------------------------------------------
(* The inductive invariant *)

\* Without a usable connection nothing is in flight and the exchange has
\* forgotten the session.
NothingWithoutConnection ==
  connection # "ready" =>
    toExchange = {} /\ toGateway = {} /\ ~ subscribed /\ ~ snapshot

\* What is only asked for once the session is subscribed, or has its snapshot.
AfterSubscription == {"ACCOUNT_STATUS", "OPEN_ORDERS_STATUS", "MY_TRADES", "DONE"}
AfterSnapshot == {"MY_TRADES", "DONE"}

\* The download is never ahead of the exchange: its state, and every request or
\* answer in flight, tells how far the session has got.
DownloadFollowsSession ==
  /\ snapshot => subscribed
  /\ download \in AfterSubscription => subscribed
  /\ download \in AfterSnapshot => snapshot
  /\ \A r \in toExchange :
       /\ r.type \in AfterSubscription => subscribed
       /\ r.type \in AfterSnapshot => snapshot
  /\ \A m \in toGateway :
       /\ m.re.type \in AfterSubscription => subscribed
       /\ m.re.type \in AfterSnapshot => snapshot
       /\ m.ok /\ m.re.type = "USER_DATA_STREAM_SUBSCRIBE" => subscribed
       /\ m.ok /\ m.re.type = "OPEN_ORDERS_STATUS" => snapshot

\* Nobody knows more about an order than the exchange, and the answers to the
\* other downloads say nothing about orders.
NothingInvented ==
  /\ \A o \in Orders : told[o] <= revision[o]
  /\ \A m \in toGateway : \A o \in Orders : m.image[o] <= revision[o]
  /\ \A m \in toGateway :
       m.re.type \in Downloads \ {"OPEN_ORDERS_STATUS"} => m.image = NoImage

\* From the snapshot on, whether or not the gateway is READY.
NoGap ==
  snapshot => \A o \in open \ Unnamed : told[o] = revision[o] \/ InFlight(o)

IInv ==
  /\ TypeOK
  /\ ReadyConsistent
  /\ NothingWithoutConnection
  /\ DownloadFollowsSession
  /\ NothingInvented
  /\ NoGap

LEMMA InvInit == Init => IInv
<1> SUFFICES ASSUME Init PROVE IInv
  OBVIOUS
<1>1. TypeOK
  BY TypeInit
<1>2. ReadyConsistent
  BY DEF Init, ReadyConsistent, IsReady
<1>3. NothingWithoutConnection
  BY DEF Init, NothingWithoutConnection
<1>4. DownloadFollowsSession
  BY DEF Init, DownloadFollowsSession, AfterSubscription, AfterSnapshot
<1>5. NothingInvented
  BY DEF Init, NothingInvented, NoImage
<1>6. NoGap
  BY DEF Init, NoGap
<1> QED
  BY <1>1, <1>2, <1>3, <1>4, <1>5, <1>6 DEF IInv

\* A connection that comes up or is lost.
LEMMA InvTransport == IInv /\ TypeOK' /\ Transport => IInv'
<1> SUFFICES ASSUME IInv, TypeOK', Transport PROVE IInv'
  OBVIOUS
<1>1. CASE Connected
  <2>1. connection # "ready" /\ connection' # "ready"
    BY <1>1 DEF Connected
  <2>2. ReadyConsistent'
    BY <1>1, <2>1 DEF Connected, IInv, ReadyConsistent, IsReady, gateway
  <2>3. NothingWithoutConnection' /\ DownloadFollowsSession'
    BY <1>1, <2>1 DEF Connected, IInv, NothingWithoutConnection,
                      DownloadFollowsSession, gateway, exchange
  <2>4. NothingInvented' /\ NoGap'
    BY <1>1 DEF Connected, IInv, NothingInvented, NoGap, InFlight, exchange, oms
  <2> QED
    BY <2>2, <2>3, <2>4 DEF IInv
<1>2. CASE Ready
  <2>1. /\ connection = "opened" /\ connection' = "ready"
        /\ toExchange = {} /\ toGateway = {} /\ ~ subscribed /\ ~ snapshot
    BY <1>2 DEF Ready, IInv, NothingWithoutConnection
  <2>2. /\ download' = "SESSION_LOGON"
        /\ connection_status' = "LOGIN_SENT"
        /\ toExchange' = {Query("SESSION_LOGON", sequence + 1)}
    BY <1>2, <2>1 DEF Ready, Enter, StatusIn, Requests
  <2>3. ready' = FALSE
    BY <1>2, <2>1 DEF Ready, Enter, IInv, ReadyConsistent
  <2>4. ReadyConsistent'
    BY <2>1, <2>2, <2>3 DEF ReadyConsistent, IsReady, IsQuery, Query, Downloads
  <2>5. NothingWithoutConnection'
    BY <2>1 DEF NothingWithoutConnection
  <2>6. DownloadFollowsSession'
    BY <1>2, <2>1, <2>2 DEF Ready, DownloadFollowsSession, AfterSubscription,
                            AfterSnapshot, Query, exchange
  <2>7. NothingInvented' /\ NoGap'
    BY <1>2 DEF Ready, IInv, NothingInvented, NoGap, InFlight, exchange, oms
  <2> QED
    BY <2>4, <2>5, <2>6, <2>7 DEF IInv
<1>3. ASSUME LoseConnection, NEW status \in {"UNDEFINED", "DISCONNECTED"},
             Reset(status),
             told' = told \/ told' = NoImage
      PROVE  IInv'
  <2>1. ReadyConsistent'
    BY <1>3 DEF LoseConnection, Reset, ReadyConsistent, IsReady
  <2>2. NothingWithoutConnection'
    BY <1>3 DEF LoseConnection, NothingWithoutConnection
  <2>3. DownloadFollowsSession'
    BY <1>3 DEF LoseConnection, Reset, DownloadFollowsSession, AfterSubscription,
                AfterSnapshot
  <2>4. NothingInvented'
    <3>1. \A o \in Orders : told'[o] <= revision[o]
      BY <1>3 DEF IInv, NothingInvented, TypeOK, NoImage, Image
    <3> QED
      BY <1>3, <3>1 DEF LoseConnection, NothingInvented
  <2>5. NoGap'
    BY <1>3 DEF LoseConnection, NoGap
  <2> QED
    BY <2>1, <2>2, <2>3, <2>4, <2>5 DEF IInv
<1>4. CASE Disconnected
  BY <1>3, <1>4 DEF Disconnected
<1>5. CASE EventStreamTerminated
  BY <1>3, <1>5 DEF EventStreamTerminated
<1> QED
  BY <1>1, <1>2, <1>4, <1>5 DEF Transport

\* The dispatcher only adds order requests, and only while the gateway is READY.
LEMMA InvDispatcher == IInv /\ TypeOK' /\ Dispatcher => IInv'
<1> SUFFICES ASSUME IInv, TypeOK', Dispatcher PROVE IInv'
  OBVIOUS
<1>1. /\ UNCHANGED <<connection_status, ready, download, connection, toGateway,
                     exchange, told>>
      /\ toExchange \subseteq toExchange'
      /\ \A r \in toExchange' \ toExchange :
           IsReady /\ r.type \in Actions \cup {"OPEN_ORDERS_CANCEL_ALL"}
  BY DEF Dispatcher, CreateOrder, ModifyOrder, CancelOrder, CancelAllOrders,
         Send, Action, CancelAll, Actions, gateway, oms
<1>2. IsReady => connection = "ready"
  BY DEF IInv, ReadyConsistent
<1>3. ReadyConsistent'
  BY <1>1 DEF IInv, ReadyConsistent, IsReady
<1>4. NothingWithoutConnection'
  BY <1>1, <1>2 DEF IInv, NothingWithoutConnection, exchange
<1>5. DownloadFollowsSession'
  BY <1>1 DEF IInv, DownloadFollowsSession, AfterSubscription, AfterSnapshot,
              Actions, exchange
<1>6. NothingInvented' /\ NoGap'
  BY <1>1 DEF IInv, NothingInvented, NoGap, InFlight, exchange
<1> QED
  BY <1>3, <1>4, <1>5, <1>6 DEF IInv

\* Whatever changes the orders at the exchange: requests leave the wire, answers
\* and reports join it, and a subscribed session is told of each change.
LEMMA BookStep ==
  ASSUME IInv, TypeOK',
         toExchange' \subseteq toExchange,
         toGateway \subseteq toGateway',
         \A m \in toGateway' \ toGateway :
           /\ m.re \in toExchange \/ subscribed
           /\ m.re.type \notin Downloads
           /\ \A o \in Orders : m.image[o] <= revision'[o],
         \A o \in Orders : revision[o] <= revision'[o],
         \A o \in open' :
           \/ o \in open /\ revision'[o] = revision[o]
           \/ subscribed => \E m \in toGateway' : m.image[o] = revision'[o],
         UNCHANGED <<gateway, connection, subscribed, snapshot, told>>
  PROVE  IInv'
<1>1. ReadyConsistent'
  BY DEF IInv, ReadyConsistent, IsReady, gateway
<1>2. NothingWithoutConnection'
  BY DEF IInv, NothingWithoutConnection
<1>3. DownloadFollowsSession'
  <2>1. \A m \in toGateway' \ toGateway :
          m.re.type \notin AfterSubscription \cup AfterSnapshot \cup Downloads
    <3> SUFFICES ASSUME NEW m \in toGateway' \ toGateway
                 PROVE  m.re.type \notin AfterSubscription \cup AfterSnapshot \cup Downloads
      OBVIOUS
    <3>1. m.re \in Request \cup {ExecutionReport}
      BY DEF TypeOK, Message
    <3>2. m.re.type # "DONE"
      BY <3>1, RequestTypes DEF ExecutionReport, Downloads, Actions
    <3> QED
      BY <3>2 DEF AfterSubscription, AfterSnapshot, Downloads
  <2> QED
    BY <2>1 DEF IInv, DownloadFollowsSession, Downloads, gateway
<1>4. NothingInvented'
  <2>1. \A o \in Orders : told'[o] <= revision'[o]
    BY DEF IInv, NothingInvented, TypeOK, Image
  <2>2. \A m \in toGateway' : \A o \in Orders : m.image[o] <= revision'[o]
    <3> SUFFICES ASSUME NEW m \in toGateway, NEW o \in Orders
                 PROVE  m.image[o] <= revision'[o]
      OBVIOUS
    <3>1. m.image[o] <= revision[o] /\ revision[o] <= revision'[o]
      BY DEF IInv, NothingInvented
    <3>2. m.image[o] \in Nat /\ revision[o] \in Nat /\ revision'[o] \in Nat
      BY DEF IInv, TypeOK, Message, Image
    <3> QED
      BY <3>1, <3>2
  <2>3. \A m \in toGateway' :
          m.re.type \in Downloads \ {"OPEN_ORDERS_STATUS"} => m.image = NoImage
    BY DEF IInv, NothingInvented
  <2> QED
    BY <2>1, <2>2, <2>3 DEF NothingInvented
<1>5. NoGap'
  <2> SUFFICES ASSUME snapshot', NEW o \in open' \ Unnamed
               PROVE  told'[o] = revision'[o] \/ InFlight(o)'
    BY DEF NoGap
  <2>1. subscribed
    BY DEF IInv, DownloadFollowsSession
  <2>2. CASE o \in open /\ revision'[o] = revision[o]
    BY <2>2 DEF IInv, NoGap, InFlight
  <2>3. CASE \E m \in toGateway' : m.image[o] = revision'[o]
    BY <2>3 DEF InFlight
  <2> QED
    BY <2>1, <2>2, <2>3
<1> QED
  BY <1>1, <1>2, <1>3, <1>4, <1>5 DEF IInv

\* An image of the orders S at the revisions rev.
LEMMA ImageOfValue ==
  ASSUME NEW S, NEW rev \in Image, NEW o \in Orders
  PROVE  /\ ImageOf(S, rev)[o] <= rev[o]
         /\ o \in S => ImageOf(S, rev)[o] = rev[o]
BY DEF ImageOf, Image

\* One order changes, for a request r or of itself.
LEMMA OneChange ==
  ASSUME IInv, TypeOK', NEW o \in Orders, NEW stays, Change(o, stays),
         toExchange' \subseteq toExchange,
         NEW replies, replies \subseteq Message,
         \A m \in replies :
           /\ m.re \in toExchange
           /\ m.re.type \notin Downloads
           /\ m.image = ImageOf({o}, revision'),
         toGateway' = toGateway \cup replies \cup Push(ImageOf({o}, revision')),
         UNCHANGED <<gateway, connection, subscribed, snapshot, told>>
  PROVE  IInv'
<1> DEFINE image == ImageOf({o}, revision')
<1>1. \A p \in Orders : image[p] <= revision'[p]
  BY ImageOfValue DEF TypeOK
<1>2. image[o] = revision'[o]
  BY ImageOfValue DEF TypeOK
<1> HIDE DEF image
<1>3. \A m \in Push(image) : subscribed /\ m.image = image /\ m.re = ExecutionReport
  BY DEF Push, Report, Reply
<1>4. subscribed => \E m \in Push(image) : m.image = image
  BY DEF Push, Report, Reply
<1>5. toGateway' = toGateway \cup replies \cup Push(image)
  BY DEF image
<1>6. \A m \in toGateway' \ toGateway :
        /\ m.re \in toExchange \/ subscribed
        /\ m.re.type \notin Downloads
        /\ \A p \in Orders : m.image[p] <= revision'[p]
  <2> SUFFICES ASSUME NEW m \in replies \cup Push(image)
               PROVE  /\ m.re \in toExchange \/ subscribed
                      /\ m.re.type \notin Downloads
                      /\ m.image = image
    BY <1>1, <1>5
  <2>1. CASE m \in replies
    BY <2>1 DEF image
  <2>2. CASE m \in Push(image)
    BY <1>3, <2>2 DEF ExecutionReport, Downloads
  <2> QED
    BY <2>1, <2>2
<1>7. \A p \in Orders : revision[p] <= revision'[p]
  BY DEF Change, IInv, TypeOK, Image
<1>8. \A p \in open' :
        \/ p \in open /\ revision'[p] = revision[p]
        \/ subscribed => \E m \in toGateway' : m.image[p] = revision'[p]
  <2> SUFFICES ASSUME NEW p \in open'
               PROVE  \/ p \in open /\ revision'[p] = revision[p]
                      \/ subscribed => \E m \in toGateway' : m.image[p] = revision'[p]
    OBVIOUS
  <2>1. CASE p = o
    BY <1>2, <1>4, <1>5, <2>1
  <2>2. CASE p # o
    BY <2>2 DEF Change, IInv, TypeOK, Image
  <2> QED
    BY <2>1, <2>2
<1> QED
  BY <1>5, <1>6, <1>7, <1>8, BookStep

LEMMA InvExchange ==
  ASSUME IInv, TypeOK', NEW r \in toExchange \cup orphans, ExchangeProcesses(r)
  PROVE  IInv'
<1>0. r \in Request
  BY DEF IInv, TypeOK
<1>1. ASSUME NEW ok \in BOOLEAN, ExchangeAnswersQuery(r, ok) PROVE IInv'
  <2> DEFINE reads == ok /\ r.type = "OPEN_ORDERS_STATUS"
             image == IF reads THEN ImageOf(open, revision) ELSE NoImage
             m == Reply(r, ok, image)
  <2>1. /\ r \in toExchange /\ toExchange' = toExchange \ {r}
        /\ toGateway' = toGateway \cup {m}
        /\ connection' = connection
        /\ UNCHANGED <<connection_status, ready, download, revision, open, told>>
    BY <1>1 DEF ExchangeAnswersQuery, gateway, oms
  <2>2. m.re = r /\ m.ok = ok /\ m.image = image
    BY DEF Reply
  <2>3. /\ snapshot' <=> snapshot \/ reads
        /\ subscribed' <=> subscribed \/ (ok /\ r.type = "USER_DATA_STREAM_SUBSCRIBE")
    BY <1>1 DEF ExchangeAnswersQuery
  <2>4. image \in Image
    BY NoImageType, ImageOfType DEF IInv, TypeOK
  <2>5. /\ \A o \in Orders : image[o] <= revision[o]
        /\ reads => \A o \in open : image[o] = revision[o]
    <3>1. revision \in Image /\ open \subseteq Orders
      BY DEF IInv, TypeOK
    <3>2. \A o \in Orders : NoImage[o] <= revision[o]
      BY <3>1 DEF NoImage, Image
    <3>3. /\ \A o \in Orders : ImageOf(open, revision)[o] <= revision[o]
          /\ \A o \in open : ImageOf(open, revision)[o] = revision[o]
      BY <3>1, ImageOfValue
    <3> QED
      BY <3>2, <3>3
  <2> HIDE DEF m
  <2>6. ReadyConsistent'
    BY <2>1 DEF IInv, ReadyConsistent, IsReady
  <2>7. NothingWithoutConnection'
    BY <2>1 DEF IInv, NothingWithoutConnection
  <2>8. DownloadFollowsSession'
    BY <2>1, <2>2, <2>3 DEF IInv, DownloadFollowsSession, AfterSubscription, AfterSnapshot
  <2>9. NothingInvented'
    <3>1. r.type \in Downloads \ {"OPEN_ORDERS_STATUS"} => image = NoImage
      OBVIOUS
    <3> HIDE DEF image
    <3> QED
      BY <2>1, <2>2, <2>5, <3>1 DEF IInv, NothingInvented
  <2>10. NoGap'
    <3> HIDE DEF image
    <3> SUFFICES ASSUME snapshot', NEW o \in open \ Unnamed
                 PROVE  told[o] = revision[o]
                          \/ \E n \in toGateway' : n.image[o] = revision[o]
      BY <2>1 DEF NoGap, InFlight
    <3>1. CASE reads
      BY <2>1, <2>2, <2>5, <3>1
    <3>2. CASE snapshot
      BY <2>1, <3>2 DEF IInv, NoGap, InFlight
    <3> QED
      BY <2>3, <3>1, <3>2
  <2> QED
    BY <2>6, <2>7, <2>8, <2>9, <2>10 DEF IInv
<1>2. ASSUME NEW o \in Orders, NEW stays, Take(r), Change(o, stays),
             r.type \in Actions,
             toGateway' = toGateway \cup Answers(r, TRUE, ImageOf({o}, revision'))
                                    \cup Push(ImageOf({o}, revision')),
             UNCHANGED <<connection, gateway, subscribed, snapshot, oms>>
      PROVE  IInv'
  <2> DEFINE replies == Answers(r, TRUE, ImageOf({o}, revision'))
  <2>1. /\ toExchange' \subseteq toExchange
        /\ told' = told
    BY <1>2 DEF Take, oms
  <2>2. replies \subseteq Message
    BY AnswersType, ImageOfType DEF IInv, TypeOK
  <2>3. \A m \in replies :
          /\ m.re \in toExchange
          /\ m.re.type \notin Downloads
          /\ m.image = ImageOf({o}, revision')
    BY <1>2 DEF Answers, Reply, Actions, Downloads
  <2> HIDE DEF replies
  <2>4. toGateway' = toGateway \cup replies \cup Push(ImageOf({o}, revision'))
    BY <1>2 DEF replies
  <2> QED
    BY <1>2, <2>1, <2>2, <2>3, <2>4, OneChange
<1>3. CASE ExchangePlaces(r)
  <2>1. r.type \in Actions /\ r.order \in Orders
    BY <1>0, <1>3, ActionOrder DEF ExchangePlaces, IsAction, Actions
  <2> QED
    BY <1>2, <1>3, <2>1 DEF ExchangePlaces
<1>4. CASE ExchangeAmends(r)
  <2>1. r.type \in Actions /\ r.order \in Orders
    BY <1>0, <1>4, ActionOrder DEF ExchangeAmends, IsAction, Actions
  <2> QED
    BY <1>2, <1>4, <2>1 DEF ExchangeAmends
<1>5. CASE ExchangeCancels(r)
  <2>1. r.type \in Actions /\ r.order \in Orders
    BY <1>0, <1>5, ActionOrder DEF ExchangeCancels, IsAction, Actions
  <2> QED
    BY <1>2, <1>5, <2>1 DEF ExchangeCancels
<1>6. CASE ExchangeRejects(r)
  <2>1. /\ toExchange' \subseteq toExchange
        /\ UNCHANGED <<gateway, connection, subscribed, snapshot, told, revision, open>>
    BY <1>6 DEF ExchangeRejects, Take, exchange, oms
  <2>2. toGateway \subseteq toGateway'
    BY <1>6 DEF ExchangeRejects
  <2>3. \A m \in toGateway' \ toGateway :
          m.re = r /\ r \in toExchange /\ m.image = NoImage
    BY <1>6 DEF ExchangeRejects, Answers, Reply
  <2>4. r.type \notin Downloads
    BY <1>6 DEF ExchangeRejects, IsAction, Actions, Downloads
  <2>5. \A o \in Orders : NoImage[o] <= revision'[o] /\ revision[o] <= revision'[o]
    BY <2>1 DEF NoImage, IInv, TypeOK, Image
  <2> QED
    BY <2>1, <2>2, <2>3, <2>4, <2>5, BookStep
<1>7. CASE ExchangeCancelsAll(r)
  <2> DEFINE hit == {o \in open : Symbol[o] = r.symbol}
             image == ImageOf(hit, revision')
  <2>1. /\ toExchange' \subseteq toExchange
        /\ UNCHANGED <<gateway, connection, subscribed, snapshot, told>>
        /\ r.type \notin Downloads
        /\ open' = open \ hit
    BY <1>7 DEF ExchangeCancelsAll, Take, oms, Downloads
  <2>2. \A o \in Orders : image[o] <= revision'[o]
    BY ImageOfValue DEF TypeOK
  <2>3. /\ \A o \in Orders : revision[o] <= revision'[o]
        /\ \A o \in open' : revision'[o] = revision[o]
    BY <1>7, <2>1 DEF ExchangeCancelsAll, IInv, TypeOK, Image
  <2> HIDE DEF image
  <2>4. toGateway' = toGateway \cup Answers(r, hit # {}, image)
                       \cup (IF hit # {} THEN Push(image) ELSE {})
    BY <1>7 DEF ExchangeCancelsAll, image
  <2>5. \A m \in toGateway' \ toGateway :
          /\ m.image = image
          /\ \/ m.re = r /\ r \in toExchange
             \/ m.re = ExecutionReport /\ subscribed
    BY <2>4 DEF Answers, Push, Report, Reply
  <2>6. ExecutionReport.type \notin Downloads
    BY DEF ExecutionReport, Downloads
  <2>7. \A m \in toGateway' \ toGateway :
          /\ m.re \in toExchange \/ subscribed
          /\ m.re.type \notin Downloads
          /\ \A o \in Orders : m.image[o] <= revision'[o]
    BY <2>1, <2>2, <2>5, <2>6
  <2>8. toGateway \subseteq toGateway'
    BY <2>4
  <2> QED
    BY <2>1, <2>3, <2>7, <2>8, BookStep
<1> QED
  BY <1>1, <1>3, <1>4, <1>5, <1>6, <1>7 DEF ExchangeProcesses

LEMMA InvMarket == IInv /\ TypeOK' /\ Market => IInv'
<1> SUFFICES ASSUME IInv, TypeOK', Market PROVE IInv'
  OBVIOUS
<1>1. ASSUME NEW o \in Orders, NEW stays, Change(o, stays),
             toGateway' = toGateway \cup Push(ImageOf({o}, revision')),
             UNCHANGED <<gateway, connection, toExchange, subscribed, snapshot, told>>
      PROVE  IInv'
  <2> DEFINE replies == {}
  <2>1. /\ replies \subseteq Message
        /\ toExchange' \subseteq toExchange
        /\ toGateway' = toGateway \cup replies \cup Push(ImageOf({o}, revision'))
        /\ \A m \in replies : /\ m.re \in toExchange
                              /\ m.re.type \notin Downloads
                              /\ m.image = ImageOf({o}, revision')
    BY <1>1
  <2> HIDE DEF replies
  <2> QED
    BY <1>1, <2>1, OneChange
<1>2. ASSUME NEW o \in Foreign, ForeignOrder(o) PROVE IInv'
  BY <1>1, <1>2 DEF ForeignOrder, Orders, oms
<1>3. ASSUME NEW o \in Orders, NEW stays \in BOOLEAN, Fill(o, stays) PROVE IInv'
  BY <1>1, <1>3 DEF Fill, oms
<1> QED
  BY <1>2, <1>3 DEF Market

\* An image that leaves the wire is known to the dispatcher afterwards, or the
\* part of it about orders with a client_order_id.
LEMMA Delivery ==
  ASSUME IInv, TypeOK', NEW m \in toGateway, NEW image \in {m.image, Named(m.image)},
         toGateway' = toGateway \ {m},
         UNCHANGED <<revision, open, snapshot>>,
         \/ Publish(image)
         \/ m.image = NoImage /\ UNCHANGED told
  PROVE  NothingInvented' /\ NoGap'
<1>0. /\ m.image \in Image /\ image \in Image
      /\ \A o \in Orders : image[o] <= m.image[o]
      /\ \A o \in Orders \ Unnamed : image[o] = m.image[o]
  <2>1. m.image \in Image
    BY DEF IInv, TypeOK, Message
  <2>2. \A o \in Orders : m.image[o] <= m.image[o]
    BY <2>1 DEF Image
  <2> QED
    BY <2>1, <2>2, NamedImage
<1>1. /\ image \in Image /\ revision \in Image /\ told \in Image
      /\ told' \in Image /\ open \subseteq Orders
  BY <1>0 DEF IInv, TypeOK
<1>2. \A o \in Orders : image[o] <= revision[o] /\ told[o] <= revision[o]
  <2>1. \A o \in Orders : m.image[o] <= revision[o] /\ told[o] <= revision[o]
    BY DEF IInv, NothingInvented
  <2>2. \A o \in Orders : image[o] \in Nat /\ m.image[o] \in Nat /\ revision[o] \in Nat
    BY <1>0, <1>1 DEF Image
  <2> QED
    BY <1>0, <2>1, <2>2
<1>3. \A o \in Orders :
        told'[o] = told[o] \/ (told'[o] = image[o] /\ image[o] > told[o])
  BY <1>1 DEF Publish, Image
<1>4. \A o \in Orders : told[o] <= told'[o] /\ image[o] <= told'[o]
  <2>1. CASE Publish(image)
    BY <1>1, <2>1 DEF Publish, Image
  <2>2. CASE m.image = NoImage /\ UNCHANGED told
    BY <1>0, <1>1, <2>2 DEF NoImage, Image
  <2> QED
    BY <2>1, <2>2
<1>5. NothingInvented'
  BY <1>2, <1>3 DEF IInv, NothingInvented
<1>6. NoGap'
  <2> SUFFICES ASSUME snapshot, NEW o \in open \ Unnamed
               PROVE  told'[o] = revision[o]
                        \/ \E n \in toGateway' : n.image[o] = revision[o]
    BY DEF NoGap, InFlight
  <2>1. o \in Orders /\ image[o] = m.image[o]
    BY <1>0, <1>1
  <2>2. told[o] \in Nat /\ told'[o] \in Nat /\ revision[o] \in Nat /\ image[o] \in Nat
    BY <1>1, <2>1 DEF Image
  <2>3. told'[o] <= revision[o]
    BY <1>2, <1>3, <2>1
  <2>4. CASE told[o] = revision[o]
    BY <1>4, <2>1, <2>2, <2>3, <2>4
  <2>5. CASE m.image[o] = revision[o]
    BY <1>4, <2>1, <2>2, <2>3, <2>5
  <2>6. CASE \E n \in toGateway \ {m} : n.image[o] = revision[o]
    BY <2>6
  <2>7. told[o] = revision[o] \/ \E n \in toGateway : n.image[o] = revision[o]
    BY DEF IInv, NoGap, InFlight
  <2> QED
    BY <2>4, <2>5, <2>6, <2>7
<1> QED
  BY <1>5, <1>6

\* The answer to a download request, be it current or late: the next state is
\* entered, the same one again, or nothing happens.
LEMMA DownloadStep ==
  ASSUME IInv, TypeOK', NEW m \in toGateway, NEW state \in Downloads,
         m.re.type = state, CheckOrRetry(m.ok, state),
         toGateway' = toGateway \ {m},
         UNCHANGED <<connection, subscribed, snapshot>>
  PROVE  ReadyConsistent' /\ NothingWithoutConnection' /\ DownloadFollowsSession'
<1>1. connection = "ready" /\ connection' = "ready"
  BY DEF IInv, NothingWithoutConnection
<1>2. NothingWithoutConnection'
  BY <1>1 DEF NothingWithoutConnection
<1>3. CASE Stay
  <2>1. ReadyConsistent'
    BY <1>3 DEF Stay, IInv, ReadyConsistent, IsReady
  <2>2. DownloadFollowsSession'
    BY <1>3 DEF Stay, IInv, DownloadFollowsSession
  <2> QED
    BY <1>2, <2>1, <2>2
\* A state that is entered issues queries of its own type only.
<1>4. ASSUME NEW next \in Downloads \cup {"DONE"}, Enter(next),
             download \notin {"UNDEFINED", "DONE"},
             next \in AfterSubscription => subscribed,
             next \in AfterSnapshot => snapshot
      PROVE  ReadyConsistent' /\ DownloadFollowsSession'
  <2>1. \A r \in Requests(next, sequence + 1) : r.type = next /\ next \in Downloads
    BY <1>4 DEF Requests, Query, TradesQuery
  <2>2. /\ download' = next /\ connection_status' = StatusIn(next)
        /\ toExchange' = toExchange \cup Requests(next, sequence + 1)
    BY <1>4 DEF Enter
  <2>3. ready' <=> next = "DONE"
    BY <1>4 DEF Enter, IInv, ReadyConsistent
  <2>4. connection_status' = "READY" <=> next = "DONE"
    BY <2>2 DEF StatusIn
  <2>5. \A r \in toExchange : IsQuery(r)
    BY <1>4 DEF IInv, ReadyConsistent
  <2>6. ReadyConsistent'
    BY <1>1, <1>4, <2>1, <2>2, <2>3, <2>4, <2>5
       DEF ReadyConsistent, IsReady, IsQuery, Downloads
  <2>7. DownloadFollowsSession'
    BY <1>4, <2>1, <2>2 DEF IInv, DownloadFollowsSession
  <2> QED
    BY <2>6, <2>7
<1>5. CASE ~ m.ok /\ Downloading /\ Enter(state)
  <2>1. /\ state \in AfterSubscription => subscribed
        /\ state \in AfterSnapshot => snapshot
    BY DEF IInv, DownloadFollowsSession
  <2> QED
    BY <1>2, <1>4, <1>5, <2>1 DEF Downloading
<1>6. CASE m.ok /\ download = state /\ Enter(Following(state))
  <2>1. /\ Following(state) \in Downloads \cup {"DONE"}
        /\ download \notin {"UNDEFINED", "DONE"}
    BY <1>6, FollowingType DEF Downloads
  <2>2. /\ Following(state) \in AfterSubscription =>
             state \in AfterSubscription \cup {"USER_DATA_STREAM_SUBSCRIBE"}
        /\ Following(state) \in AfterSnapshot =>
             state \in AfterSnapshot \cup {"OPEN_ORDERS_STATUS"}
    BY DEF Following, Downloads, AfterSubscription, AfterSnapshot
  <2>3. /\ Following(state) \in AfterSubscription => subscribed
        /\ Following(state) \in AfterSnapshot => snapshot
    BY <1>6, <2>2 DEF IInv, DownloadFollowsSession
  <2> QED
    BY <1>2, <1>4, <1>6, <2>1, <2>3
<1> QED
  BY <1>3, <1>5, <1>6 DEF CheckOrRetry, Check, Retry

\* A message that does not touch the download.
LEMMA UpdateStep ==
  ASSUME IInv, TypeOK', NEW m \in toGateway,
         toGateway' = toGateway \ {m},
         UNCHANGED <<gateway, connection, toExchange, subscribed, snapshot>>
  PROVE  ReadyConsistent' /\ NothingWithoutConnection' /\ DownloadFollowsSession'
<1>1. ReadyConsistent'
  BY DEF IInv, ReadyConsistent, IsReady, gateway
<1>2. NothingWithoutConnection'
  BY DEF IInv, NothingWithoutConnection
<1>3. DownloadFollowsSession'
  BY DEF IInv, DownloadFollowsSession, gateway
<1> QED
  BY <1>1, <1>2, <1>3

LEMMA InvHandle ==
  ASSUME IInv, TypeOK', NEW m \in toGateway, Handle(m)
  PROVE  IInv'
<1>1. ASSUME NEW state \in Downloads \ {"OPEN_ORDERS_STATUS"}, m.re.type = state
      PROVE  m.image = NoImage
  BY <1>1 DEF IInv, NothingInvented
<1>2. ASSUME NEW state \in Downloads \ {"OPEN_ORDERS_STATUS"},
             OnDownloadReply(m, state)
      PROVE  IInv'
  <2>1. /\ m.re.type = state /\ toGateway' = toGateway \ {m}
        /\ CheckOrRetry(m.ok, state)
        /\ UNCHANGED <<connection, subscribed, snapshot, revision, open, told>>
    BY <1>2 DEF OnDownloadReply, Receive, exchange, oms
  <2>2. m.image = NoImage
    BY <1>1, <2>1
  <2> QED
    BY <2>1, <2>2, Delivery, DownloadStep DEF IInv
<1>3. CASE OnOpenOrders(m)
  <2>1. /\ m.re.type = "OPEN_ORDERS_STATUS" /\ toGateway' = toGateway \ {m}
        /\ CheckOrRetry(m.ok, "OPEN_ORDERS_STATUS")
        /\ Publish(Named(m.image))
        /\ UNCHANGED <<connection, subscribed, snapshot, revision, open>>
    BY <1>3 DEF OnOpenOrders, Receive, exchange
  <2>2. "OPEN_ORDERS_STATUS" \in Downloads
    BY DEF Downloads
  <2> QED
    BY <2>1, <2>2, Delivery, DownloadStep DEF IInv
<1>4. CASE OnTrades(m)
  <2>1. /\ m.re.type = "MY_TRADES" /\ toGateway' = toGateway \ {m}
        /\ CheckOrRetry(m.ok, "MY_TRADES")
        /\ UNCHANGED <<connection, subscribed, snapshot, revision, open, told>>
    BY <1>4 DEF OnTrades, Receive, exchange
  <2>2. "MY_TRADES" \in Downloads \ {"OPEN_ORDERS_STATUS"}
    BY DEF Downloads
  <2>3. m.image = NoImage
    BY <1>1, <2>1, <2>2
  <2> QED
    BY <2>1, <2>2, <2>3, Delivery, DownloadStep DEF IInv
<1>5. ASSUME NEW image \in {m.image, Named(m.image)},
             toGateway' = toGateway \ {m}, Publish(image),
             UNCHANGED <<gateway, connection, toExchange, exchange>>
      PROVE  IInv'
  <2>1. UNCHANGED <<revision, open, subscribed, snapshot>>
    BY <1>5 DEF exchange
  <2> QED
    BY <1>5, <2>1, Delivery, UpdateStep DEF IInv
<1>6. ASSUME NEW type, NEW good, NEW bad, Respond(m, type, good, bad) PROVE IInv'
  BY <1>5, <1>6 DEF Respond, Receive
<1>7. ASSUME NEW type, NEW image \in {m.image, Named(m.image)}, OnUpdates(m, type, image)
      PROVE  IInv'
  BY <1>5, <1>7 DEF OnUpdates, Receive
<1> QED
  BY <1>2, <1>3, <1>4, <1>6, <1>7
     DEF Handle, OnSessionLogon, OnUserDataStreamSubscribe, OnAccount,
         OnOrderPlace, OnOrderAmendKeepPriority, OnCancelOrder,
         OnCancelOpenOrders, OnExecutionReport, Downloads

LEMMA InvStep == IInv /\ [Next]_vars => IInv'
<1> SUFFICES ASSUME IInv, [Next]_vars PROVE IInv'
  OBVIOUS
<1>1. TypeOK'
  BY TypeStep DEF IInv
<1>2. CASE UNCHANGED vars
  <2> USE <1>2 DEF vars, gateway, transport, exchange, oms
  <2>1. ReadyConsistent' /\ NothingWithoutConnection'
    BY DEF IInv, ReadyConsistent, IsReady, NothingWithoutConnection
  <2>2. DownloadFollowsSession'
    BY DEF IInv, DownloadFollowsSession
  <2>3. NothingInvented' /\ NoGap'
    BY DEF IInv, NothingInvented, NoGap, InFlight
  <2> QED
    BY <1>1, <2>1, <2>2, <2>3 DEF IInv
<1> QED
  BY <1>1, <1>2, InvTransport, InvDispatcher, InvExchange, InvMarket, InvHandle
     DEF Next

LEMMA Invariance == Spec => []IInv
BY InvInit, InvStep, PTL DEF Spec

-----------------------------------------------------------------------------
(* What follows from it *)

\* ready_, the published status and the state of the download agree in every
\* state: the assertion in download() never fires.
THEOREM ReadyIsConsistent == Spec => []ReadyConsistent
<1>1. IInv => ReadyConsistent
  BY DEF IInv
<1> QED
  BY <1>1, Invariance, PTL

\* A session that is READY has missed nothing about any open order: subscribing
\* before the open orders are read is enough, whatever is reordered, refused or
\* lost, and whatever earlier sessions left on their way to the exchange.
THEOREM NoGapBetweenSnapshotAndStream == Spec => []NoGapWhenReady
<1>1. IInv => NoGapWhenReady
  <2>1. ASSUME IInv, IsReady PROVE snapshot
    BY <2>1 DEF IInv, ReadyConsistent, DownloadFollowsSession, AfterSnapshot
  <2> QED
    BY <2>1 DEF IInv, NoGap, NoGapWhenReady
<1> QED
  BY <1>1, Invariance, PTL

-----------------------------------------------------------------------------
(* WebSocket implements StreamLifecycle *)

\* The status tells whether the connection is usable.
StatusFollowsConnection ==
  connection = "ready" <=> connection_status \in {"LOGIN_SENT", "DOWNLOADING", "READY"}

\* Everything but the life cycle of the connection either leaves the status and
\* the download alone or is a step of the download.
LEMMA DownloadSteps ==
  ASSUME IInv, [Next]_vars, ~ Transport
  PROVE  /\ connection' = connection
         /\ \/ UNCHANGED <<connection_status, download>>
            \/ \E state \in Downloads \cup {"DONE"} :
                 /\ connection = "ready"
                 /\ download # "DONE"
                 /\ download' = state
                 /\ connection_status' = StatusIn(state)
<1>1. ASSUME NEW m \in toGateway, NEW state \in Downloads, m.re.type = state,
             CheckOrRetry(m.ok, state)
      PROVE  \/ UNCHANGED <<connection_status, download>>
             \/ \E next \in Downloads \cup {"DONE"} :
                  /\ connection = "ready"
                  /\ download # "DONE"
                  /\ download' = next
                  /\ connection_status' = StatusIn(next)
  <2>1. connection = "ready"
    BY DEF IInv, NothingWithoutConnection
  <2>2. CASE Stay
    BY <2>2 DEF Stay
  <2>3. CASE Downloading /\ Enter(state)
    BY <2>1, <2>3 DEF Downloading, Enter
  <2>4. CASE download = state /\ Enter(Following(state))
    BY <2>1, <2>4, FollowingType DEF Enter, Downloads
  <2> QED
    BY <1>1, <2>2, <2>3, <2>4 DEF CheckOrRetry, Check, Retry
<1>2. ASSUME NEW m \in toGateway, Handle(m)
      PROVE  /\ connection' = connection
             /\ \/ UNCHANGED <<connection_status, download>>
                \/ \E next \in Downloads \cup {"DONE"} :
                     /\ connection = "ready"
                     /\ download # "DONE"
                     /\ download' = next
                     /\ connection_status' = StatusIn(next)
  <2>1. /\ "SESSION_LOGON" \in Downloads /\ "USER_DATA_STREAM_SUBSCRIBE" \in Downloads
        /\ "ACCOUNT_STATUS" \in Downloads /\ "OPEN_ORDERS_STATUS" \in Downloads
        /\ "MY_TRADES" \in Downloads
    BY DEF Downloads
  <2>2. CASE \/ OnSessionLogon(m) \/ OnUserDataStreamSubscribe(m) \/ OnAccount(m)
             \/ OnOpenOrders(m) \/ OnTrades(m)
    <3>1. CASE OnSessionLogon(m)
      BY <1>1, <2>1, <3>1 DEF OnSessionLogon, OnDownloadReply, Receive
    <3>2. CASE OnUserDataStreamSubscribe(m)
      BY <1>1, <2>1, <3>2 DEF OnUserDataStreamSubscribe, OnDownloadReply, Receive
    <3>3. CASE OnAccount(m)
      BY <1>1, <2>1, <3>3 DEF OnAccount, OnDownloadReply, Receive
    <3>4. CASE OnOpenOrders(m)
      BY <1>1, <2>1, <3>4 DEF OnOpenOrders, Receive
    <3>5. CASE OnTrades(m)
      BY <1>1, <2>1, <3>5 DEF OnTrades, Receive
    <3> QED
      BY <2>2, <3>1, <3>2, <3>3, <3>4, <3>5
  <2>3. CASE \/ OnOrderPlace(m) \/ OnOrderAmendKeepPriority(m) \/ OnCancelOrder(m)
             \/ OnCancelOpenOrders(m) \/ OnExecutionReport(m)
    BY <2>3 DEF OnOrderPlace, OnOrderAmendKeepPriority, OnCancelOrder,
                OnCancelOpenOrders, OnExecutionReport, Respond, OnUpdates, gateway
  <2> QED
    BY <1>2, <2>2, <2>3 DEF Handle
<1>3. CASE \/ UNCHANGED vars \/ Dispatcher \/ Market
           \/ \E r \in toExchange \cup orphans : ExchangeProcesses(r)
  BY <1>3 DEF vars, gateway, transport, Dispatcher, CreateOrder, ModifyOrder, CancelOrder,
              CancelAllOrders, Market, ForeignOrder, Fill, ExchangeProcesses,
              ExchangeAnswersQuery, ExchangePlaces, ExchangeAmends, ExchangeCancels,
              ExchangeRejects, ExchangeCancelsAll
<1> QED
  BY <1>2, <1>3 DEF Next

LEMMA StatusStep ==
  IInv /\ StatusFollowsConnection /\ [Next]_vars => StatusFollowsConnection'
<1> SUFFICES ASSUME IInv, StatusFollowsConnection, [Next]_vars
             PROVE  StatusFollowsConnection'
  OBVIOUS
<1> USE DEF StatusFollowsConnection
<1>1. CASE Transport
  BY <1>1 DEF Transport, Connected, Ready, Disconnected, EventStreamTerminated,
              LoseConnection, Reset, Enter, StatusIn, gateway
<1>2. CASE ~ Transport
  BY <1>2, DownloadSteps DEF StatusIn
<1> QED
  BY <1>1, <1>2

LEMMA StatusInvariance == Spec => []StatusFollowsConnection
<1>1. Init => StatusFollowsConnection
  BY DEF Init, StatusFollowsConnection
<1> QED
  BY <1>1, StatusStep, Invariance, PTL DEF Spec

LEMMA StreamStep ==
  IInv /\ StatusFollowsConnection /\ [Next]_vars => [Stream!Next]_(Stream!vars)
<1> SUFFICES ASSUME IInv, StatusFollowsConnection, [Next]_vars
             PROVE  Stream!Next \/ UNCHANGED Stream!vars
  OBVIOUS
<1> USE DEF StatusFollowsConnection, Stream!Next, Stream!vars
<1>1. /\ connection_status \in ConnectionStatuses
      /\ connection_status = "READY" <=> download = "DONE"
      /\ connection \in {"closed", "opened", "ready"}
  BY DEF IInv, TypeOK, ReadyConsistent, IsReady
<1>2. CASE Connected
  BY <1>2 DEF Connected, gateway
<1>3. CASE Ready
  <2>1. /\ connection = "opened" /\ connection' = "ready"
        /\ connection_status' = "LOGIN_SENT" /\ download' = "SESSION_LOGON"
    BY <1>3 DEF Ready, Enter, StatusIn
  <2> QED
    BY <1>1, <2>1 DEF Stream!LinkUp, ConnectionStatuses
<1>4. CASE Disconnected \/ EventStreamTerminated
  <2>1. /\ connection' = "closed" /\ download' = "UNDEFINED"
        /\ connection_status' \in {"UNDEFINED", "DISCONNECTED"}
    BY <1>4 DEF Disconnected, EventStreamTerminated, LoseConnection, Reset
  <2>2. CASE connection = "ready"
    BY <2>1, <2>2 DEF Stream!LinkDown
  <2>3. CASE connection # "ready"
    BY <1>1, <2>1, <2>3 DEF ConnectionStatuses
  <2> QED
    BY <2>2, <2>3
<1>5. CASE ~ Transport
  <2>1. CASE connection' = connection /\ UNCHANGED <<connection_status, download>>
    BY <2>1
  <2>2. ASSUME connection' = connection,
               NEW state \in Downloads \cup {"DONE"},
               connection = "ready", download # "DONE", download' = state,
               connection_status' = StatusIn(state)
        PROVE  Stream!Next \/ UNCHANGED Stream!vars
    <3>1. connection_status \in {"LOGIN_SENT", "DOWNLOADING"}
      BY <1>1, <2>2
    <3>2. CASE state = "DONE"
      <4>1. connection_status' = "READY" /\ download' = "DONE"
        BY <2>2, <3>2 DEF StatusIn
      <4> QED
        BY <2>2, <3>1, <4>1 DEF Stream!Complete
    <3>3. CASE state # "DONE"
      <4>1. connection_status' \in {"LOGIN_SENT", "DOWNLOADING"} /\ download' # "DONE"
        BY <2>2, <3>3 DEF StatusIn
      <4> QED
        BY <2>2, <3>1, <4>1
    <3> QED
      BY <3>2, <3>3
  <2> QED
    BY <1>5, <2>1, <2>2, DownloadSteps
<1> QED
  BY <1>2, <1>3, <1>4, <1>5 DEF Transport

\* The gateway's WebSocket is a stream: READY is only ever published on a usable
\* connection whose download is complete, and withdrawn with the connection.
THEOREM WebSocketImplementsStream == Spec => ImplementsStream
<1>1. Init => Stream!Init
  BY DEF Init, Stream!Init
<1> QED
  BY <1>1, StreamStep, Invariance, StatusInvariance, PTL
     DEF Spec, ImplementsStream, Stream!Spec

=============================================================================
