------------------------------ MODULE WebSocket ------------------------------
(***************************************************************************)
(* Order entry over Binance's WebSocket API: gateway::WebSocket.           *)
(*                                                                         *)
(* On every new connection the gateway logs on, subscribes to the user     *)
(* data stream, downloads the account, the open orders and the historical  *)
(* trades, and then declares the stream READY.  While READY it forwards    *)
(* the order actions of the order management system (the dispatcher).      *)
(* Requests and answers are correlated by an identifier echoed by the      *)
(* exchange; the gateway keeps no table of what is outstanding.            *)
(*                                                                         *)
(* The exchange and the transport are external: requests are processed in  *)
(* any order, answers and execution reports arrive in any order, and all   *)
(* that is in flight towards the gateway is lost with the connection.  A   *)
(* request on the wire when the connection is lost may still be executed.  *)
(*                                                                         *)
(* Data abstraction.  All that the exchange says about an order is its     *)
(* revision: 1 when it is accepted and one more for each fill, amendment   *)
(* or closing.  A message carries an image: the revision of each order it  *)
(* mentions, 0 for the others.                                             *)
(*                                                                         *)
(* A definition whose name ends in what is wrong with it, standing before  *)
(* the right one, is a plausible bug: it shows that a property can fail.   *)
(***************************************************************************)
EXTENDS Integers, Sequences, FiniteSets

CONSTANTS
  Own,              \* orders this gateway may create
  Foreign,          \* orders created by another client of the same account
  Unnamed,          \* those without a client_order_id
  Symbols,          \* instruments
  Symbol,           \* [Own \cup Foreign -> Symbols]
  DownloadSymbols,  \* settings.download.symbols
  LookbackFirst,    \* a non-zero lookback applies to the first trade download
  LookbackLater,    \* a non-zero lookback applies to the later ones
  MaxForeign,       \* bound: orders created by the other client
  MaxVersion,       \* bound: requests per order
  MaxRevision,      \* bound: changes of an order that leave it open
  MaxSessions,      \* bound: connections
  MaxFaults         \* bound: download requests the exchange answers by an error

Orders == Own \cup Foreign

ASSUME WebSocketAssumption ==
  /\ Own \cap Foreign = {}
  /\ Unnamed \subseteq Foreign
  /\ IsFiniteSet(Own \cup Foreign)
  /\ Symbol \in [Own \cup Foreign -> Symbols]
  /\ DownloadSymbols \subseteq Symbols
  /\ LookbackFirst \in BOOLEAN
  /\ LookbackLater \in BOOLEAN
  /\ MaxForeign \in Nat
  /\ MaxVersion \in Nat
  /\ MaxRevision \in Nat
  /\ MaxSessions \in Nat
  /\ MaxFaults \in Nat

VARIABLES
  \* the gateway
  connection_status,         \* last published status, also what ready() reads
  ready,                     \* ready_
  download,                  \* state of download_
  sequence,                  \* rounds of download requests of this session:
                             \* the part of request_id_ that tells requests apart
  open_orders_symbols,       \* open_orders_symbols_
  download_trades_is_first,  \* download_trades_is_first_
  \* the transport
  connection,                \* "closed", "opened" (Connected), "ready" (Ready)
  toExchange,                \* requests on the wire
  toGateway,                 \* answers and events on the wire
  orphans,                   \* order requests of lost connections
  sessions, faults,          \* counters of the bounds
  \* the exchange
  revision, open,            \* its orders
  subscribed,                \* this session receives execution reports
  snapshot,                  \* the open orders were read for this session
  previous,                  \* own orders requested by an earlier process
  late,                      \* accepted after the snapshot, from outside this
                             \* process
  \* the dispatcher
  asked,                     \* request types issued for an order, by version
  answers,                   \* responses it has been given
  told,                      \* latest revision it has been given
  tradesSeen                 \* symbols whose trades arrived in this session

gateway   == <<connection_status, ready, download, sequence,
               open_orders_symbols, download_trades_is_first>>
transport == <<connection, toExchange, toGateway, orphans, sessions, faults>>
exchange  == <<revision, open, subscribed, snapshot, previous, late>>
oms       == <<asked, answers, told, tradesSeen>>
vars      == <<gateway, transport, exchange, oms>>

-----------------------------------------------------------------------------
(* Requests, messages *)

Downloads == {"SESSION_LOGON", "USER_DATA_STREAM_SUBSCRIBE", "ACCOUNT_STATUS",
              "OPEN_ORDERS_STATUS", "MY_TRADES"}
States    == Downloads \cup {"UNDEFINED", "DONE"}
Actions   == {"ORDER_PLACE", "ORDER_AMEND_KEEP_PRIORITY", "ORDER_CANCEL"}

Query(state, seq)      == [type |-> state, sequence |-> seq]
TradesQuery(seq, symbol) ==
  [type |-> "MY_TRADES", sequence |-> seq, symbol |-> symbol]
ActionWithoutVersion(type, order, version) ==
  [type |-> type, order |-> order, version |-> 1]
Action(type, order, version) ==
  [type |-> type, order |-> order, version |-> version]
CancelAll(symbol)      == [type |-> "OPEN_ORDERS_CANCEL_ALL", symbol |-> symbol]
ExecutionReport        == [type |-> "EXECUTION_REPORT"]

IsQuery(r)  == r.type \in Downloads
IsAction(r) == r.type \in Actions

Image == [Orders -> Nat]
NoImage == [o \in Orders |-> 0]
ImageOf(S, rev) == [o \in Orders |-> IF o \in S THEN rev[o] ELSE 0]

Reply(r, ok, image) == [re |-> r, ok |-> ok, image |-> image]
Report(image) == Reply(ExecutionReport, TRUE, image)

Response(type, order, version, status) ==
  [type |-> type, order |-> order, version |-> version, status |-> status]

-----------------------------------------------------------------------------
(* core::Download2: the states in order, each issuing its requests *)

Downloading == download \notin {"UNDEFINED", "DONE"}

\* my_trades: one request per configured symbol, none without a lookback: the
\* state is then completed from within its own callback, as if passed over.
Lookback == IF download_trades_is_first THEN LookbackFirst ELSE LookbackLater
TradesSymbolsIgnoresFlags == IF Lookback THEN Symbols ELSE {}
TradesSymbols == IF Lookback THEN DownloadSymbols ELSE {}

FollowingSubscribesLast(state) ==
  CASE state = "SESSION_LOGON" -> "ACCOUNT_STATUS"
    [] state = "ACCOUNT_STATUS" -> "OPEN_ORDERS_STATUS"
    [] state = "OPEN_ORDERS_STATUS" -> "USER_DATA_STREAM_SUBSCRIBE"
    [] OTHER -> "DONE"

Following(state) ==
  CASE state = "SESSION_LOGON" -> "USER_DATA_STREAM_SUBSCRIBE"
    [] state = "USER_DATA_STREAM_SUBSCRIBE" -> "ACCOUNT_STATUS"
    [] state = "ACCOUNT_STATUS" -> "OPEN_ORDERS_STATUS"
    [] state = "OPEN_ORDERS_STATUS" ->
         IF TradesSymbols = {} THEN "DONE" ELSE "MY_TRADES"
    [] OTHER -> "DONE"

StatusIn(state) ==
  CASE state = "SESSION_LOGON" -> "LOGIN_SENT"
    [] state = "DONE" -> "READY"
    [] OTHER -> "DOWNLOADING"

Requests(state, seq) ==
  CASE state = "MY_TRADES" -> {TradesQuery(seq, s) : s \in TradesSymbols}
    [] state = "DONE" -> {}
    [] OTHER -> {Query(state, seq)}

\* The callback of download_ for a state: issue its requests, publish, and
\* in DONE raise ready_ (which the code asserts was down).
Enter(state) ==
  /\ download' = state
  /\ sequence' = sequence + 1
  /\ toExchange' = toExchange \cup Requests(state, sequence + 1)
  /\ connection_status' = StatusIn(state)
  /\ ready' = (ready \/ state = "DONE")

Stay == UNCHANGED <<download, sequence, toExchange, connection_status, ready>>

\* check_relaxed(state) after a good answer, retry(state) after a bad one.
Check(state) == IF download = state THEN Enter(Following(state)) ELSE Stay
Retry(state) == IF Downloading THEN Enter(state) ELSE Stay

CheckOnly(ok, state) == IF ok THEN Check(state) ELSE Stay

CheckOrRetry(ok, state) == IF ok THEN Check(state) ELSE Retry(state)

-----------------------------------------------------------------------------
(* The transport *)

Connected ==
  /\ connection = "closed"
  /\ sessions < MaxSessions
  /\ connection' = "opened"
  /\ sessions' = sessions + 1
  /\ UNCHANGED <<toExchange, toGateway, orphans, faults, gateway, exchange, oms>>

Ready ==
  /\ connection = "opened"
  /\ connection' = "ready"
  /\ Enter("SESSION_LOGON")
  /\ UNCHANGED <<open_orders_symbols, download_trades_is_first,
                 toGateway, orphans, sessions, faults, exchange, oms>>

\* The wire of a lost connection: answers and events are gone, order requests
\* may still reach the matching engine.
LoseConnection ==
  /\ connection' = "closed"
  /\ toExchange' = {}
  /\ toGateway' = {}
  /\ orphans' = orphans \cup {r \in toExchange : ~ IsQuery(r)}
  /\ subscribed' = FALSE
  /\ snapshot' = FALSE
  /\ tradesSeen' = {}
  /\ UNCHANGED <<sessions, faults, revision, open, late>>

ResetKeepsReady(status) ==
  /\ UNCHANGED ready
  /\ connection_status' = status
  /\ download' = "UNDEFINED"
  /\ sequence' = 0

ResetUnpublished(status) ==
  /\ ready' = FALSE
  /\ UNCHANGED connection_status
  /\ download' = "UNDEFINED"
  /\ sequence' = 0

Reset(status) ==
  /\ ready' = FALSE
  /\ connection_status' = status
  /\ download' = "UNDEFINED"
  /\ sequence' = 0

Disconnected ==
  /\ connection \in {"opened", "ready"}
  /\ LoseConnection
  /\ Reset("DISCONNECTED")
  /\ UNCHANGED <<open_orders_symbols, download_trades_is_first, previous,
                 asked, answers, told>>

\* The exchange ends the user data stream: log::fatal ends the process, and
\* what starts afterwards is a gateway (and a dispatcher) without memory.
EventStreamTerminated ==
  /\ connection = "ready"
  /\ subscribed
  /\ LoseConnection
  /\ Reset("UNDEFINED")
  /\ open_orders_symbols' = {}
  /\ download_trades_is_first' = TRUE
  /\ told' = NoImage
  /\ previous' = {o \in Own : asked[o] # <<>>}
  /\ UNCHANGED <<asked, answers>>

-----------------------------------------------------------------------------
(* The dispatcher asks for an order action *)

\* The identifier sent with a request carries its type, order and version.
\* A stream that is not ready throws NotReady: nothing is sent and the
\* dispatcher learns at once.
NextVersion(o) == Len(asked[o]) + 1

Ask(o, type) ==
  /\ NextVersion(o) <= MaxVersion
  /\ asked' = [asked EXCEPT ![o] = Append(@, type)]

Thrown(o, type) ==
  answers' = answers \cup {Response(type, o, NextVersion(o), "THROWN")}

Send(request) == toExchange' = toExchange \cup {request}

IsReady == connection_status = "READY"

CreateOrder(o) ==
  /\ asked[o] = <<>>
  /\ Ask(o, "ORDER_PLACE")
  /\ IF IsReady
     THEN /\ open_orders_symbols' = open_orders_symbols \cup {Symbol[o]}
          /\ Send(Action("ORDER_PLACE", o, 1))
          /\ UNCHANGED answers
     ELSE /\ Thrown(o, "ORDER_PLACE")
          /\ UNCHANGED <<open_orders_symbols, toExchange>>
  /\ UNCHANGED <<connection_status, ready, download, sequence,
                 download_trades_is_first, connection, toGateway, orphans,
                 sessions, faults, exchange, told, tradesSeen>>

\* Only the quantity may be amended: a price makes the encoder throw Rejected.
ModifyOrder(o) ==
  /\ asked[o] # <<>>
  /\ Ask(o, "ORDER_AMEND_KEEP_PRIORITY")
  /\ \E price \in BOOLEAN :
       IF IsReady /\ ~ price
       THEN /\ Send(Action("ORDER_AMEND_KEEP_PRIORITY", o, NextVersion(o)))
            /\ UNCHANGED answers
       ELSE /\ Thrown(o, "ORDER_AMEND_KEEP_PRIORITY")
            /\ UNCHANGED toExchange
  /\ UNCHANGED <<gateway, connection, toGateway, orphans, sessions, faults,
                 exchange, told, tradesSeen>>

CancelOrder(o) ==
  /\ asked[o] # <<>>
  /\ Ask(o, "ORDER_CANCEL")
  /\ IF IsReady
     THEN /\ Send(Action("ORDER_CANCEL", o, NextVersion(o)))
          /\ UNCHANGED answers
     ELSE /\ Thrown(o, "ORDER_CANCEL")
          /\ UNCHANGED toExchange
  /\ UNCHANGED <<gateway, connection, toGateway, orphans, sessions, faults,
                 exchange, told, tradesSeen>>

\* CancelAllOrders, for the given symbols: one instrument, or all of them when
\* the client names none.  One request per symbol the gateway knows to have
\* had orders; the FORWARDED acknowledgements are left out.
CancelAllOrders(symbols) ==
  /\ IsReady
  /\ toExchange' = toExchange \cup
                     {CancelAll(s) : s \in open_orders_symbols \cap symbols}
  /\ UNCHANGED <<gateway, connection, toGateway, orphans, sessions, faults,
                 exchange, oms>>

-----------------------------------------------------------------------------
(* The exchange (external) *)

\* Changes of the book are pushed to a subscribed session.
Push(image) == IF subscribed THEN {Report(image)} ELSE {}

Answers(r, ok, image) ==
  IF r \in toExchange THEN {Reply(r, ok, image)} ELSE {}

\* A request of this session leaves the wire; one of a lost connection is
\* executed without an answer.
Take(r) ==
  /\ r \in toExchange \cup orphans
  /\ toExchange' = toExchange \ {r}
  /\ orphans' = IF r \in toExchange THEN orphans ELSE orphans \ {r}

Change(o, stays) ==
  /\ revision' = [revision EXCEPT ![o] = @ + 1]
  /\ open' = IF stays THEN open \cup {o} ELSE open \ {o}

ExchangeAnswersQuery(r, ok) ==
  /\ r \in toExchange
  /\ IsQuery(r)
  /\ ok \/ faults < MaxFaults
  /\ toExchange' = toExchange \ {r}
  /\ faults' = IF ok THEN faults ELSE faults + 1
  /\ LET reads == ok /\ r.type = "OPEN_ORDERS_STATUS"
         image == IF reads THEN ImageOf(open, revision) ELSE NoImage
     IN  /\ toGateway' = toGateway \cup {Reply(r, ok, image)}
         /\ snapshot' = (snapshot \/ reads)
         /\ late' = IF reads THEN {} ELSE late
  /\ subscribed' = (subscribed \/ (ok /\ r.type = "USER_DATA_STREAM_SUBSCRIBE"))
  /\ UNCHANGED <<connection, orphans, sessions, gateway, revision, open, previous, oms>>

ExchangePlaces(r) ==
  /\ r.type = "ORDER_PLACE"
  /\ revision[r.order] = 0
  /\ Take(r)
  /\ Change(r.order, TRUE)
  /\ late' = IF snapshot /\ r.order \in previous THEN late \cup {r.order} ELSE late
  /\ LET image == ImageOf({r.order}, revision')
     IN  toGateway' = toGateway \cup Answers(r, TRUE, image) \cup Push(image)
  /\ UNCHANGED <<connection, sessions, faults, gateway, subscribed, snapshot,
                 previous, oms>>

ExchangeAmends(r) ==
  /\ r.type = "ORDER_AMEND_KEEP_PRIORITY"
  /\ r.order \in open
  /\ revision[r.order] < MaxRevision
  /\ Take(r)
  /\ Change(r.order, TRUE)
  /\ LET image == ImageOf({r.order}, revision')
     IN  toGateway' = toGateway \cup Answers(r, TRUE, image) \cup Push(image)
  /\ UNCHANGED <<connection, sessions, faults, gateway, subscribed, snapshot,
                 previous, late, oms>>

ExchangeCancels(r) ==
  /\ r.type = "ORDER_CANCEL"
  /\ r.order \in open
  /\ Take(r)
  /\ Change(r.order, FALSE)
  /\ LET image == ImageOf({r.order}, revision')
     IN  toGateway' = toGateway \cup Answers(r, TRUE, image) \cup Push(image)
  /\ UNCHANGED <<connection, sessions, faults, gateway, subscribed, snapshot,
                 previous, late, oms>>

\* Any order action may be refused; refusals are not pushed.
ExchangeRejects(r) ==
  /\ IsAction(r)
  /\ Take(r)
  /\ toGateway' = toGateway \cup Answers(r, FALSE, NoImage)
  /\ UNCHANGED <<connection, sessions, faults, gateway, exchange, oms>>

ExchangeCancelsAll(r) ==
  /\ r.type = "OPEN_ORDERS_CANCEL_ALL"
  /\ Take(r)
  /\ LET hit == {o \in open : Symbol[o] = r.symbol}
     IN  /\ revision' = [o \in Orders |-> IF o \in hit THEN revision[o] + 1
                                                       ELSE revision[o]]
         /\ open' = open \ hit
         /\ LET image == ImageOf(hit, revision')
            IN  toGateway' = toGateway \cup Answers(r, hit # {}, image)
                               \cup (IF hit # {} THEN Push(image) ELSE {})
  /\ UNCHANGED <<connection, sessions, faults, gateway, subscribed, snapshot,
                 previous, late, oms>>

\* Another client places an order; the market fills orders.
ForeignOrder(o) ==
  /\ revision[o] = 0
  /\ Cardinality({p \in Foreign : revision[p] # 0}) < MaxForeign
  /\ Change(o, TRUE)
  /\ late' = IF snapshot THEN late \cup {o} ELSE late
  /\ toGateway' = toGateway \cup Push(ImageOf({o}, revision'))
  /\ UNCHANGED <<connection, toExchange, orphans, sessions, faults, gateway,
                 subscribed, snapshot, previous, oms>>

Fill(o, stays) ==
  /\ o \in open
  /\ stays => revision[o] < MaxRevision
  /\ Change(o, stays)
  /\ toGateway' = toGateway \cup Push(ImageOf({o}, revision'))
  /\ UNCHANGED <<connection, toExchange, orphans, sessions, faults, gateway,
                 subscribed, snapshot, previous, late, oms>>

-----------------------------------------------------------------------------
(* The gateway receives an answer or an event *)

Receive(m, type) ==
  /\ m \in toGateway
  /\ m.re.type = type
  /\ toGateway' = toGateway \ {m}

\* Order updates published to the dispatcher.
Publish(image) ==
  told' = [o \in Orders |-> IF image[o] > told[o] THEN image[o] ELSE told[o]]

OnDownloadReply(m, state) ==
  /\ Receive(m, state)
  /\ CheckOrRetry(m.ok, state)
  /\ UNCHANGED <<open_orders_symbols, download_trades_is_first, connection,
                 orphans, sessions, faults, exchange, oms>>

OnSessionLogon(m) == OnDownloadReply(m, "SESSION_LOGON")

OnUserDataStreamSubscribe(m) == OnDownloadReply(m, "USER_DATA_STREAM_SUBSCRIBE")

OnAccount(m) == OnDownloadReply(m, "ACCOUNT_STATUS")

Mentioned(image) == {o \in Orders : image[o] # 0}

LearnNothing(image) == UNCHANGED open_orders_symbols
Learn(image) ==
  open_orders_symbols' =
    open_orders_symbols \cup {Symbol[o] : o \in Mentioned(image)}

\* The part of an image about orders with a client_order_id: the answers that
\* list orders pass over the others, execution reports do not.
Named(image) == [o \in Orders |-> IF o \in Unnamed THEN 0 ELSE image[o]]

OnOpenOrders(m) ==
  /\ Receive(m, "OPEN_ORDERS_STATUS")
  /\ Learn(Named(m.image))
  /\ Publish(Named(m.image))
  /\ CheckOrRetry(m.ok, "OPEN_ORDERS_STATUS")
  /\ UNCHANGED <<download_trades_is_first, connection, orphans, sessions,
                 faults, exchange, asked, answers, tradesSeen>>

OnTrades(m) ==
  /\ Receive(m, "MY_TRADES")
  /\ download_trades_is_first' = (download_trades_is_first /\ ~ m.ok)
  /\ tradesSeen' = IF m.ok THEN tradesSeen \cup {m.re.symbol} ELSE tradesSeen
  /\ CheckOrRetry(m.ok, "MY_TRADES")
  /\ UNCHANGED <<open_orders_symbols, connection, orphans, sessions, faults,
                 exchange, asked, answers, told>>

\* The answer to an order action: a response under the given request type, for
\* the order and version echoed by the exchange, and an order update if good.
RespondIfGood(m, type, good, bad) ==
  /\ Receive(m, type)
  /\ answers' = IF m.ok
                THEN answers \cup {Response(good, m.re.order, m.re.version, "ACCEPTED")}
                ELSE answers
  /\ Publish(m.image)
  /\ UNCHANGED <<gateway, connection, toExchange, orphans, sessions, faults,
                 exchange, asked, tradesSeen>>

Respond(m, type, good, bad) ==
  /\ Receive(m, type)
  /\ answers' = answers \cup
       {Response(IF m.ok THEN good ELSE bad, m.re.order, m.re.version,
                 IF m.ok THEN "ACCEPTED" ELSE "REJECTED")}
  /\ Publish(m.image)
  /\ UNCHANGED <<gateway, connection, toExchange, orphans, sessions, faults,
                 exchange, asked, tradesSeen>>

OnOrderPlace(m) == Respond(m, "ORDER_PLACE", "ORDER_PLACE", "ORDER_PLACE")

OnOrderAmendCopiesBoth(m) ==
  Respond(m, "ORDER_AMEND_KEEP_PRIORITY", "ORDER_CANCEL", "ORDER_CANCEL")

\* A refused amendment is reported as a refused cancellation.
OnOrderAmendKeepPriority(m) ==
  Respond(m, "ORDER_AMEND_KEEP_PRIORITY",
             "ORDER_AMEND_KEEP_PRIORITY", "ORDER_CANCEL")

OnCancelOrder(m) == Respond(m, "ORDER_CANCEL", "ORDER_CANCEL", "ORDER_CANCEL")

OnUpdates(m, type, image) ==
  /\ Receive(m, type)
  /\ Publish(image)
  /\ UNCHANGED <<gateway, connection, toExchange, orphans, sessions, faults,
                 exchange, asked, answers, tradesSeen>>

OnCancelOpenOrders(m) == OnUpdates(m, "OPEN_ORDERS_CANCEL_ALL", Named(m.image))

OnExecutionReport(m) == OnUpdates(m, "EXECUTION_REPORT", m.image)

-----------------------------------------------------------------------------
Init ==
  /\ connection_status = "UNDEFINED"
  /\ ready = FALSE
  /\ download = "UNDEFINED"
  /\ sequence = 0
  /\ open_orders_symbols = {}
  /\ download_trades_is_first = TRUE
  /\ connection = "closed"
  /\ toExchange = {}
  /\ toGateway = {}
  /\ orphans = {}
  /\ sessions = 0
  /\ faults = 0
  /\ revision = NoImage
  /\ open = {}
  /\ subscribed = FALSE
  /\ snapshot = FALSE
  /\ previous = {}
  /\ late = {}
  /\ asked = [o \in Own |-> <<>>]
  /\ answers = {}
  /\ told = NoImage
  /\ tradesSeen = {}

Transport == Connected \/ Ready \/ Disconnected \/ EventStreamTerminated

Dispatcher ==
  \/ \E o \in Own : CreateOrder(o) \/ ModifyOrder(o) \/ CancelOrder(o)
  \/ \E s \in Symbols : CancelAllOrders({s})
  \/ CancelAllOrders(Symbols)

ExchangeProcesses(r) ==
  \/ \E ok \in BOOLEAN : ExchangeAnswersQuery(r, ok)
  \/ ExchangePlaces(r)
  \/ ExchangeAmends(r)
  \/ ExchangeCancels(r)
  \/ ExchangeRejects(r)
  \/ ExchangeCancelsAll(r)

Market ==
  \/ \E o \in Foreign : ForeignOrder(o)
  \/ \E o \in Orders, stays \in BOOLEAN : Fill(o, stays)

Handle(m) ==
  \/ OnSessionLogon(m)
  \/ OnUserDataStreamSubscribe(m)
  \/ OnAccount(m)
  \/ OnOpenOrders(m)
  \/ OnTrades(m)
  \/ OnOrderPlace(m)
  \/ OnOrderAmendKeepPriority(m)
  \/ OnCancelOrder(m)
  \/ OnCancelOpenOrders(m)
  \/ OnExecutionReport(m)

Next ==
  \/ Transport
  \/ Dispatcher
  \/ \E r \in toExchange \cup orphans : ExchangeProcesses(r)
  \/ Market
  \/ \E m \in toGateway : Handle(m)

Spec == Init /\ [][Next]_vars

\* The exchange answers what is on the wire of a live session, and the event
\* loop delivers what has arrived.
FairSpec ==
  /\ Spec
  /\ WF_vars(Ready)
  /\ \A type \in Downloads \cup Actions :
       WF_vars(\E r \in toExchange : r.type = type /\ ExchangeProcesses(r))
  /\ \A type \in Downloads \cup Actions :
       WF_vars(\E m \in toGateway : m.re.type = type /\ Handle(m))

-----------------------------------------------------------------------------
(* Properties *)

ConnectionStatuses ==
  {"UNDEFINED", "DISCONNECTED", "LOGIN_SENT", "DOWNLOADING", "READY"}

Request ==
  [type : Downloads \ {"MY_TRADES"}, sequence : Nat]
    \cup [type : {"MY_TRADES"}, sequence : Nat, symbol : DownloadSymbols]
    \cup [type : Actions, order : Own, version : Nat]
    \cup [type : {"OPEN_ORDERS_CANCEL_ALL"}, symbol : Symbols]

Message == [re : Request \cup {ExecutionReport}, ok : BOOLEAN, image : Image]

TypeOK ==
  /\ connection_status \in ConnectionStatuses
  /\ ready \in BOOLEAN
  /\ download \in States
  /\ sequence \in Nat
  /\ open_orders_symbols \subseteq Symbols
  /\ download_trades_is_first \in BOOLEAN
  /\ connection \in {"closed", "opened", "ready"}
  /\ toExchange \subseteq Request
  /\ toGateway \subseteq Message
  /\ orphans \subseteq Request
  /\ sessions \in Nat
  /\ faults \in Nat
  /\ revision \in Image
  /\ open \subseteq Orders
  /\ subscribed \in BOOLEAN
  /\ snapshot \in BOOLEAN
  /\ previous \subseteq Own
  /\ late \subseteq Orders
  /\ asked \in [Own -> Seq(Actions)]
  /\ answers \subseteq [type : Actions, order : Own, version : Nat,
                       status : {"ACCEPTED", "REJECTED", "THROWN"}]
  /\ told \in Image
  /\ tradesSeen \subseteq DownloadSymbols

\* ready_, ready() and the download agree, whatever is lost, retried or late:
\* so assert(!ready_) in download() never fires, and order requests are on the
\* wire of a session only once all of its download has been answered.
ReadyConsistent ==
  /\ ready <=> download = "DONE"
  /\ IsReady <=> download = "DONE"
  /\ download # "UNDEFINED" <=> connection = "ready"
  /\ (\E r \in toExchange : ~ IsQuery(r)) => IsReady

InFlight(o) == \E m \in toGateway : m.image[o] = revision[o]

\* Between the snapshot of the open orders and the stream of execution reports
\* there is no gap: once READY, the latest state of every open order that has a
\* client_order_id, also of those created or changed by others or by requests of
\* an earlier session, has been given to the dispatcher or is on its way.
NoGapWhenReady ==
  IsReady => \A o \in open \ Unnamed : told[o] = revision[o] \/ InFlight(o)

\* Cancelling all orders reaches every open order that this process created or
\* that the snapshot names with a client_order_id: open_orders_symbols_ survives the
\* reconnects and is rebuilt by the download after a restart.
CancelAllCovers ==
  IsReady => \A o \in open \ (late \cup Unnamed) : Symbol[o] \in open_orders_symbols

\* A request is answered at most once, the version telling apart the requests
\* for the same order that are outstanding together.
OneAnswerPerRequest ==
  \A a, b \in answers :
    a.order = b.order /\ a.version = b.version => a = b

\* A WebSocket is a stream: it is READY only on a usable connection whose
\* download is complete, and says so at once when the connection is lost.
Stream ==
  INSTANCE StreamLifecycle WITH
    RetriesUnlinked <- FALSE,
    linked <- connection = "ready",
    status <- CASE connection_status \in {"UNDEFINED", "DISCONNECTED"} -> "IDLE"
                [] connection_status \in {"LOGIN_SENT", "DOWNLOADING"} -> "BUSY"
                [] OTHER -> "READY",
    downloaded <- download = "DONE"

ImplementsStream == Stream!Spec

\* Liveness: a session that is not lost becomes READY although the exchange
\* may answer download requests by errors (each is retried).
SessionBecomesReady ==
  connection = "opened" ~> (IsReady \/ connection = "closed")

\* Liveness: an order action on the wire is answered unless the connection is
\* lost first.
ActionAnswered ==
  \A o \in Own : \A v \in 1..MaxVersion :
    (\E r \in toExchange : IsAction(r) /\ r.order = o /\ r.version = v)
      ~> ((\E a \in answers : a.order = o /\ a.version = v)
            \/ connection = "closed")

\* The dispatcher asked for this type under this version of the order.
AsAsked(x) ==
  x.version \in DOMAIN asked[x.order] /\ asked[x.order][x.version] = x.type

\* The one answer that does not say what was asked for.
MisnamedRefusal(a) ==
  /\ a.type = "ORDER_CANCEL" /\ a.status = "REJECTED"
  /\ a.version \in DOMAIN asked[a.order]
  /\ asked[a.order][a.version] = "ORDER_AMEND_KEEP_PRIORITY"

\* What the request types of the responses should satisfy: each response names
\* the request that was made.
AnswersNameTheRequest == \A a \in answers : AsAsked(a)

\* What they do satisfy: the refusal of an amendment, reported as that of a
\* cancellation, is the only response that names another request.
OnlyRefusedAmendsMisnamed == \A a \in answers : AsAsked(a) \/ MisnamedRefusal(a)

\* What a countdown over the symbols would give: READY means that the trades of
\* every configured symbol have been downloaded.
ReadyMeansTradesDownloaded ==
  IsReady /\ LookbackLater => tradesSeen = DownloadSymbols

=============================================================================
