----------------------------- MODULE OrderActions -----------------------------
(***************************************************************************)
(* The order actions of a REST stream: gateway::OrderEntryMargin or, for a *)
(* portfolio margin account, gateway::OrderEntryPortfolio.                 *)
(*                                                                         *)
(* A client program creates and cancels orders and cancels all of them;    *)
(* the stream sends one REST request for each (cancel-all: one for every   *)
(* symbol it knows and every margin mode), on one pipelined connection,    *)
(* and turns whatever comes back (an answer, an HTTP error, an answer that *)
(* cannot be decoded, a NetworkError) into a response to the client.  What *)
(* the client believes of its orders is what these responses say.          *)
(*                                                                         *)
(* External: the REST client, as in MarginStream, PortfolioStream and      *)
(* Subscription.  A request without an answer may fail at any time,        *)
(* connected or not, with a NetworkError; any other answer needs a         *)
(* connection; what is on the wire when there is a connection again is     *)
(* dropped by the client or kept, and answered late.  The exchange         *)
(* processes the requests on the wire in order; one that is given up       *)
(* before that may have reached it, and is processed later or never.       *)
(* Fills are left out: to the stream an order that was filled is one that  *)
(* was cancelled.                                                          *)
(***************************************************************************)
EXTENDS Integers, Sequences, FiniteSets, SequencesExt

CONSTANTS
  Symbols,
  TerminateOn403,  \* settings.rest.terminate_on_403
  MaxActions,      \* bound: requests of the client for single orders
  MaxCancelAlls,   \* bound: cancel-all requests of the client
  MaxFaults,       \* bound: lost connections, but for those that are closed to
                   \* suspend them, and requests of a connection that end in
                   \* anything but success
  MaxOrphans       \* bound: requests given up that the exchange holds

ASSUME OrderActionsAssumption ==
  /\ Symbols # {}
  /\ TerminateOn403 \in BOOLEAN
  /\ MaxActions \in Nat
  /\ MaxCancelAlls \in Nat
  /\ MaxFaults \in Nat
  /\ MaxOrphans \in Nat

VARIABLES
  portfolio,             \* the stream is the one of a portfolio account
  alive,                 \* the process runs
  ready,                 \* ready(): the last published status is READY
  suspended,             \* suspend_for(...) is in force
  open_orders_symbols,   \* open_orders_symbols_
  wire,                  \* requests without an answer, oldest first
  \* the client program
  responses,             \* what it was told, by request: NONE for one that is
                         \* off the wire without an answer
  covered,               \* orders it may take for gone as soon as its last
                         \* cancel-all is answered
  \* the exchange, and the bounds
  orders,                \* its orders
  orphans,               \* requests given up that it may still process
  cancel_alls, faults

client   == <<responses, covered>>
exchange == <<orders, orphans>>
bounds   == <<cancel_alls, faults>>
vars     == <<portfolio, alive, ready, suspended, open_orders_symbols, wire, client,
              exchange, bounds>>

MarginModes == {"ISOLATED", "CROSS", "PORTFOLIO"}

\* One order of each kind is enough: nothing relates two of the same kind.
Orders == [symbol : Symbols, mode : MarginModes]

\* The target of a cancel-all stands for all orders of the kind.
Requests == [type : {"CREATE_ORDER", "CANCEL_ORDER", "CANCEL_ALL"}, target : Orders]

Create(o) == [type |-> "CREATE_ORDER", target |-> o]
Cancel(o) == [type |-> "CANCEL_ORDER", target |-> o]
CancelAll(o) == [type |-> "CANCEL_ALL", target |-> o]

\* What comes back: by the category of the status, and whether the body can be
\* decoded (MALFORMED: of a success, UNREADABLE: of a client error).  UNEXPECTED
\* is a category that is unknown or informational.  A 409, which the code asserts
\* never to see, is a client error when it is built without assertions.
Results == {"SUCCESS", "MALFORMED", "CLIENT_ERROR", "UNREADABLE", "FORBIDDEN",
            "RATE_LIMIT", "SERVER_ERROR", "REDIRECTION", "UNEXPECTED"}

Entry(r) == [request |-> r, result |-> "NONE"]

Pending == {wire[i].request : i \in DOMAIN wire}

OnWire(r) == r \in Pending

\* No response yet, and none expected.
Fresh(r) == r \notin DOMAIN responses /\ ~ OnWire(r)

Sent(o) == OnWire(Create(o)) \/ Create(o) \in DOMAIN responses

Response(status, error) == [status |-> status, error |-> error]

Responses == [status : {"ACCEPTED", "REJECTED", "ERROR", "DISCONNECTED", "NONE"},
              error : {"NONE", "GUESSED", "REQUEST_RATE_LIMIT_REACHED", "UNKNOWN", "NETWORK"}]

Respond(r, response) ==
  [x \in DOMAIN responses \cup {r} |-> IF x = r THEN response ELSE responses[x]]

-----------------------------------------------------------------------------
(* The client's requests.  A stream that is not READY throws, as it does   *)
(* for an unknown request template: the dispatcher, not the stream, tells  *)
(* the client, but the symbol of a new order has been noted by then.       *)

Send(r) == wire' = Append(wire, Entry(r))

Actions == {r \in DOMAIN responses \cup Pending : r.type # "CANCEL_ALL"}

NewOrder(o) ==
  /\ ready
  /\ Fresh(Create(o))
  /\ Cardinality(Actions) < MaxActions
  /\ open_orders_symbols' = open_orders_symbols \cup {o.symbol}
  /\ Send(Create(o)) \/ UNCHANGED wire
  /\ UNCHANGED <<portfolio, alive, ready, suspended, client, exchange, bounds>>

MarginNewOrder(o) ==
  /\ ~ portfolio
  /\ o.mode \in {"ISOLATED", "CROSS"}
  /\ NewOrder(o)

PortfolioNewOrder(o) ==
  /\ portfolio
  /\ o.mode = "PORTFOLIO"
  /\ NewOrder(o)

\* Sent by the stream the order was created on.
CancelOrder(o) ==
  /\ ready
  /\ Sent(o)
  /\ Fresh(Cancel(o))
  /\ Cardinality(Actions) < MaxActions
  /\ Send(Cancel(o))
  /\ UNCHANGED <<portfolio, alive, ready, suspended, open_orders_symbols, client, exchange,
                 bounds>>

MarginCancelOrder(o) == o.mode \in {"ISOLATED", "CROSS"} /\ CancelOrder(o)

PortfolioCancelOrder(o) == o.mode = "PORTFOLIO" /\ CancelOrder(o)

\* The margin modes for which a symbol is cancelled, one request each.
CrossOnly == <<"CROSS">>

MarginModesInOrder == <<"ISOLATED", "CROSS">>

PortfolioModesInOrder == <<"PORTFOLIO">>

ModesInOrder == IF portfolio THEN PortfolioModesInOrder ELSE MarginModesInOrder

\* One request per known symbol that the client asked for (all, or one) and
\* margin mode: symbols in any order, the modes of a symbol together.
Batches(symbols) ==
  LET n == Cardinality(symbols)
      m == Len(ModesInOrder)
      Arrangements == {p \in [1 .. n -> symbols] : \A i, j \in 1 .. n : p[i] = p[j] => i = j}
  IN  {[i \in 1 .. (n * m) |->
          Entry(CancelAll([symbol |-> p[((i - 1) \div m) + 1],
                           mode |-> ModesInOrder[((i - 1) % m) + 1]]))] : p \in Arrangements}

\* The orders that a cancel-all for these symbols should do away with: all that
\* were sent to the exchange, the ones still in flight too, unless the client
\* cannot tell, as the request was given up and the exchange may have it.
Known(symbols) ==
  {o \in Orders : /\ o.symbol \in symbols
                  /\ Sent(o)
                  /\ Create(o) \notin orphans}

\* Bound: not while an earlier one is being answered.
CancelAllOrders(symbols) ==
  /\ cancel_alls < MaxCancelAlls
  /\ ready
  /\ \A o \in Orders : ~ OnWire(CancelAll(o))
  /\ \E batch \in Batches(open_orders_symbols \cap symbols) : wire' = wire \o batch
  /\ responses' = [r \in {x \in DOMAIN responses : x.type # "CANCEL_ALL"} |-> responses[r]]
  /\ covered' = covered \cup Known(symbols)
  /\ cancel_alls' = cancel_alls + 1
  /\ UNCHANGED <<portfolio, alive, ready, suspended, open_orders_symbols, exchange,
                 faults>>

-----------------------------------------------------------------------------
(* The exchange *)

Affected(r) ==
  IF r.type = "CREATE_ORDER" THEN {o \in {r.target} : orders[o] = "NONE"}
                             ELSE {o \in {r.target} : orders[o] = "WORKING"}

Executed(r) ==
  [o \in Orders |-> IF o \notin Affected(r) THEN orders[o]
                    ELSE IF r.type = "CREATE_ORDER" THEN "WORKING" ELSE "DONE"]

\* The first request it has not processed yet.  A server error, or a status that
\* is not expected, may come from a request that was executed; a success that
\* cannot be decoded does.  There is nothing wrong about refusing to cancel what
\* there is not.
Process(i, result) ==
  /\ wire[i].result = "NONE"
  /\ \A j \in 1 .. (i - 1) : wire[j].result # "NONE"
  /\ LET r == wire[i].request
         benign == \/ result = "SUCCESS"
                   \/ result = "CLIENT_ERROR" /\ Affected(r) = {}
     IN  /\ r.type # "CANCEL_ALL" /\ result = "SUCCESS" => Affected(r) # {}
         /\ benign \/ faults < MaxFaults
         /\ faults' = IF benign THEN faults ELSE faults + 1
         /\ wire' = [wire EXCEPT ![i].result = result]
         /\ \E executed \in CASE result \in {"SUCCESS", "MALFORMED"} -> {TRUE}
                              [] result \in {"SERVER_ERROR", "UNEXPECTED"} -> BOOLEAN
                              [] OTHER -> {FALSE} :
              /\ orders' = IF executed THEN Executed(r) ELSE orders
              /\ covered' = IF r.type = "CANCEL_ALL" /\ ~ executed
                            THEN covered \ {r.target}
                            ELSE covered
  /\ UNCHANGED <<portfolio, alive, ready, suspended, open_orders_symbols, responses,
                 orphans, cancel_alls>>

ProcessOrphan(r) ==
  /\ r \in orphans
  /\ orphans' = orphans \ {r}
  /\ orders' \in {orders, Executed(r)}
  /\ UNCHANGED <<portfolio, alive, ready, suspended, open_orders_symbols, wire, client,
                 bounds>>

-----------------------------------------------------------------------------
(* process_response *)

NetworkErrorIsRejection(result) ==
  CASE result = "SUCCESS" -> Response("ACCEPTED", "NONE")
    [] result \in {"MALFORMED", "UNREADABLE", "UNEXPECTED"} -> Response("ERROR", "UNKNOWN")
    [] OTHER -> Response("REJECTED", "GUESSED")

ServerErrorIsUndefined(result) ==
  CASE result = "SUCCESS" -> Response("ACCEPTED", "NONE")
    [] result \in {"MALFORMED", "UNREADABLE", "UNEXPECTED"} -> Response("ERROR", "UNKNOWN")
    [] result = "NETWORK" -> Response("DISCONNECTED", "NETWORK")
    [] result = "SERVER_ERROR" -> Response("UNDEFINED", "UNKNOWN")
    [] OTHER -> Response("REJECTED", "GUESSED")

\* What both streams make of an answer.  An exception, be it from a body that
\* cannot be decoded or from expecting a success, is an ERROR.
ProcessResponse(result) ==
  CASE result = "SUCCESS" -> Response("ACCEPTED", "NONE")
    [] result \in {"MALFORMED", "UNREADABLE", "UNEXPECTED"} -> Response("ERROR", "UNKNOWN")
    [] result = "CLIENT_ERROR" -> Response("REJECTED", "GUESSED")
    [] result \in {"FORBIDDEN", "RATE_LIMIT"} -> Response("REJECTED", "REQUEST_RATE_LIMIT_REACHED")
    [] result = "SERVER_ERROR" -> Response("REJECTED", "UNKNOWN")
    [] result = "NETWORK" -> Response("DISCONNECTED", "NETWORK")

\* log::fatal: the process ends and nobody is told.
Fatal(result) == result = "REDIRECTION" \/ (TerminateOn403 /\ result = "FORBIDDEN")

\* Whether it suspends the connection: for a 403 always; for a 418 or 429 with a
\* Retry-After header, by the stream or by its client, which is configured to.
MaySuspend(result) ==
  CASE result = "FORBIDDEN" -> {TRUE}
    [] result = "RATE_LIMIT" -> BOOLEAN
    [] OTHER -> {FALSE}

\* An error goes to the client with the status found for it; that of a
\* cancel-all always as REJECTED.
OrderResponse(result) == ProcessResponse(result)

CancelAllResponse(result) ==
  IF result = "SUCCESS" THEN ProcessResponse(result)
                        ELSE [ProcessResponse(result) EXCEPT !.status = "REJECTED"]

ResponseTo(r, result) ==
  IF r.type = "CANCEL_ALL" THEN CancelAllResponse(result) ELSE OrderResponse(result)

\* The k-th request on the wire is answered with this result.
Answered(k, result) ==
  /\ wire' = RemoveAt(wire, k)
  /\ responses' = Respond(wire[k].request, ResponseTo(wire[k].request, result))

Acknowledge(type) ==
  /\ ready
  /\ wire # <<>>
  /\ wire[1].result # "NONE"
  /\ ~ Fatal(wire[1].result)
  /\ wire[1].request.type = type
  /\ Answered(1, wire[1].result)
  /\ \E suspends \in MaySuspend(wire[1].result) : suspended' = (suspended \/ suspends)
  /\ UNCHANGED <<portfolio, alive, ready, open_orders_symbols, covered, exchange, bounds>>

MarginNewOrderAck == ~ portfolio /\ Acknowledge("CREATE_ORDER")
PortfolioNewOrderAck == portfolio /\ Acknowledge("CREATE_ORDER")

MarginCancelOrderAck == ~ portfolio /\ Acknowledge("CANCEL_ORDER")
PortfolioCancelOrderAck == portfolio /\ Acknowledge("CANCEL_ORDER")

MarginCancelAllOpenOrdersAck == ~ portfolio /\ Acknowledge("CANCEL_ALL")
PortfolioCancelAllOpenOrdersAck == portfolio /\ Acknowledge("CANCEL_ALL")

Terminate ==
  /\ ready
  /\ wire # <<>>
  /\ Fatal(wire[1].result)
  /\ alive' = FALSE
  /\ ready' = FALSE
  /\ UNCHANGED <<portfolio, suspended, open_orders_symbols, wire, client, exchange,
                 bounds>>

\* A NetworkError: at the loss, by the client's request_timeout, or later.  That
\* of a connected client is a fault.
NetworkError(k) ==
  LET r == wire[k].request
  IN  /\ alive
      /\ ready => faults < MaxFaults
      /\ faults' = IF ready THEN faults + 1 ELSE faults
      /\ Answered(k, "NETWORK")
      /\ \E held \in SUBSET {x \in {r} : wire[k].result = "NONE"} :
           /\ Cardinality(orphans \cup held) <= MaxOrphans
           /\ orphans' = orphans \cup held
           /\ covered' = IF r.type = "CANCEL_ALL" \/ Create(r.target) \in held
                         THEN covered \ {r.target}
                         ELSE covered
      /\ UNCHANGED <<portfolio, alive, ready, suspended, open_orders_symbols, orders,
                     cancel_alls>>

-----------------------------------------------------------------------------
(* The connection *)

\* Lost, or closed to suspend it.
Disconnected ==
  /\ ready
  /\ suspended \/ faults < MaxFaults
  /\ faults' = IF suspended THEN faults ELSE faults + 1
  /\ ready' = FALSE
  /\ UNCHANGED <<portfolio, alive, suspended, open_orders_symbols, wire, client,
                 exchange, cancel_alls>>

SuspensionExpires ==
  /\ alive
  /\ suspended
  /\ ~ ready
  /\ suspended' = FALSE
  /\ UNCHANGED <<portfolio, alive, ready, open_orders_symbols, wire, client, exchange,
                 bounds>>

Unprocessed == {wire[i].request : i \in {j \in DOMAIN wire : wire[j].result = "NONE"}}

\* Nobody is told, and the exchange may have what it has not processed.
DropWire ==
  /\ wire # <<>>
  /\ wire' = <<>>
  /\ responses' = [r \in DOMAIN responses \cup Pending |->
                     IF r \in Pending THEN Response("NONE", "NONE") ELSE responses[r]]
  /\ \E held \in SUBSET Unprocessed :
       /\ Cardinality(orphans \cup held) <= MaxOrphans
       /\ orphans' = orphans \cup held
  /\ covered' = {}
  /\ UNCHANGED orders

KeepWire == UNCHANGED <<wire, client, exchange>>

\* Connected, and the download completed: see MarginStream and PortfolioStream.
Ready ==
  /\ alive
  /\ ~ ready
  /\ ~ suspended
  /\ ready' = TRUE
  /\ KeepWire \/ DropWire
  /\ UNCHANGED <<portfolio, alive, suspended, open_orders_symbols, bounds>>

-----------------------------------------------------------------------------
Init ==
  /\ portfolio \in BOOLEAN
  /\ alive = TRUE
  /\ ready = FALSE
  /\ suspended = FALSE
  /\ open_orders_symbols = {}
  /\ wire = <<>>
  /\ responses = [r \in {} |-> Response("NONE", "NONE")]
  /\ covered = {}
  /\ orders = [o \in Orders |-> "NONE"]
  /\ orphans = {}
  /\ cancel_alls = 0
  /\ faults = 0

ClientActs ==
  \/ \E o \in Orders :
       \/ MarginNewOrder(o)
       \/ PortfolioNewOrder(o)
       \/ MarginCancelOrder(o)
       \/ PortfolioCancelOrder(o)
  \/ \E symbols \in {Symbols} \cup {{s} : s \in Symbols} : CancelAllOrders(symbols)

ExchangeProcesses == \E i \in DOMAIN wire, result \in Results : Process(i, result)

ResponseArrives ==
  \/ MarginNewOrderAck
  \/ PortfolioNewOrderAck
  \/ MarginCancelOrderAck
  \/ PortfolioCancelOrderAck
  \/ MarginCancelAllOpenOrdersAck
  \/ PortfolioCancelAllOpenOrdersAck

Next ==
  \/ ClientActs
  \/ ExchangeProcesses
  \/ \E r \in orphans : ProcessOrphan(r)
  \/ ResponseArrives
  \/ Terminate
  \/ \E k \in DOMAIN wire : NetworkError(k)
  \/ Disconnected
  \/ SuspensionExpires
  \/ Ready

Spec == Init /\ [][Next]_vars

-----------------------------------------------------------------------------
(* Properties *)

TypeOK ==
  /\ portfolio \in BOOLEAN
  /\ alive \in BOOLEAN
  /\ ready \in BOOLEAN
  /\ suspended \in BOOLEAN
  /\ open_orders_symbols \subseteq Symbols
  /\ wire \in Seq([request : Requests, result : Results \cup {"NONE"}])
  /\ DOMAIN responses \subseteq Requests
  /\ \A r \in DOMAIN responses : responses[r] \in Responses
  /\ covered \subseteq Orders
  /\ orders \in [Orders -> {"NONE", "WORKING", "DONE"}]
  /\ orphans \subseteq Requests
  /\ cancel_alls \in Nat
  /\ faults \in Nat

\* An order is where the response to its creation says: the exchange had it if
\* it was ACCEPTED, and will never have it if it was REJECTED for a reason that
\* is known, whatever was lost, late or could not be decoded; and it is gone if
\* its cancellation was ACCEPTED.
ResponsesTellTheTruth ==
  \A o \in Orders :
    /\ Create(o) \in DOMAIN responses =>
         LET response == responses[Create(o)]
         IN  /\ response.status = "ACCEPTED" => orders[o] # "NONE"
             /\ response.status = "REJECTED" /\ response.error # "UNKNOWN"
                  => orders[o] = "NONE" /\ Create(o) \notin orphans
    /\ Cancel(o) \in DOMAIN responses /\ responses[Cancel(o)].status = "ACCEPTED"
         => orders[o] = "DONE"

\* A cancel-all reaches every order sent before it, in flight or not, in either
\* margin mode: one that works while the client may take it for gone has the
\* request that cancels it on its way.
CancelAllCovers ==
  \A o \in covered :
    orders[o] = "WORKING" =>
      \E i \in DOMAIN wire : wire[i] = Entry(CancelAll(o))

=============================================================================
