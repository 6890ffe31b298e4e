# A verification project for roq-binance

TLA+ modules, TLC runs and TLAPS proofs about the Binance gateway. Paths are
relative to the repository; `gateway/` stands for `src/roq/binance/gateway/`.

    tlc -config MCWebSocketSession.cfg MCWebSocket      # any run of the table below
    tlapm WebSocketProofs.tla                           # the proofs of a module

`PROJECT.json` maps every definition to the lines of code it translates, lists
the hazards with the property that covers each, and the mutations of the model
that each property is shown to detect.

## The system

The gateway is one event-driven, single-threaded process between Binance and the
order management system of the roq server (the *dispatcher*). Its parts are
*streams*: objects with one connection each, driven by callbacks (connected,
ready, disconnected, message, response) and by a timer. There are no locks; the
hard behaviours come from the order in which callbacks of different streams,
answers, events and timers arrive, and from what a lost connection leaves behind.

| Component | State it keeps | Operations |
|---|---|---|
| `Controller` | the streams by account and slice, the next stream id | routes clients' requests and the timer, creates market data streams (`SymbolsUpdate`) and drop copies (`ListenKeyUpdate`) |
| `Shared` | `all_symbols`, `symbols` (slices), instruments (update ids, sequencer), queues, rate limiter | used by all streams |
| `Rest` | `download_` (exchange info), `ready_`, `connection_status_` | exchange info, depth snapshots on request |
| `MarketData` | `connection_status_`, `subscribe_queue_` | subscribes to a slice of the symbols, publishes market data; a second stream of each slice is a back-up |
| `WebSocket` | `download_`, `ready_`, `connection_status_`, `open_orders_symbols_`, `download_trades_is_first_`, `request_id_` | spot: login, download, order actions, answers, execution reports, cancel-all |
| `OrderEntryMargin` | `download_` (listen key), flags of downloads in flight, tokens | cross margin: REST order actions, downloads the drop copy asks for |
| `DropCopyMargin` | `download_`, `listen_token_`, `connection_status_` | cross margin: user data stream, renews its token |
| `Request` | a request time and a response time for each kind of download | mailbox between the two streams of an account |
| `OrderEntryPortfolio`, `DropCopyPortfolio` | `download_` (listen key), `listen_key_`, `listen_key_refresh_`, flags of downloads in flight; the key of a drop copy is part of its URL | portfolio margin: REST order actions, renews the listen key, downloads the drop copy asks for |
| `Throttle` | `suspend_until_` | HTTP interceptor: 403 and 429 suspend |
| `Config`, `Settings`, `Account`, `API`, `Crypto`, `protocol/json` | constants, keys | configuration, signing, decoding and encoding |

### How they interact

- Calls: the dispatcher calls `Controller`, which calls one stream and returns; a
  stream that is not ready throws `NotReady`. A stream publishes by calling the
  dispatcher. `Rest` calls `Controller` (`SymbolsUpdate`), which calls every
  `MarketData`; `OrderEntryMargin` calls `Controller` (`ListenKeyUpdate`), which
  calls or creates the `DropCopyMargin`.
- Messages: requests and answers over web sockets and REST. Web socket requests
  carry an identifier made of request type, order and version, which the answer
  echoes; nothing else is remembered about a request.
- Shared state: `Request` (polled by two timers), `Shared` (queues filled by one
  stream and emptied by another).
- External libraries, whose source is not in the repository: the clients
  (`web::socket::Client`, `web::rest::Client`), the download helper
  (`core::Download2`), `core::Symbols`, `core::limit::Queue`, the sequencer of
  order books and the dispatcher.

### What is hard, and what makes each part correct

- `WebSocket`: execution reports, answers and orphaned requests race with the
  download of a new session, over reconnects and restarts. Correct: nothing is
  missing once READY; cancel-all reaches every order it could know of; a request
  is answered once, and eventually; READY is consistent with the connection.
- `OrderEntryMargin` and `DropCopyMargin`: two state machines that only see which
  of two times is later, on two connections. Correct: requests are responded to,
  by an answer to them; one download at a time; a token is replaced only after it
  was given up; the drop copy gets READY.
- Subscriptions: batches of symbols race with the creation, loss and login of
  streams and with late answers of the exchange. Correct: each stream subscribes
  once to exactly its slice, and every symbol gets subscribed to.
- Order books: snapshots and updates race over three connections, with gaps and
  duplicates. Correct: no book with a hole is published; a gap leads to a snapshot.
- REST order actions: an answer may leave the outcome unknown, a request may be
  executed after its connection was lost, cancel-all is many requests behind others
  still in flight. Correct: what the client is told is so; cancel-all misses nothing
  sent before it.

## The modules

| Module | Models | State |
|---|---|---|
| `StreamLifecycle` | what any stream promises (`server::Stream`): abstract | link, published status, downloaded |
| `WebSocket` | `gateway/web_socket`, with the dispatcher and the exchange around it | see below |
| `MCWebSocket` | instances for TLC | |
| `WebSocketProofs` | theorems about `WebSocket`: the session and its download | |
| `WebSocketRequestsProofs` | theorems about `WebSocket`: requests, answers, cancel-all (extends `WebSocketProofs`) | |
| `MarginStream` | `gateway/order_entry_margin` (not its order actions), `gateway/drop_copy_margin`, `gateway/request`, `ListenKeyUpdate` of `Controller` | see below |
| `MarginStreamProofs` | theorems about `MarginStream` | |
| `Subscription` | exchange info of `Rest`, `Subscribe` and `SymbolsUpdate` of `Controller`, the connections and subscriptions of `MarketData` | see below |
| `MCSubscription` | an instance for TLC | |
| `SubscriptionProofs` | theorems about `Subscription` | |
| `OrderActions` | the order actions of `gateway/order_entry_margin` and `gateway/order_entry_portfolio`, with the client and the exchange around them | see below |
| `MCOrderActions` | an instance for TLC | |
| `OrderActionsProofs` | theorems about `OrderActions` | |
| `PortfolioStream` | `gateway/order_entry_portfolio` (not its order actions), `gateway/drop_copy_portfolio`, the spot members of `gateway/request`, `ListenKeyUpdate` of `Controller` | see below |
| `PortfolioStreamProofs` | theorems about `PortfolioStream` | |
| `Depth` | depth updates and book tickers of `gateway/market_data`, depth snapshots of `gateway/rest`, `Instrument` and `depth_request_queue` of `gateway/shared` | see below |
| `DepthProofs` | theorems about `Depth` | |

A definition that stands just before another and is named for what is wrong with
it (`ResetKeepsReady` before `Reset`) is a plausible bug; it is used nowhere and
serves to show that a property can fail.

### One REST client

`Rest`, `OrderEntryMargin` and `OrderEntryPortfolio` send through the same external
client (`web::rest::Client`), so every module that models requests over it
(`MarginStream`, `PortfolioStream`, `Subscription`, `OrderActions`, `Depth`) assumes the
same of it:

- a request without an answer may fail at any time, connected or not, with a
  `NetworkError`: at the loss, by the `request_timeout`, or because it was sent without
  a link;
- any other answer needs a connection;
- what is on the wire when there is a connection again is dropped by the client, or
  kept and answered late (`Rest` allows for late answers by `download_.skip`).

The handlers do not ask whether there is a connection: a download request that fails
with the loss is retried at once, which sends it and publishes DOWNLOADING without a
link (`order_entry_margin.cpp:402-404`, `order_entry_portfolio.cpp:376-378`,
`rest.cpp:291-295`). `StreamLifecycle` allows for that (`RetriesUnlinked`, FALSE for
`WebSocket`, whose requests die with the session); what it forbids is READY without a
link, or without a download completed on it.

### WebSocket

- Each handler is an action: `Connected`, `Ready`, `Disconnected`,
  `EventStreamTerminated` (`log::fatal`: the process dies, and the next one starts
  without memory), one `On...` for each kind of message, one for each order action.
- `Enter`, `Check` and `Retry` are `core::Download2` with the callback
  `WebSocket::download`: entering a state issues its requests and publishes the
  status, in the step that received the answer. A state without requests (trades
  without a lookback) is passed over in that same step, as in the code.
- The exchange is nondeterministic: it takes requests in any order, answers in any
  order, refuses any order action, fills, and serves other clients of the account.
- The identifier of a request carries its version, and the answer echoes it.
- Data: all that is said about an order is its *revision*, one more for each
  change. The dispatcher keeps the highest revision it was given (`told`): an
  execution report and an answer for the same change are in no particular order,
  and the dispatcher discards what is older.
- Orders of another client may come without a client_order_id (`Unnamed`). Open orders
  and the answer to a cancel-all skip these (`web_socket.cpp:424-426`, `:811-813`):
  neither their state is passed on nor their symbol noted (`Named`).
- `orphans` are order requests on the wire of a lost connection: they may be
  executed at any later time, also after a restart.

### MarginStream

- Both streams are one state machine because they share `Request`. Times are only
  compared pairwise and no two events have the same time, so each pair is one
  value: `none`, `requested` (the request is later), `responded`.
- `Timer` is the tick of the controller, which goes to the REST stream first and
  to the drop copy second, in one step.
- `wire` is the queue of REST requests; `current` is a mark of the model on a
  request (was it sent after the last request time of its kind?), used by one
  property and by no action.
- The token of the drop copy is a number, 0 for none; the exchange accepts the
  last one issued, until it expires or is revoked.
- `outlived` records that a request was kept over a reconnect; it is read by no action.

### Subscription

- The queue of a stream and what it has sent on its present connection are
  sequences of (channel, slice); the rate limiter lets any part of the queue go.
- `SymbolsUpdate` is one step, as in the code: the symbols are extended, missing
  streams created and READY ones told, in the step of the answer from the exchange
  or of the client's `Subscribe`.
- Several exchange info requests may be in flight (a bump or a retry sends
  another), each with the `download_.sequence()` it captured.
- A symbol is a spelling of a name. The exchange info is kept in lower case
  (`rest.cpp:473`, `utils.hpp:12-16`, `normalized_symbol` here), what a client subscribes
  to as it comes (`controller.cpp:133-135`), and `ReferenceData` publishes the name of
  the exchange (`rest.cpp:433-436`). A client that subscribes to the published name
  therefore makes a second symbol of it, with subscriptions of its own.

### OrderActions

- Margin and portfolio streams differ in the margin modes they cancel, and in what
  suspends them; `portfolio` says which one it is. The actions are named for the
  handlers of the one or the other.
- `wire` is the pipelined connection: requests with the result the exchange has given
  them, answered in order. `Results` are the classes `process_response` tells apart: a
  success, or one that cannot be decoded; a client error, or one that cannot be decoded;
  403; 418/429; 5XX; a redirection; a category that is not expected. A redirection, and
  with `terminate_on_403` a 403, is `log::fatal`: the process ends (`Terminate`) and
  nobody is told.
- A 403 suspends the connection, a 418 or 429 if it says for how long
  (`Retry-After`), on either stream: one does it itself, the client of the other is
  configured to (`suspend_on_retry_after`).
- `NetworkError` answers any request at any time; `DropWire` is the client that forgets
  what is on the wire at the reconnect, for which nobody gets a response; `KeepWire` the
  one that does not.
- Whether a request that ended in a 5XX was executed is the exchange's choice; one that
  was given up before it was processed (`orphans`) is executed later, or never.
- `covered` is what a client may take for gone once its last cancel-all is answered. It
  belongs to the properties: no handler reads it.
- The order requests of `MarginStream` and `PortfolioStream` are the downloads and the
  keys; here they are the order actions. Both go over the same connection, but never
  wait for each other, and both meet the same client (above).

### PortfolioStream

- One state machine for the two streams of an account and their mailbox, as in
  `MarginStream`. The listen key is a number, 0 for none; the drop copy is created
  with the first key (`dc_key`) and keeps it.
- `DcEnter` is `core::Download2` with the callback of the drop copy; `DcChecks` the
  checks its timer makes, which stand behind `ready()` in the code: as they would
  complete the download that makes it ready, they are never made.
- `RefreshDue` and `KeyExpires` are time.

### Depth

- The k-th depth update of the exchange carries the identifiers 2k-1 and 2k, so that a
  snapshot may fall into the middle of an update; a book is the set of the identifiers
  that went into it, which is what lets a hole be seen.
- `Sequencer` is external. Its operators say what the code relies on: it keeps updates
  until a snapshot fits them, asks for one, and throws when an update does not follow
  the one before. The theorems are about `MarketData` and `Rest` given such a sequencer.
- Snapshot requests that are in flight when `Rest` loses its connection fail, are dropped,
  or are answered late, over the next connection.
- The two streams of a symbol read the same updates of the exchange at their own pace
  (`received`), and miss those sent while they were not connected.

## The runs

| Run | Question | Bounds |
|---|---|---|
| `ws_session` | `ReadyConsistent`, `NoGapWhenReady`, `CancelAllCovers`, `ImplementsStream` | one own order and one of another client, with or without a client_order_id, on two symbols, 2 connections, one failing download request, one request per order |
| `ws_actions` | `OneAnswerPerRequest`, `OnlyRefusedAmendsMisnamed`, `SessionBecomesReady`, `ActionAnswered`, `TypeOK` | one order, 3 requests for it, 1 connection (which may be lost), one failing download request |
| `ws_amend` | finding | the shortest counterexample needs one refused amendment |
| `ws_trades` | finding | two configured symbols |
| `margin` | `OneDownloadInFlight`, `TokenReplacedOnlyLate`, `ImplementsStream`, `EveryRequestResponded`, `TokenReplaced`, `TypeOK` | 3 tokens (2 event streams may end after the first), 2 failing requests, 3 lost connections; requests fail without a connection, are dropped or kept |
| `margin_borrowed`, `margin_drop_copy`, `margin_token` | findings | as `margin`, or smaller |
| `subscription` | `SliceSubscribedOnce`, `EverySymbolHasItsStream`, `OneAnswerPerRound`, `ImplementsStream`, `EverySymbolSent`, `TypeOK` | 3 names in two spellings each, one of which the dispatcher discards, slices of 2, primary and secondary, one lost connection, one error, one client subscription |
| `order_actions` | `ResponsesTellTheTruth`, `CancelAllCovers`, `TypeOK` | margin or portfolio, 2 symbols (symmetric), 2 requests for orders, one cancel-all, one fault (a request that ends in anything but success, or a lost connection; a connection closed by a suspension comes on top), one request given up that the exchange holds |
| `portfolio` | `DownloadsInFlight`, `ReadyMeansKeyed`, `ImplementsStream`, `EveryRequestResponded`, `DropCopyCreated`, `TypeOK` | one symbol whose trades are downloaded, 2 listen keys, 2 renewals, 2 failing requests, 3 lost connections |
| `depth` | `BookHasNoHole`, `NeverGoesBack`, `SnapshotAwaited`, `TypeOK` | primary and secondary stream, 5 updates, 2 snapshots queued or in flight, one lost connection, one failing snapshot or lost REST connection, late snapshots |

Why these are enough: `NoGapWhenReady` is a statement about each order and
`CancelAllCovers` about each order and its symbol, so two orders on two symbols
are one more than needed; two connections give requests of an earlier session, a
restart and a second download. `MaxForeign` lets one of the two orders of others come
into existence, the one that is named or the one that is not. Three requests for an
order are one more than the two that must not be confused. In `margin`, two tokens suffice for a replacement
and the three losses hit both streams. In `subscription`, slices of 2 with up
to 3 symbols (both spellings of one may be known) give partial, full and several
slices, extended in place. In `order_actions`, two requests are an order and its
cancellation, or two orders of two symbols or modes, of which one may outlive the
connection and meet the cancel-all of the next one. `TerminateOn403` is FALSE in that
run, as it only takes steps away: a redirection ends the process in any case. In
`portfolio`, three losses hit both streams, and the second of them again during the download that follows. In
`depth`, five updates let one stream fall behind, lose the connection, miss updates and
catch up while a snapshot is out. The passing runs have between 18 thousand
(`portfolio`) and 2.4 million (`depth`) distinct states. The inductive invariants of the proofs have been
checked by TLC on these instances; the theorems hold without the bounds.

Deadlock is checked in `margin` and `portfolio`. In the other runs the bounds on
sessions, requests and symbols, or in `order_actions` the end of the process, stop the
system legitimately (`CHECK_DEADLOCK FALSE`).

### Fairness

- `WebSocket`: a connection that is up gets ready, the exchange answers requests of
  each type and the event loop delivers. Nothing makes a lost connection return:
  liveness is stated up to the loss. No fairness on order actions, fills, losses.
- `MarginStream`: the clients reconnect, the exchange answers in order, the
  timer ticks, a suspension ends. No fairness on expiry, termination or losses.
- `PortfolioStream`: the clients reconnect, the exchange answers in order, the timer
  ticks. No fairness on renewal, expiry or losses.
- `Subscription`: market data streams reconnect and their timers dispatch the
  queue (the rate limiter refills). Nothing makes the exchange list a symbol.

## What the checks show

What holds, and is easy to get wrong:

- The order of the download (subscribe, then read the open orders) leaves no gap,
  whatever changes in between, whoever changes it, and with requests of an earlier
  process still on the wire (`NoGapWhenReady`). Swapping the two breaks it.
- `open_orders_symbols_`, which only grows and survives reconnects, covers every
  order known from the download or created here (`CancelAllCovers`). Orders of
  others accepted after the download are not covered; the property says so (`late`).
- The version in the request identifier is what keeps answers of concurrent
  requests apart (`OneAnswerPerRequest`).
- The flags of the REST stream serialize the downloads over retries, timers and
  lost connections (`OneDownloadInFlight`) unless the client keeps a request over a
  reconnect, and are lowered when a connection is
  lost, without which the mailbox would block (`EveryRequestResponded`).
- A market data stream subscribes exactly once to its slice however batches of
  symbols and connections interleave (`SliceSubscribedOnce`).
- What a client is told of an order is so (`ResponsesTellTheTruth`): nothing is reported
  ACCEPTED or REJECTED for a known reason that did not end that way, although requests
  are executed behind a 5XX, an answer that cannot be decoded, or a lost connection. A
  5XX is reported as REJECTED too, but with the error UNKNOWN (cf. `CHANGELOG.md`,
  #522): the property is about the pair of status and error.
- A cancel-all reaches orders that are still in flight, in both margin modes, because it
  is behind them on the same connection and the symbol of an order is noted before the
  order is sent (`CancelAllCovers`).
- The download flags of the portfolio stream never outlive what would lower them
  (`DownloadsInFlight`), which lowering them with the connection is needed for.
- No order book is published with a hole, and none goes back, whichever of two streams
  is ahead (`BookHasNoHole`, `NeverGoesBack`). What this rests on is that updates older
  than the last are refused, that BadState clears the sequencer, and that the previous
  sequence passed on is the update's own. A snapshot is always on its way to a book that
  needs one (`SnapshotAwaited`), unless its request failed or was dropped: nothing
  repeats that, and nothing is checked about it (`dropped` is what excuses it).
- The four streams with a download implement one abstract specification,
  `StreamLifecycle` (`ImplementsStream`). A REST stream may publish DOWNLOADING while it
  has no connection, as a key request or the exchange info that fails with the loss is
  retried at once; it is never READY without one.
- Every known symbol, *by the spelling in which it became known*, is subscribed to by one
  stream of each priority (`EverySymbolHasItsStream`). Two spellings of one name are two
  symbols, which is a hazard no property covers: `LowerCaseListsOnce` proves that it
  takes a client that does not spell in lower case.

What does not hold (`findings` in `PROJECT.json`):

1. A refused amendment is reported as a refused cancellation
   (`gateway/web_socket.cpp:705`; its acceptance is a `MODIFY_ORDER`, `:651`). No other
   answer names another request: `OnlyRefusedAmendsMisnamed` is proved.
2. With more than one symbol configured, READY is published after the trades of the
   first symbol (`gateway/web_socket.cpp:323`, "here we need a countdown"). With one
   symbol it is right: `OneSymbolIsDownloaded` is proved.
3. The margin drop copy never completes its download: the checks that would
   complete it are made only when it is READY (`gateway/drop_copy_margin.cpp:136`).
   `DropCopyNeverReady` proves that no history leads out of it.
4. The answer to the periodic request for borrowed amounts is taken for the account
   (`gateway/order_entry_margin.cpp:914`): a drop copy that has requested the account
   and waits for it (`dc_download` is ACCOUNT) finds a response time later than its
   request, and the account is never sent for.
5. `assert(std::empty(listen_token_))` (`gateway/drop_copy_margin.cpp:117`) fails if a
   listen key request that is still on the wire when the REST stream reconnects is kept
   and answered: the stream has sent another one by then. It may have been sent before
   the loss, or after it, as the retry of one that failed with the loss. Whether requests
   are kept is up to the external client. It takes no less: as long as none is,
   `TokenReplacedOnlyLate` is proved, whatever fails and is retried without a connection.

Finding 3 means that in the passing `margin` run the drop copy stays in ACCOUNT;
the properties of that run are about the tokens and the mailbox, which work
nevertheless: the end of the event stream is handled in any state. The portfolio drop
copy has the same guard (`gateway/drop_copy_portfolio.cpp:130`): in `portfolio` its
requests for orders and trades are never made, which `DropCopyNeverReady` proves.
`DownloadsInFlight` and `EveryRequestResponded` then say of the open orders and the
trades only that they cannot go wrong before somebody asks for them.

## What is proved

`WebSocketProofs` proves, for every number of orders, symbols, sessions, versions,
faults, and from `WebSocketAssumption` alone (the assumption TLC evaluates in the
runs of `MCWebSocket`):

| Theorem | Statement |
|---|---|
| `TypeCorrect` | `Spec => []TypeOK` |
| `ReadyIsConsistent` | `Spec => []ReadyConsistent` |
| `NoGapBetweenSnapshotAndStream` | `Spec => []NoGapWhenReady` |
| `WebSocketImplementsStream` | `Spec => ImplementsStream` |

Of these invariants only `TypeOK` is inductive. The inductive invariant `IInv` adds
to them:

- `NothingWithoutConnection`: without a connection nothing is on the wires and the
  exchange has forgotten the session;
- `DownloadFollowsSession`: how far the download has come says what the exchange
  has done for this session: past the subscription, it is subscribed; past the open
  orders, they were read while subscribed;
- `NothingInvented`: what is told or in flight about an order is not ahead of it;
- `NoGap`: once the open orders were read by a subscribed session, the latest
  revision of every open order is with the dispatcher or in flight, READY or not.

`NoGap` is what makes the argument work: reading the open orders puts every open
order in flight; every later change puts its new revision in flight because the
session is subscribed; delivery hands it to the dispatcher, which keeps the highest;
and the only steps that lose messages end the session. `NoGapWhenReady` follows
because READY implies the download has come past the open orders, hence that both
happened. The refinement needs in addition that the published status follows the
connection (`StatusFollowsConnection`).

`WebSocketRequestsProofs` follows the requests, from the same assumption:

| Theorem | Statement |
|---|---|
| `AnsweredAtMostOnce` | `Spec => []OneAnswerPerRequest` |
| `NoActionDropped` | `Spec => [][NothingDropped]_vars` |
| `AnswersNameWhatWasAsked` | `Spec => []OnlyRefusedAmendsMisnamed` |
| `OneDownloadRequestAtATime` | `Spec => []OneQuery` |
| `DownloadNeverStalls` | `Spec => []DownloadAwaited` |
| `OneSymbolIsDownloaded` | `Spec => []ReadyMeansTradesDownloaded`, if `LookbackFirst` and at most one symbol is downloaded |
| `CancelAllCoversOpenOrders` | `Spec => []CancelAllCovers` |

- `AnswersAccounted`: an order action (an order and a version the dispatcher has used)
  is in one place at most: on the wire, in an answer, or in a response. The exchange
  moves it from the first to the second, the gateway from the second to the third, and
  the dispatcher never uses a version twice. `OneAnswerPerRequest` alone says nothing
  of what is still on the wires.
- `ActionsFlow` or `ActionIssued` is what every step does to order actions
  (`ActionsStep`). `NothingDropped` is read off it: while the connection holds a request
  disappears only into an answer to it, and an answer only into a response. So
  `ActionAnswered` can only fail by an exchange that does not answer. By the same lemma
  `RequestsAsAsked` is inductive: what is on the wires says under its version what was
  asked, and the handler of a refused amendment is the only one that says otherwise.
- `OneQuery`: what is outstanding of the download is one request or its answer, for the
  state the download is in, or any number of requests for trades, also after the
  download is done. Hence a retry, which enters the state of the bad answer, enters the
  state the download is in; with that, `DownloadAwaited` is inductive: while the download
  is not done, something that moves it on is outstanding. This is the safety half of
  `SessionBecomesReady`.
- `PlacedIsKnown`: an order of this gateway has its symbol noted, or an earlier process
  requested it, before the exchange can accept it. `SnapshotCovers`: once the open
  orders were read, the symbol of each is noted, or the answer that names it is on its
  way, or it was accepted from outside since (`late`). At READY nothing of the
  kind is on its way, by `OneQuery`: `CancelAllCovers`.

`MarginStreamProofs` proves, for any bounds on tokens, failing requests and lost
connections, from no assumption on the constants:

| Theorem | Statement |
|---|---|
| `TypeCorrect` | `Spec => []TypeOK` |
| `OneDownloadAtATime` | `Spec => []OneDownloadInFlight` |
| `TokenOnlyReplacedLate` | `Spec => []TokenReplacedOnlyLate` |
| `MarginImplementsStream` | `Spec => ImplementsStream`, with retries on a lost link |
| `RestStreamNeverBlocks` | `Spec => [](FlagsAwaited /\ RestNotBlocked)` |
| `DropCopyNeverReady` | `Spec => []DropCopyWaits /\ [][dc_listen_token => dc_listen_token']_vars` |

Its inductive invariant has two parts. `RestFollows` relates the connection, the
published status, the download and the flags; it needs nothing else, and gives the
refinement. `WireInv` is about the wire and holds until a request is kept over a
reconnect: one request at most is on the wire, and on a live connection it is the
download's or the one whose flag is raised (`OneWire`; without a connection it is left
over, or the retry of a key request); there is a drop copy only if there is a listen
key, the download asks for a key only if there is none, and a key is requested only by a
drop copy without a token (`TokenInv`, `TokenNeverReplaced`). The timer therefore only
ever sends over an empty wire, and whatever may bring a new token finds the old one
given up. A retry replaces the request that failed, with a connection or without, so
that it never makes two of one. Sequences enter only as wires of no request or one, and
by the marking of `Post`, which changes no kind (`MarkedWire`).

The last two theorems do not depend on `outlived`, and look at wires of any length
(`Carries`). `FlagsAwaited` is inductive: a flag is raised with its request and lowered
by an answer of its kind, or with the connection, so that it never outlives what would
lower it. With `RestFollows` it gives the safety half of `EveryRequestResponded`: a live
stream has an answer to come or its timer is free to send. `DropCopyWaits` is the
circle of finding 3: no check without READY, no READY without a check, and no request
for the open orders without a check.

`PortfolioStreamProofs` proves, from the assumption on the constants alone:

| Theorem | Statement |
|---|---|
| `TypeCorrect` | `Spec => []TypeOK` |
| `DownloadsAreInFlight` | `Spec => []DownloadsInFlight` |
| `ReadyIsKeyed` | `Spec => []ReadyMeansKeyed` |
| `DropCopyNeverReady` | `Spec => [](dc_status # "READY")` |
| `PortfolioImplementsStream` | `Spec => ImplementsStream`, with retries on a lost link |

The invariant relates the download of the REST stream to its connection (`RestFollows`)
and to the key (`KeyFollows`: an answered key request leaves a key, a drop copy and a
renewal behind). `DropCopyWaits` says where the drop copy hangs, which makes its
requests for orders and trades disappear from the wire: the number of requests in
flight (`WireFollows`) then does not depend on the number of symbols.

`DepthProofs` proves, for any set of streams and from `Streams # {}` alone:

| Theorem | Statement |
|---|---|
| `TypeCorrect` | `Spec => []TypeOK` |
| `BookIsWhole` | `Spec => []BookHasNoHole` |
| `SnapshotIsAwaited` | `Spec => []SnapshotAwaited` |
| `BookNeverGoesBack` | `Spec => NeverGoesBack` |

The invariant (`SequencerFollows`) is that the updates the sequencer keeps follow each
other up to `mbp_last_update_id`, and that a synchronized sequencer is so up to there,
where the published book ends: hence an update that passes the check of the instrument
either continues the book or is refused by the sequencer. `SnapshotFollows` extends
`SnapshotAwaited` to a sequencer that has asked before any update was accepted.

`SubscriptionProofs` proves, from `SubscriptionAssumption` alone, for any number of
symbols and any size of the slices:

| Theorem | Statement |
|---|---|
| `TypeCorrect` | `Spec => []TypeOK` |
| `SlicesAreSubscribedOnce` | `Spec => []SliceSubscribedOnce` |
| `EverySymbolHasAStream` | `Spec => []EverySymbolHasItsStream` |
| `LowerCaseListsOnce` | `Spec => []SymbolsListedOnce`, if clients spell in lower case |
| `EachRoundAnsweredOnce` | `Spec => []OneAnswerPerRound` |
| `RestImplementsStream` | `Spec => ImplementsStream`, with retries on a lost link |

- `SymbolsListed`: the known symbols are those of the sequence the slices are cut from,
  each once (`IsInjective`), and there are as many streams of each priority as slices. A
  batch only appends what is new, so the slices are extended in place. That each symbol
  is in one slice and no other (`SlicesPartition`) is arithmetic on its index. Symbols are
  spellings here; `LowerCaseListsOnce` is the one theorem about what they spell.
- `StreamsAskOnce`: a READY stream has, on each channel, queued and sent together each
  symbol of its slice once and no other; a stream that is not READY has neither queued
  nor sent anything. What a batch adds to a slice is the part that is new, which the
  stream appends to its queue, in the step that extends the slice; what a stream has to
  ask for is what is in the slice when it gets READY. `Requested` is a concatenation
  of the queue behind what was sent, so emptying the queue into the connection does not
  change it: no induction over what sequences concatenate to is needed.
- `RoundsFollow`: one exchange info was processed for each round that is over, in order,
  and the present round is over exactly if the stream is READY, or no longer connected.

`OrderActionsProofs` proves, from `OrderActionsAssumption` alone:

| Theorem | Statement |
|---|---|
| `TypeCorrect` | `Spec => []TypeOK` |
| `TheClientIsToldTheTruth` | `Spec => []ResponsesTellTheTruth` |
| `CancelAllReachesAll` | `Spec => []CancelAllCovers` |

The invariant has two parts. `TruthInv`: the creation of an order is sent once, and is
on the wire or off it for good; it is held by the exchange only if the client was told
of a lost connection or nothing at all (`SentOnce`); the exchange has only what was
sent, and its symbol is known (`SymbolsKnown`); the answers on the wire are as true as
the responses (`AnswersTellTheTruth`). `CoverInv`: an order covered by a cancel-all that
the exchange has not processed yet is ahead of the request that cancels
it (`CoveredBehind`). As the exchange processes in order, the request that cancels it
finds it there. That one cancel-all contains a request for every known symbol and mode
(`BatchReaches`) is a pigeonhole argument on its enumeration of the symbols.

All of these invariants were checked by TLC on the instances of the runs before they
were proved.

### Only model-checked

- Liveness (`SessionBecomesReady`, `ActionAnswered`, `EveryRequestResponded`,
  `TokenReplaced`, `EverySymbolSent`, `DropCopyCreated`): fairness and ENABLED are out
  of the prover's reach.

Every invariant and every action property the passing runs check is proved as well; of
the liveness properties, `RestStreamNeverBlocks`, `DownloadNeverStalls`,
`NoActionDropped`, `DownloadsAreInFlight`, `SlicesAreSubscribedOnce` and
`SnapshotIsAwaited` are safety halves: something that leads on is always outstanding.

## What is not modelled, and why

- `Throttle`: it keeps a time that only the external clients read, behind an
  experimental flag; what they do with it is not in the repository.
- `CancelAllOrders` of `Controller`, which asks two streams in turn and stops at the
  first that is not ready: what the client is owed then is not said anywhere.
  `OrderActions` starts at one stream.
- The response FORWARDED that the dispatcher gives when a request is sent.
- In `OrderActions`: the contents of order updates, fills, and an answer 409, which the
  code asserts never to see; without assertions it is a client error.
- In `Depth`: the limit on repeated snapshot requests, after which the process ends;
  trades, tickers and candles, which are published and forgotten.
- Execution reports and balances of the two margin drop copies, and the downloads of
  the margin stream that nobody requests.
- Decoding, encoding and signing (pure functions of generated or library code),
  configuration (read once: CONSTANTS here), metrics and logging, the start-up of the
  bridges.

What is left to prove: abstract specifications of `OrderActions` (an order as its client
sees it) and of `Depth` (a book that only grows), with their refinements.
