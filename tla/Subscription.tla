----------------------------- MODULE Subscription -----------------------------
(***************************************************************************)
(* From the symbols the gateway learns of to the channels it is subscribed *)
(* to: gateway::Rest (the exchange info), gateway::Controller (what the    *)
(* clients subscribe to, the market data streams), gateway::Shared (the    *)
(* symbols) and gateway::MarketData (one stream per slice of the symbols,  *)
(* and a second one as back-up).                                           *)
(*                                                                         *)
(* Symbols arrive in batches while any stream may be up, down or not even  *)
(* created: a stream that is READY when a batch arrives must queue just    *)
(* the new part of its slice, any other its whole slice once it is READY.  *)
(*                                                                         *)
(* A symbol is known by a spelling of its name.  The exchange info is kept  *)
(* in lower case, what a client subscribes to as it comes: a client that    *)
(* uses the name that was published makes another symbol of it.             *)
(*                                                                         *)
(* External: core::Symbols (the vector of symbols and its slices),         *)
(* core::limit::Queue (a timer sends as much of the queue as the rate      *)
(* limit allows), core::Download2, the clients of both connections and the *)
(* exchange.  A REST request that has no answer may fail at any time,      *)
(* connected or not, with a NetworkError: at the loss, by its              *)
(* request_timeout, or because it was sent without a link.  Any other      *)
(* answer needs a connection: what is on the wire when the connection is   *)
(* back is dropped by the client or kept, and answered late, as            *)
(* download_.skip provides for.                                            *)
(***************************************************************************)
EXTENDS Naturals, Sequences, FiniteSets, SequencesExt

CONSTANTS
  Symbols,           \* the spellings of the names of symbols
  normalized_symbol, \* each of them in lower case
  Listed,            \* as the exchange spells them, and they are published
  Discarded,         \* those the dispatcher does not want (discard_symbol)
  ClientSymbols,     \* as the clients spell them
  MaxSubscriptions,  \* settings.ws.max_subscriptions_per_stream
  EnableSecondary,   \* settings.ws.enable_secondary
  TimeSeries,        \* settings.download.time_series_lookback is not zero
  MaxFaults,         \* bound: exchange info requests answered by an error
  MaxLosses,         \* bound: lost connections
  MaxUpdates         \* bound: Subscribe events

ASSUME SubscriptionAssumption ==
  /\ IsFiniteSet(Symbols)
  /\ normalized_symbol \in [Symbols -> Symbols]
  /\ \A s \in Symbols : normalized_symbol[normalized_symbol[s]] = normalized_symbol[s]
  /\ Listed \subseteq Symbols
  /\ Discarded \subseteq Listed
  /\ ClientSymbols \subseteq Symbols
  /\ MaxSubscriptions \in Nat \ {0}
  /\ EnableSecondary \in BOOLEAN
  /\ TimeSeries \in BOOLEAN
  /\ MaxFaults \in Nat
  /\ MaxLosses \in Nat
  /\ MaxUpdates \in Nat

VARIABLES
  \* Shared
  all_symbols,        \* all_symbols
  symbols,            \* symbols, in the order in which they were added
  \* Controller: the streams of a priority by index, each with its
  \* connection_status_ and subscribe_queue_, and what it has sent on its
  \* present connection
  market_data,        \* [Priorities -> Seq(Stream)]
  \* Rest
  connection_status,  \* connection_status_
  ready,              \* ready_
  download,           \* state of download_
  sequence,           \* its sequence: one for each round
  processed,          \* sequences of the answers that were processed
  connected,          \* the REST connection is up
  wire,               \* exchange info requests in flight: their sequences
  \* bounds
  faults, losses, updates

shared == <<all_symbols, symbols>>
rest   == <<connection_status, ready, download, sequence, processed, connected, wire>>
bounds == <<faults, losses, updates>>
vars   == <<shared, market_data, rest, bounds>>

Priorities == IF EnableSecondary THEN {"PRIMARY", "SECONDARY"} ELSE {"PRIMARY"}

-----------------------------------------------------------------------------
(* core::Symbols and MarketData::subscribe *)

Slices(n) == (n + MaxSubscriptions - 1) \div MaxSubscriptions

\* The part of slice i (from 1) of the sequence s that follows position start.
SliceFromItsStart(s, i, start) ==
  SubSeq(s, (i - 1) * MaxSubscriptions + 1,
            IF i * MaxSubscriptions < Len(s) THEN i * MaxSubscriptions ELSE Len(s))

Slice(s, i, start) ==
  LET first == (i - 1) * MaxSubscriptions
      last  == i * MaxSubscriptions
  IN  SubSeq(s, (IF start > first THEN start ELSE first) + 1,
                IF last < Len(s) THEN last ELSE Len(s))

\* One message per channel, for all of the symbols.
Channels(priority) ==
  (IF priority = "PRIMARY" THEN <<"trade", "miniTicker">> ELSE <<>>)
    \o <<"bookTicker", "depth">>
    \o (IF TimeSeries THEN <<"kline_1m">> ELSE <<>>)

MessagesOfAnything(priority, slice) ==
  [k \in DOMAIN Channels(priority) |->
    [channel |-> Channels(priority)[k], symbols |-> slice]]

Messages(priority, slice) ==
  IF slice = <<>> THEN <<>>
  ELSE [k \in DOMAIN Channels(priority) |->
         [channel |-> Channels(priority)[k], symbols |-> slice]]

NewStream == [status |-> "UNDEFINED", queue |-> <<>>, sent |-> <<>>]

-----------------------------------------------------------------------------
(* Controller: SymbolsUpdate, with the streams that are READY subscribing to *)
(* what is new and the streams that are missing created                      *)

Grown(priority, s, start) ==
  [i \in 1..(IF Slices(Len(s)) > Len(market_data[priority])
             THEN Slices(Len(s)) ELSE Len(market_data[priority])) |->
    IF i > Len(market_data[priority])
    THEN NewStream
    ELSE LET stream == market_data[priority][i]
         IN  IF stream.status = "READY"
             THEN [stream EXCEPT !.queue = @ \o Messages(priority, Slice(s, i, start))]
             ELSE stream]

SymbolsUpdateLosesSecondary(new) ==
  LET s == symbols \o SetToSeq(new)
  IN  /\ symbols' = s
      /\ market_data' = [market_data EXCEPT !["PRIMARY"] =
                           Grown("PRIMARY", s, Len(symbols))]

SymbolsUpdate(new) ==
  LET s == symbols \o SetToSeq(new)
  IN  /\ symbols' = s
      /\ market_data' = [p \in Priorities |-> Grown(p, s, Len(symbols))]

\* Only what is not known yet is passed on.
LearnTwice(wanted) ==
  /\ all_symbols' = all_symbols \cup wanted
  /\ SymbolsUpdate(wanted)

Learn(wanted) ==
  /\ all_symbols' = all_symbols \cup wanted
  /\ SymbolsUpdate(wanted \ all_symbols)

\* Event<Subscribe>: the symbols as the client spells them.
Subscribe(wanted) ==
  /\ updates < MaxUpdates
  /\ updates' = updates + 1
  /\ Learn(wanted)
  /\ UNCHANGED <<rest, faults, losses>>

-----------------------------------------------------------------------------
(* Rest *)

\* download(EXCHANGE_INFO)
EnterExchangeInfo(w, seq) ==
  /\ download' = "EXCHANGE_INFO"
  /\ connection_status' = "DOWNLOADING"
  /\ wire' = Append(w, seq)

\* Connected: begin or, with the download still pending, bump.
RestConnected ==
  /\ ~ connected
  /\ connected' = TRUE
  /\ sequence' = IF download = "EXCHANGE_INFO" THEN sequence ELSE sequence + 1
  /\ \E w \in {<<>>, wire} : EnterExchangeInfo(w, sequence')
  /\ UNCHANGED <<ready, processed, shared, market_data, bounds>>

RestDisconnectedSilently ==
  /\ connected
  /\ losses < MaxLosses
  /\ losses' = losses + 1
  /\ connected' = FALSE
  /\ ready' = FALSE
  /\ download' = IF download = "EXCHANGE_INFO" THEN download ELSE "UNDEFINED"
  /\ UNCHANGED <<connection_status, wire, sequence, processed, shared, market_data,
                 faults, updates>>

RestDisconnected ==
  /\ connected
  /\ losses < MaxLosses
  /\ losses' = losses + 1
  /\ connected' = FALSE
  /\ ready' = FALSE
  /\ connection_status' = "DISCONNECTED"
  /\ download' = IF download = "EXCHANGE_INFO" THEN download ELSE "UNDEFINED"
  /\ UNCHANGED <<wire, sequence, processed, shared, market_data, faults, updates>>

\* download_.skip: the state has been completed since, or the round is over.
SkipNothing(seq) == FALSE
Skip(seq) == download # "EXCHANGE_INFO" \/ seq # sequence

\* get_exchange_info_ack, for the k-th request in flight: an error, NetworkError
\* for one, may come at any time and is retried while the download is pending.
ExchangeInfoError(k) ==
  /\ faults < MaxFaults
  /\ faults' = faults + 1
  /\ IF download = "EXCHANGE_INFO"
     THEN EnterExchangeInfo(RemoveAt(wire, k), sequence)
     ELSE /\ wire' = RemoveAt(wire, k)
          /\ UNCHANGED <<connection_status, download>>
  /\ UNCHANGED <<ready, sequence, processed, connected, shared,
                 market_data, losses, updates>>

Normalized(names) == {normalized_symbol[s] : s \in names}

\* The exchange lists these symbols; a message without new ones goes no further
\* than Rest.
ExchangeInfoAck(k, listed) ==
  /\ connected
  /\ wire' = RemoveAt(wire, k)
  /\ IF Skip(wire[k])
     THEN UNCHANGED <<shared, market_data, processed, download, connection_status, ready>>
     ELSE /\ processed' = Append(processed, wire[k])
          /\ IF Normalized(listed \ Discarded) \subseteq all_symbols
             THEN UNCHANGED <<shared, market_data>>
             ELSE Learn(Normalized(listed \ Discarded))
          /\ download' = "DONE"
          /\ connection_status' = "READY"
          /\ ready' = TRUE
  /\ UNCHANGED <<sequence, connected, bounds>>

-----------------------------------------------------------------------------
(* MarketData, one stream *)

Streams(p) == 1..Len(market_data[p])

ReadyWaits(p, i) ==
  /\ i \in Streams(p)
  /\ market_data[p][i].status # "READY"
  /\ market_data' = [market_data EXCEPT ![p][i].status = "READY"]
  /\ UNCHANGED <<shared, rest, bounds>>

Ready(p, i) ==
  /\ i \in Streams(p)
  /\ market_data[p][i].status # "READY"
  /\ market_data' = [market_data EXCEPT ![p][i].status = "READY",
                       ![p][i].queue = @ \o Messages(p, Slice(symbols, i, 0))]
  /\ UNCHANGED <<shared, rest, bounds>>

\* Lost, or closed by the stream upon a server shutdown message.
DisconnectedKeepsQueue(stream) == [stream EXCEPT !.status = "DISCONNECTED", !.sent = <<>>]
DisconnectedStream(stream) ==
  [stream EXCEPT !.status = "DISCONNECTED", !.sent = <<>>, !.queue = <<>>]

Disconnected(p, i) ==
  /\ i \in Streams(p)
  /\ market_data[p][i].status = "READY"
  /\ losses < MaxLosses
  /\ losses' = losses + 1
  /\ market_data' = [market_data EXCEPT ![p][i] = DisconnectedStream(@)]
  /\ UNCHANGED <<shared, rest, faults, updates>>

\* Timer: messages leave the queue, as many as the rate limit allows.
Timer(p, i) ==
  /\ i \in Streams(p)
  /\ market_data[p][i].status = "READY"
  /\ \E n \in DOMAIN market_data[p][i].queue :
       market_data' = [market_data EXCEPT
         ![p][i].queue = SubSeq(@, n + 1, Len(@)),
         ![p][i].sent = @ \o SubSeq(market_data[p][i].queue, 1, n)]
  /\ UNCHANGED <<shared, rest, bounds>>

-----------------------------------------------------------------------------
Init ==
  /\ all_symbols = {}
  /\ symbols = <<>>
  /\ market_data = [p \in Priorities |-> <<>>]
  /\ connection_status = "UNDEFINED"
  /\ ready = FALSE
  /\ download = "UNDEFINED"
  /\ sequence = 0
  /\ processed = <<>>
  /\ connected = FALSE
  /\ wire = <<>>
  /\ faults = 0
  /\ losses = 0
  /\ updates = 0

RestAnswered ==
  \E k \in DOMAIN wire :
    ExchangeInfoError(k) \/ \E listed \in SUBSET Listed : ExchangeInfoAck(k, listed)

\* No stream has a higher index.
Indices == 1..Slices(Cardinality(Symbols))

Next ==
  \/ RestConnected
  \/ RestDisconnected
  \/ RestAnswered
  \/ \E wanted \in SUBSET ClientSymbols : Subscribe(wanted)
  \/ \E p \in Priorities, i \in Indices :
       Ready(p, i) \/ Disconnected(p, i) \/ Timer(p, i)

Spec == Init /\ [][Next]_vars

\* Streams reconnect and the rate limiter lets their queues drain.
FairSpec ==
  /\ Spec
  /\ \A p \in Priorities, i \in Indices : WF_vars(Ready(p, i)) /\ WF_vars(Timer(p, i))

-----------------------------------------------------------------------------
(* Properties *)

\* assert(!std::empty(symbols))
MessageType(p) ==
  [channel : {Channels(p)[k] : k \in DOMAIN Channels(p)},
   symbols : Seq(Symbols) \ {<<>>}]

TypeOK ==
  /\ all_symbols \subseteq Symbols
  /\ symbols \in Seq(Symbols)
  /\ DOMAIN market_data = Priorities
  /\ \A p \in Priorities :
       market_data[p] \in Seq([status : {"UNDEFINED", "READY", "DISCONNECTED"},
                              queue : Seq(MessageType(p)),
                              sent : Seq(MessageType(p))])
  /\ connection_status \in {"UNDEFINED", "DOWNLOADING", "READY", "DISCONNECTED"}
  /\ ready \in BOOLEAN
  /\ download \in {"UNDEFINED", "EXCHANGE_INFO", "DONE"}
  /\ sequence \in Nat
  /\ processed \in Seq(Nat)
  /\ connected \in BOOLEAN
  /\ wire \in Seq(Nat)
  /\ faults \in Nat /\ losses \in Nat /\ updates \in Nat

\* What a stream has subscribed to on its present connection, or is about to.
Requested(stream) == stream.sent \o stream.queue

On(stream, channel) ==
  {j \in DOMAIN Requested(stream) : Requested(stream)[j].channel = channel}

\* On a channel these symbols are requested, each of them once.
EachOnce(stream, channel, wanted) ==
  LET asked(j) == Requested(stream)[j].symbols
      on == On(stream, channel)
  IN  /\ UNION {ToSet(asked(j)) : j \in on} = wanted
      /\ \A j \in on : IsInjective(asked(j))
      /\ \A j, k \in on : j # k => ToSet(asked(j)) \cap ToSet(asked(k)) = {}

\* Whatever the order in which symbols, connections and timers come, on its
\* present connection a stream subscribes to each symbol of its slice once for
\* each channel and to nothing else; what was queued for a lost connection does
\* not leak into the next.
SliceSubscribedOnce ==
  \A p \in Priorities : \A i \in Streams(p) :
    market_data[p][i].status = "READY" =>
      \A k \in DOMAIN Channels(p) :
        EachOnce(market_data[p][i], Channels(p)[k], ToSet(Slice(symbols, i, 0)))

\* However the batches of clients and exchange overlap, a symbol, by the spelling
\* in which it became known, falls in the slice of exactly one stream of each
\* priority, once; and the streams have slices of known symbols, none of them empty.
EverySymbolHasItsStream ==
  \A p \in Priorities :
    LET slice(i) == Slice(symbols, i, 0)
    IN  /\ \A s \in all_symbols :
             \E i \in Streams(p) : {j \in Streams(p) : s \in ToSet(slice(j))} = {i}
        /\ \A i \in Streams(p) : /\ slice(i) # <<>>
                                 /\ IsInjective(slice(i))
                                 /\ ToSet(slice(i)) \subseteq all_symbols

\* Of each round Rest processes one answer, whatever is asked again, fails or
\* comes late, and it is READY exactly once it has processed that of its present
\* round.  (The callback for DONE asserts !ready_.)
OneAnswerPerRound ==
  /\ \A i \in DOMAIN processed : processed[i] = i
  /\ connection_status = "READY" => Len(processed) = sequence
  /\ ready <=> connection_status = "READY"

\* Rest is a stream; a request for the exchange info that fails at the loss, or
\* later, is retried without a connection, and DOWNLOADING published.
Stream ==
  INSTANCE StreamLifecycle WITH
    RetriesUnlinked <- TRUE,
    linked <- connected,
    status <- CASE connection_status \in {"UNDEFINED", "DISCONNECTED"} -> "IDLE"
                [] connection_status = "DOWNLOADING" -> "BUSY"
                [] OTHER -> "READY",
    downloaded <- download = "DONE"

ImplementsStream == Stream!Spec

\* Liveness: once the connections hold and no more symbols come, every known
\* symbol has been sent, and stays sent, on every channel of the stream of its
\* slice, of both priorities.
Sent(p, s) ==
  \E i \in Streams(p) : \A k \in DOMAIN Channels(p) :
    \E m \in ToSet(market_data[p][i].sent) :
      m.channel = Channels(p)[k] /\ s \in ToSet(m.symbols)

EverySymbolSent == <>[](\A p \in Priorities, s \in all_symbols : Sent(p, s))

=============================================================================
