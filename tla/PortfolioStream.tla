---------------------------- MODULE PortfolioStream ----------------------------
(***************************************************************************)
(* Portfolio margin: the REST stream gateway::OrderEntryPortfolio and the  *)
(* user data stream gateway::DropCopyPortfolio of one account.             *)
(*                                                                         *)
(* The REST stream acquires a listen key on every connection and renews it *)
(* now and then; the first key makes the controller create the drop copy,  *)
(* which keeps that key for life.  The drop copy posts what it needs (the  *)
(* account, the open orders, the trades) in the shared Request, as in      *)
(* MarginStream, and the timer of the REST stream polls and answers it.    *)
(*                                                                         *)
(* External: the two clients and the exchange.  A REST request that has no *)
(* answer may fail at any time, connected or not, with a NetworkError: at  *)
(* the loss, by its request_timeout, or because it was sent without a      *)
(* link.  Any other answer needs a connection: what is on the wire when    *)
(* the connection is back is dropped by the client or kept, and answered   *)
(* late.  A request for a listen key is answered by the valid key, or by a *)
(* new one when there is none.                                             *)
(*                                                                         *)
(* As the code is, the drop copy does not get beyond ACCOUNT: see Timer.   *)
(***************************************************************************)
EXTENDS Naturals, Sequences, FiniteSets

CONSTANTS
  DownloadSymbols,   \* symbols whose trades are downloaded (none: no lookback)
  MaxKeys,           \* bound: the last listen key does not expire
  MaxRefreshes,      \* bound: renewals of the listen key that fall due
  MaxFaults,         \* bound: requests answered by an error
  MaxLosses          \* bound: lost connections, of the two streams together

ASSUME PortfolioStreamAssumption ==
  /\ IsFiniteSet(DownloadSymbols)
  /\ MaxKeys \in Nat \ {0}
  /\ MaxRefreshes \in Nat
  /\ MaxFaults \in Nat
  /\ MaxLosses \in Nat

VARIABLES
  request,               \* the spot members of the shared Request, by kind
  \* OrderEntryPortfolio
  connection_status,     \* last published status, also what ready() reads
  ready,                 \* ready_
  download,              \* state of download_
  listen_key,            \* listen_key_, 0 when it is empty
  listen_key_refresh,    \* listen_key_refresh_: unset, armed or due
  downloads,             \* the download_..._ flags that are raised
  connected,             \* the REST connection is up
  wire,                  \* REST requests without an answer, oldest first
  outlived,              \* a request was kept when the connection was back
  \* DropCopyPortfolio
  dc_key,                \* the key of its query_, 0 before it is created
  dc_status,             \* its connection_status_
  dc_ready,              \* its ready_
  dc_download,           \* state of its download_
  dc_connected,          \* the web socket is up (Ready)
  \* the exchange, and the bounds
  issued,                \* listen keys issued, the last one being
  valid,                 \* valid until it expires
  refreshes, faults, losses

session    == <<connection_status, ready, download>>
key        == <<listen_key, listen_key_refresh>>
rest       == <<connected, wire, outlived>>
dropCopy   == <<dc_status, dc_ready, dc_download, dc_connected>>
exchange   == <<issued, valid>>
bounds     == <<refreshes, faults, losses>>
vars       == <<request, session, key, downloads, rest, dc_key, dropCopy,
                exchange, bounds>>

\* In the order in which the timer looks at them.
Kinds == <<"ACCOUNT", "ORDERS", "TRADES">>

KindSet == {Kinds[i] : i \in DOMAIN Kinds}

-----------------------------------------------------------------------------
(* OrderEntryPortfolio: the connection and the listen key *)

GetListenKey(w) == Append(w, "LISTEN_KEY")

EnterListenKeyAsLogon(w) ==
  /\ download' = "LISTEN_KEY"
  /\ connection_status' = "LOGIN_SENT"
  /\ wire' = GetListenKey(w)
  /\ UNCHANGED ready

\* download(LISTEN_KEY): the stream is always created as a master.
EnterListenKey(w) ==
  /\ download' = "LISTEN_KEY"
  /\ connection_status' = "DOWNLOADING"
  /\ wire' = GetListenKey(w)
  /\ UNCHANGED ready

\* download(DONE), which asserts that ready_ was down.
Done ==
  /\ download' = "DONE"
  /\ connection_status' = "READY"
  /\ ready' = TRUE

\* Connected: begin or, with a download still pending, bump.
OrderEntryConnected ==
  /\ ~ connected
  /\ connected' = TRUE
  /\ \E w \in {<<>>, wire} :
       /\ EnterListenKey(w)
       /\ outlived' = (outlived \/ w # <<>>)
  /\ UNCHANGED <<request, key, downloads, dc_key, dropCopy, exchange, bounds>>

UnpublishSilently == UNCHANGED connection_status /\ ready' = FALSE

Unpublish == connection_status' = "DISCONNECTED" /\ ready' = FALSE

KeepDownloads == UNCHANGED downloads

ForgetDownloads == downloads' = {}

OrderEntryDisconnected ==
  /\ connected
  /\ losses < MaxLosses
  /\ losses' = losses + 1
  /\ connected' = FALSE
  /\ Unpublish
  /\ download' = IF download = "LISTEN_KEY" THEN download ELSE "UNDEFINED"
  /\ ForgetDownloads
  /\ UNCHANGED <<request, key, wire, outlived, dc_key, dropCopy, exchange,
                 refreshes, faults>>

\* The answer to the oldest request: an error, NetworkError for one, at any time.
Answered(kind, ok) ==
  /\ wire # <<>>
  /\ Head(wire) = kind
  /\ IF ok THEN connected ELSE faults < MaxFaults
  /\ faults' = IF ok THEN faults ELSE faults + 1

\* The first key, and only the first, goes to the controller, which creates and
\* starts the drop copy.
ListenKeyUpdate(k) ==
  /\ listen_key' = k
  /\ dc_key' = IF listen_key = 0 THEN k ELSE dc_key

\* handle_error of get_listen_key_ack
GiveUp == wire' = Tail(wire) /\ UNCHANGED session

CompleteAnyway ==
  /\ wire' = Tail(wire)
  /\ IF download = "LISTEN_KEY" THEN Done ELSE UNCHANGED session

RetryListenKey ==
  IF download = "LISTEN_KEY" THEN EnterListenKey(Tail(wire))
                             ELSE wire' = Tail(wire) /\ UNCHANGED session

ListenKeyAck(ok) ==
  /\ Answered("LISTEN_KEY", ok)
  /\ IF ok
     THEN /\ valid' = IF valid = 0 THEN issued + 1 ELSE valid
          /\ issued' = IF valid = 0 THEN issued + 1 ELSE issued
          /\ ListenKeyUpdate(valid')
          /\ listen_key_refresh' = "armed"
          /\ wire' = Tail(wire)
          /\ IF download = "LISTEN_KEY" THEN Done ELSE UNCHANGED session
     ELSE /\ RetryListenKey
          /\ UNCHANGED <<key, dc_key, exchange>>
  /\ UNCHANGED <<request, downloads, connected, outlived, dropCopy, refreshes,
                 losses>>

\* Time: the renewal falls due, the key expires.
RefreshDue ==
  /\ listen_key_refresh = "armed"
  /\ refreshes < MaxRefreshes
  /\ refreshes' = refreshes + 1
  /\ listen_key_refresh' = "due"
  /\ UNCHANGED <<request, session, listen_key, downloads, rest, dc_key, dropCopy,
                 exchange, faults, losses>>

KeyExpires ==
  /\ valid # 0
  /\ issued < MaxKeys
  /\ valid' = 0
  /\ UNCHANGED <<request, session, key, downloads, rest, dc_key, dropCopy, issued,
                 bounds>>

-----------------------------------------------------------------------------
(* Request: "requested" is respond < request, "responded" the converse *)

Post(kind) == request' = [request EXCEPT ![kind] = "requested"]

Responded(kind) == request' = [request EXCEPT ![kind] = "responded"]

\* Success and error alike are a response, and lower the flag.
DownloadAck(kind, ok) ==
  /\ Answered(kind, ok)
  /\ Responded(kind)
  /\ downloads' = downloads \ {kind}
  /\ wire' = Tail(wire)
  /\ UNCHANGED <<session, key, connected, outlived, dc_key, dropCopy, exchange,
                 refreshes, losses>>

AccountAck(ok) == DownloadAck("ACCOUNT", ok)

OpenOrdersAck(ok) == DownloadAck("ORDERS", ok)

\* The answer for one symbol, of however many were asked for.
TradesAck(ok) == DownloadAck("TRADES", ok)

-----------------------------------------------------------------------------
(* DropCopyPortfolio *)

\* download(...): the trades are skipped when there are none to download.
DcEnter(state) ==
  /\ dc_download' = state
  /\ dc_status' = IF state = "DONE" THEN "READY" ELSE "DOWNLOADING"
  /\ dc_ready' = (dc_ready \/ state = "DONE")
  /\ IF state = "DONE" THEN UNCHANGED request ELSE Post(state)

DropCopyReady ==
  /\ dc_key # 0
  /\ ~ dc_connected
  /\ dc_connected' = TRUE
  /\ DcEnter("ACCOUNT")
  /\ UNCHANGED <<session, key, downloads, rest, dc_key, exchange, bounds>>

DropCopyDisconnected ==
  /\ dc_connected
  /\ losses < MaxLosses
  /\ losses' = losses + 1
  /\ dc_connected' = FALSE
  /\ dc_status' = "DISCONNECTED"
  /\ dc_ready' = FALSE
  /\ dc_download' = "UNDEFINED"
  /\ UNCHANGED <<request, session, key, downloads, rest, dc_key, exchange,
                 refreshes, faults>>

\* The state that follows when the response to the one the download is in is
\* later than the request.
DcChecks ==
  LET next == CASE dc_download = "ACCOUNT" -> "ORDERS"
                [] dc_download = "ORDERS" /\ DownloadSymbols # {} -> "TRADES"
                [] OTHER -> "DONE"
  IN  IF dc_download \in KindSet /\ request[dc_download] = "responded"
      THEN DcEnter(next)
      ELSE UNCHANGED <<request, dc_status, dc_ready, dc_download>>

-----------------------------------------------------------------------------
(* Timer: the controller dispatches it to the REST stream and then to the  *)
(* drop copy, all of whose checks are guarded by ready().                  *)

RefreshListenKey == ready /\ listen_key_refresh = "due"

\* The kinds that are requested, the first one only, as it raises a flag.
PollsAlways == {Kinds[i] : i \in {j \in DOMAIN Kinds :
  /\ connection_status = "READY"
  /\ request[Kinds[j]] = "requested"
  /\ \A h \in 1 .. (j - 1) : request[Kinds[h]] # "requested"}}

Polls == {Kinds[i] : i \in {j \in DOMAIN Kinds :
  /\ connection_status = "READY"
  /\ downloads = {}
  /\ request[Kinds[j]] = "requested"
  /\ \A h \in 1 .. (j - 1) : request[Kinds[h]] # "requested"}}

\* One request for each symbol whose trades are downloaded.
Queries(kind) ==
  IF kind = "TRADES" THEN [i \in 1 .. Cardinality(DownloadSymbols) |-> kind] ELSE <<kind>>

Timer ==
  /\ LET w == IF RefreshListenKey THEN GetListenKey(wire) ELSE wire
     IN  wire' = IF Polls = {} THEN w ELSE w \o Queries(CHOOSE kind \in Polls : TRUE)
  /\ listen_key_refresh' = IF RefreshListenKey THEN "armed" ELSE listen_key_refresh
  /\ downloads' = downloads \cup Polls
  /\ IF dc_status = "READY"
     THEN DcChecks
     ELSE UNCHANGED <<request, dc_status, dc_ready, dc_download>>
  /\ UNCHANGED <<session, listen_key, connected, outlived, dc_key, dc_connected,
                 exchange, bounds>>

-----------------------------------------------------------------------------
Init ==
  /\ request = [kind \in KindSet |-> "none"]
  /\ connection_status = "UNDEFINED"
  /\ ready = FALSE
  /\ download = "UNDEFINED"
  /\ listen_key = 0
  /\ listen_key_refresh = "unset"
  /\ downloads = {}
  /\ connected = FALSE
  /\ wire = <<>>
  /\ outlived = FALSE
  /\ dc_key = 0
  /\ dc_status = "UNDEFINED"
  /\ dc_ready = FALSE
  /\ dc_download = "UNDEFINED"
  /\ dc_connected = FALSE
  /\ issued = 0
  /\ valid = 0
  /\ refreshes = 0
  /\ faults = 0
  /\ losses = 0

RestAnswers ==
  \E ok \in BOOLEAN :
    \/ ListenKeyAck(ok)
    \/ AccountAck(ok)
    \/ OpenOrdersAck(ok)
    \/ TradesAck(ok)

Next ==
  \/ OrderEntryConnected
  \/ OrderEntryDisconnected
  \/ RestAnswers
  \/ RefreshDue
  \/ KeyExpires
  \/ DropCopyReady
  \/ DropCopyDisconnected
  \/ Timer

Spec == Init /\ [][Next]_vars

\* The clients reconnect, the exchange answers and the timer ticks.
FairSpec ==
  /\ Spec
  /\ WF_vars(OrderEntryConnected)
  /\ WF_vars(RestAnswers)
  /\ WF_vars(DropCopyReady)
  /\ WF_vars(Timer)

-----------------------------------------------------------------------------
(* Properties *)

TypeOK ==
  /\ request \in [KindSet -> {"none", "requested", "responded"}]
  /\ connection_status \in {"UNDEFINED", "DISCONNECTED", "DOWNLOADING", "READY"}
  /\ ready \in BOOLEAN
  /\ download \in {"UNDEFINED", "LISTEN_KEY", "DONE"}
  /\ listen_key \in Nat
  /\ listen_key_refresh \in {"unset", "armed", "due"}
  /\ downloads \subseteq KindSet
  /\ connected \in BOOLEAN
  /\ wire \in Seq(KindSet \cup {"LISTEN_KEY"})
  /\ outlived \in BOOLEAN
  /\ dc_key \in Nat
  /\ dc_status \in {"UNDEFINED", "DISCONNECTED", "DOWNLOADING", "READY"}
  /\ dc_ready \in BOOLEAN
  /\ dc_download \in {"UNDEFINED", "DONE"} \cup KindSet
  /\ dc_connected \in BOOLEAN
  /\ issued \in Nat
  /\ valid \in Nat
  /\ refreshes \in Nat
  /\ faults \in Nat
  /\ losses \in Nat

\* Whatever is requested, refreshed or lost: a raised download flag has a
\* request in flight whose answer lowers it, so that the stream is never stuck;
\* and one download is in flight at a time, unless a request is kept over a
\* reconnect.
DownloadsInFlight ==
  LET positions == {i \in DOMAIN wire : wire[i] # "LISTEN_KEY"}
  IN  /\ downloads \subseteq {wire[i] : i \in positions}
      /\ outlived \/ Cardinality(positions) <= 1

\* The REST stream is ready_ only with nothing left of its download (as it
\* asserts before it raises the flag), a key the drop copy was created for,
\* and a renewal of that key scheduled, late answers and retries included.
ReadyMeansKeyed ==
  ready => /\ download = "DONE"
           /\ listen_key # 0
           /\ dc_key # 0
           /\ listen_key_refresh # "unset"

\* The REST stream is READY only on a live connection for which it has asked
\* for, and been given, a listen key; a request for it that fails at the loss, or
\* later, is retried without a connection, and DOWNLOADING published.
Stream ==
  INSTANCE StreamLifecycle WITH
    RetriesUnlinked <- TRUE,
    linked <- connected,
    status <- CASE connection_status \in {"UNDEFINED", "DISCONNECTED"} -> "IDLE"
                [] connection_status = "DOWNLOADING" -> "BUSY"
                [] OTHER -> "READY",
    downloaded <- download = "DONE"

ImplementsStream == Stream!Spec

\* Liveness: what the drop copy requests is responded to, by success or error,
\* also when either connection is lost with the request in flight.
EveryRequestResponded ==
  \A kind \in KindSet : request[kind] = "requested" ~> request[kind] # "requested"

\* Liveness: the drop copy is created in the end, whichever requests for the
\* first key fail or are lost.
DropCopyCreated == <>(dc_key # 0)

=============================================================================
