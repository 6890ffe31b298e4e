----------------------------- MODULE MarginStream -----------------------------
(***************************************************************************)
(* Cross margin: the REST stream gateway::OrderEntryMargin and the user    *)
(* data stream gateway::DropCopyMargin of one account.                     *)
(*                                                                         *)
(* The two streams never call each other.  DropCopyMargin posts what it    *)
(* needs (a listen token, the account, the open orders) as request times   *)
(* in the shared Request of the account; the timer of OrderEntryMargin     *)
(* polls these, sends one REST request at a time and posts response times; *)
(* the timer of DropCopyMargin compares the two.  A new listen token       *)
(* travels the other way, through the controller, which creates the drop   *)
(* copy when there is none.                                                *)
(*                                                                         *)
(* Request times are only ever compared with response times, and an event  *)
(* has a time of its own: all that matters is which of the two was written *)
(* last.                                                                   *)
(*                                                                         *)
(* External: the two clients and the exchange.  A REST request that has no *)
(* answer may fail at any time, connected or not, with a NetworkError: at  *)
(* the loss, by its request_timeout, or because it was sent without a      *)
(* link.  Any other answer needs a connection: what is on the wire when    *)
(* the connection is back is dropped by the client or kept, and answered   *)
(* late (Rest allows for late answers by download_.skip).                  *)
(***************************************************************************)
EXTENDS Naturals, Sequences, FiniteSets

CONSTANTS
  DownloadBorrowed,  \* settings.rest.download_borrowed_freq is not zero
  MaxTokens,         \* bound: no event stream ends after that many tokens
  MaxFaults,         \* bound: requests answered by an error
  MaxLosses          \* bound: lost connections, of the two streams together

ASSUME MarginStreamAssumption ==
  /\ DownloadBorrowed \in BOOLEAN
  /\ MaxTokens \in Nat \ {0}
  /\ MaxFaults \in Nat
  /\ MaxLosses \in Nat

VARIABLES
  request,               \* the shared Request, by kind
  \* OrderEntryMargin
  connection_status,     \* last published status, also what ready() reads
  ready,                 \* ready_
  download,              \* state of download_
  has_listen_key_cross,  \* has_listen_key_cross_
  downloads,             \* the download_..._ flags that are raised
  connected,             \* the REST connection is up
  wire,                  \* REST requests without an answer, oldest first
  outlived,              \* a request was kept when the connection was back
  \* DropCopyMargin
  drop_copy,             \* the controller has created the stream
  listen_token,          \* listen_token_, 0 when it is empty
  dc_status,             \* its connection_status_
  dc_ready,              \* its ready_
  dc_download,           \* state of its download_
  dc_listen_token,       \* its download_listen_token_
  dc_connected,          \* the web socket is up (Ready)
  dc_suspended,          \* suspend_for(60s) is in force
  dc_closing,            \* the gateway is closing it
  dc_wire,               \* its requests without an answer
  \* the exchange, and the bounds
  issued,                \* listen tokens issued, the last one being
  valid,                 \* valid until it is revoked
  subscribed,            \* the web socket receives the user data stream
  faults, losses,
  downloaded             \* kinds downloaded in full since last requested

orderEntry == <<connection_status, ready, download, has_listen_key_cross, downloads>>
dropCopy   == <<drop_copy, listen_token, dc_status, dc_ready, dc_download,
                dc_listen_token>>
socket     == <<dc_connected, dc_suspended, dc_closing, dc_wire, subscribed>>
exchange   == <<issued, valid>>
bounds     == <<faults, losses>>
vars       == <<request, orderEntry, connected, wire, outlived, dropCopy, socket,
                exchange, bounds, downloaded>>

Kinds == {"LISTEN_KEY", "ACCOUNT", "ORDERS"}

-----------------------------------------------------------------------------
(* Request: "requested" is respond < request, "responded" the converse *)

\* What is in flight, w, was sent for an earlier request.
Post(kind, w) ==
  /\ request' = [request EXCEPT ![kind] = "requested"]
  /\ downloaded' = downloaded \ {kind}
  /\ wire' = [i \in DOMAIN w |->
                [w[i] EXCEPT !.current = @ /\ w[i].kind # kind]]

Responded(kind) == request' = [request EXCEPT ![kind] = "responded"]

-----------------------------------------------------------------------------
(* OrderEntryMargin *)

RestQuery(kind) == [kind |-> kind, current |-> TRUE]

\* download(LISTEN_KEY): nothing to wait for when the key is known, so that the
\* callback for DONE follows at once.  (The code asserts that ready_ was down.)
Done ==
  /\ download' = "DONE"
  /\ connection_status' = "READY"
  /\ ready' = TRUE

EnterListenKeyAsLogon(w) ==
  IF has_listen_key_cross
  THEN Done /\ wire' = w
  ELSE /\ download' = "LISTEN_KEY"
       /\ connection_status' = "LOGIN_SENT"
       /\ wire' = Append(w, RestQuery("LISTEN_KEY"))
       /\ UNCHANGED ready

EnterListenKey(w) ==
  IF has_listen_key_cross
  THEN Done /\ wire' = w
  ELSE /\ download' = "LISTEN_KEY"
       /\ connection_status' = "DOWNLOADING"
       /\ wire' = Append(w, RestQuery("LISTEN_KEY"))
       /\ UNCHANGED ready

\* Connected: begin or, with a download still pending, bump.
OrderEntryConnected ==
  /\ ~ connected
  /\ connected' = TRUE
  /\ \E w \in {<<>>, wire} :
       /\ EnterListenKey(w)
       /\ outlived' = (outlived \/ w # <<>>)
  /\ UNCHANGED <<request, has_listen_key_cross, downloads, dropCopy,
                 socket, exchange, bounds, downloaded>>

ForgetNoDownloads == UNCHANGED downloads
ForgetDownloads == downloads' = {}

UnpublishSilently == ready' = FALSE /\ UNCHANGED connection_status
Unpublish == ready' = FALSE /\ connection_status' = "DISCONNECTED"

OrderEntryDisconnected ==
  /\ connected
  /\ losses < MaxLosses
  /\ losses' = losses + 1
  /\ connected' = FALSE
  /\ Unpublish
  /\ download' = IF download = "LISTEN_KEY" THEN download ELSE "UNDEFINED"
  /\ ForgetDownloads
  /\ UNCHANGED <<request, has_listen_key_cross, wire, outlived, dropCopy,
                 socket, exchange, faults, downloaded>>

\* What the timer sends: the first kind, in this order, that is requested; when
\* there is none, and it is due, the account again for the borrowed amounts.
Pending(kind) == request[kind] = "requested"

Polled(due) ==
  CASE Pending("LISTEN_KEY") -> {"LISTEN_KEY"}
    [] ~ Pending("LISTEN_KEY") /\ Pending("ACCOUNT") -> {"ACCOUNT"}
    [] ~ Pending("LISTEN_KEY") /\ ~ Pending("ACCOUNT") /\ Pending("ORDERS") -> {"ORDERS"}
    [] OTHER -> IF DownloadBorrowed /\ due THEN {"BORROWED"} ELSE {}

PollsWhileDownloading(due) ==
  IF connection_status = "READY" THEN Polled(due) ELSE {}

Polls(due) ==
  IF connection_status = "READY" /\ downloads = {} THEN Polled(due) ELSE {}

\* The answer to the oldest request: an error, NetworkError for one, at any time.
Answered(kind, ok) ==
  /\ wire # <<>>
  /\ Head(wire).kind = kind
  /\ IF ok THEN connected ELSE faults < MaxFaults
  /\ faults' = IF ok THEN faults ELSE faults + 1
  /\ downloads' = downloads \ {kind}

-----------------------------------------------------------------------------
(* Controller: a new listen token creates the drop copy or is handed to it *)

\* DropCopyMargin asserts that its token is empty, stores the new one and
\* resumes the connection.
ListenKeyUpdate(token) ==
  /\ drop_copy' = TRUE
  /\ listen_token' = token
  /\ dc_suspended' = FALSE
  /\ UNCHANGED <<dc_status, dc_ready, dc_download, dc_listen_token>>

ListenKeyAck(ok) ==
  /\ Answered("LISTEN_KEY", ok)
  /\ Responded("LISTEN_KEY")
  /\ IF ok
     THEN /\ issued' = issued + 1
          /\ valid' = issued + 1
          /\ ListenKeyUpdate(issued + 1)
          /\ has_listen_key_cross' = TRUE
          /\ wire' = Tail(wire)
          /\ IF download = "LISTEN_KEY"
             THEN Done
             ELSE UNCHANGED <<download, connection_status, ready>>
     ELSE /\ IF download = "LISTEN_KEY"
             THEN EnterListenKey(Tail(wire))
             ELSE /\ wire' = Tail(wire)
                  /\ UNCHANGED <<download, connection_status, ready>>
          /\ UNCHANGED <<has_listen_key_cross, dropCopy, dc_suspended, exchange>>
  /\ UNCHANGED <<outlived, connected, dc_connected, dc_closing, dc_wire,
                 subscribed, losses, downloaded>>

\* Account and open orders: an error is posted as a response too.
DownloadAck(kind, ok) ==
  /\ Answered(kind, ok)
  /\ Responded(kind)
  /\ downloaded' = IF ok /\ Head(wire).current THEN downloaded \cup {kind}
                                               ELSE downloaded
  /\ wire' = Tail(wire)
  /\ UNCHANGED <<outlived, connection_status, ready, download,
                 has_listen_key_cross, connected, dropCopy, socket, exchange,
                 losses>>

\* The borrowed amounts, not the balances, are published; and the response is
\* posted as one for the account.
BorrowedAck(ok) ==
  /\ Answered("BORROWED", ok)
  /\ Responded("ACCOUNT")
  /\ wire' = Tail(wire)
  /\ UNCHANGED <<outlived, connection_status, ready, download,
                 has_listen_key_cross, connected, dropCopy, socket, exchange,
                 losses, downloaded>>

-----------------------------------------------------------------------------
(* DropCopyMargin *)

DcQuery(type) == [type |-> type, token |-> listen_token]

\* The callback of download_: the requests for the account and the orders are
\* posted, the others are sent.
DcEnter(state) ==
  /\ dc_download' = state
  /\ dc_status' = CASE state = "SESSION_LOGON" -> "LOGIN_SENT"
                    [] state = "DONE" -> "READY"
                    [] OTHER -> "DOWNLOADING"
  /\ dc_ready' = (dc_ready \/ state = "DONE")

DropCopyReady ==
  /\ drop_copy
  /\ ~ dc_connected
  /\ ~ dc_suspended
  /\ dc_connected' = TRUE
  /\ DcEnter("SESSION_LOGON")
  /\ dc_wire' = {DcQuery("SESSION_LOGON")}
  /\ UNCHANGED <<outlived, request, orderEntry, connected, wire, drop_copy,
                 listen_token, dc_listen_token, dc_suspended, dc_closing,
                 subscribed, exchange, bounds, downloaded>>

\* Lost, or closed by the gateway to suspend it.
DropCopyDisconnected ==
  /\ dc_connected
  /\ dc_closing \/ losses < MaxLosses
  /\ losses' = IF dc_closing THEN losses ELSE losses + 1
  /\ dc_connected' = FALSE
  /\ dc_closing' = FALSE
  /\ dc_wire' = {}
  /\ subscribed' = FALSE
  /\ dc_ready' = FALSE
  /\ dc_status' = "DISCONNECTED"
  /\ dc_download' = "UNDEFINED"
  /\ UNCHANGED <<outlived, request, orderEntry, connected, wire, drop_copy,
                 listen_token, dc_listen_token, dc_suspended, exchange, faults,
                 downloaded>>

SuspensionExpires ==
  /\ dc_suspended
  /\ dc_suspended' = FALSE
  /\ UNCHANGED <<outlived, request, orderEntry, connected, wire, dropCopy,
                 dc_connected, dc_closing, dc_wire, subscribed, exchange,
                 bounds, downloaded>>

\* WSAPISessionLogon: an error is retried.
OnSessionLogon(q, ok) ==
  /\ q.type = "SESSION_LOGON"
  /\ ok \/ faults < MaxFaults
  /\ faults' = IF ok THEN faults ELSE faults + 1
  /\ LET next == IF ok THEN "USER_DATA_STREAM_SUBSCRIBE" ELSE "SESSION_LOGON"
     IN  /\ DcEnter(next)
         /\ dc_wire' = (dc_wire \ {q}) \cup {DcQuery(next)}
  /\ UNCHANGED <<outlived, request, orderEntry, connected, wire, drop_copy,
                 listen_token, dc_listen_token, dc_connected, dc_suspended,
                 dc_closing, subscribed, exchange, losses, downloaded>>

\* WSAPIUserDataStreamSubscribe: granted for the valid token only.  Granted, the
\* account is requested from the REST stream; refused, the subscription is
\* retried at once, with the token of the moment.
OnUserDataStreamSubscribe(q) ==
  /\ q.type = "USER_DATA_STREAM_SUBSCRIBE"
  /\ IF q.token # 0 /\ q.token = valid
     THEN /\ DcEnter("ACCOUNT")
          /\ Post("ACCOUNT", wire)
          /\ subscribed' = TRUE
          /\ dc_wire' = dc_wire \ {q}
     ELSE /\ DcEnter("USER_DATA_STREAM_SUBSCRIBE")
          /\ dc_wire' = (dc_wire \ {q}) \cup {DcQuery("USER_DATA_STREAM_SUBSCRIBE")}
          /\ UNCHANGED <<request, wire, downloaded, subscribed>>
  /\ UNCHANGED <<outlived, orderEntry, connected, drop_copy, listen_token,
                 dc_listen_token, dc_connected, dc_suspended, dc_closing,
                 exchange, bounds>>

\* WSAPIEventStreamTerminated: the token is given up, the connection suspended
\* (and so closed) and a new token requested from the REST stream.
TerminatedKeepsToken ==
  /\ Post("LISTEN_KEY", wire)
  /\ dc_suspended' = TRUE
  /\ dc_closing' = TRUE
  /\ dc_listen_token' = TRUE
  /\ UNCHANGED listen_token

TerminatedAsksNothing ==
  /\ listen_token' = 0
  /\ dc_suspended' = TRUE
  /\ dc_closing' = TRUE
  /\ dc_listen_token' = TRUE
  /\ UNCHANGED <<request, wire, downloaded>>

Terminated ==
  /\ listen_token' = 0
  /\ dc_suspended' = TRUE
  /\ dc_closing' = TRUE
  /\ Post("LISTEN_KEY", wire)
  /\ dc_listen_token' = TRUE

EventStreamTerminated ==
  /\ subscribed
  /\ issued <= MaxTokens
  /\ subscribed' = FALSE
  /\ valid' = 0
  /\ IF listen_token = 0
     THEN UNCHANGED <<request, wire, downloaded, listen_token, dc_suspended,
                      dc_closing, dc_listen_token>>
     ELSE Terminated
  /\ UNCHANGED <<outlived, orderEntry, connected, drop_copy, dc_status,
                 dc_ready, dc_download, dc_connected, dc_wire, issued, bounds>>

\* A token is valid for 24 hours, also of a drop copy that is not connected.
TokenExpires ==
  /\ valid # 0
  /\ ~ subscribed
  /\ valid' = 0
  /\ UNCHANGED <<outlived, request, orderEntry, connected, wire, dropCopy,
                 socket, issued, bounds, downloaded>>

-----------------------------------------------------------------------------
(* Timer: the controller dispatches it to the REST stream and then to the  *)
(* drop copy, all of whose checks are guarded by ready().                  *)

WireWith(sent) ==
  IF sent = {} THEN wire
               ELSE Append(wire, RestQuery(CHOOSE kind \in sent : TRUE))

\* w is the wire as the REST stream leaves it.
DcChecks(w) ==
  /\ dc_listen_token' = (dc_listen_token /\ request["LISTEN_KEY"] # "responded")
  /\ CASE dc_download = "ACCOUNT" /\ request["ACCOUNT"] = "responded"
            -> DcEnter("ORDERS") /\ Post("ORDERS", w)
       [] dc_download = "ORDERS" /\ request["ORDERS"] = "responded"
            -> DcEnter("DONE") /\ wire' = w /\ UNCHANGED <<request, downloaded>>
       [] OTHER
            -> wire' = w /\ UNCHANGED <<request, downloaded, dc_status, dc_ready,
                                       dc_download>>

Timer ==
  /\ \E due \in BOOLEAN :
       LET sent == Polls(due)
           w == WireWith(sent)
       IN  /\ downloads' = downloads \cup sent
           /\ IF dc_status = "READY"
              THEN DcChecks(w)
              ELSE /\ wire' = w
                   /\ UNCHANGED <<request, downloaded, dc_listen_token, dc_status,
                                  dc_ready, dc_download>>
  /\ UNCHANGED <<outlived, connection_status, ready, download,
                 has_listen_key_cross, connected, drop_copy, listen_token,
                 socket, exchange, bounds>>

-----------------------------------------------------------------------------
Init ==
  /\ request = [kind \in Kinds |-> "none"]
  /\ connection_status = "UNDEFINED"
  /\ ready = FALSE
  /\ download = "UNDEFINED"
  /\ has_listen_key_cross = FALSE
  /\ downloads = {}
  /\ connected = FALSE
  /\ wire = <<>>
  /\ outlived = FALSE
  /\ drop_copy = FALSE
  /\ listen_token = 0
  /\ dc_status = "UNDEFINED"
  /\ dc_ready = FALSE
  /\ dc_download = "UNDEFINED"
  /\ dc_listen_token = FALSE
  /\ dc_connected = FALSE
  /\ dc_suspended = FALSE
  /\ dc_closing = FALSE
  /\ dc_wire = {}
  /\ issued = 0
  /\ valid = 0
  /\ subscribed = FALSE
  /\ faults = 0
  /\ losses = 0
  /\ downloaded = {}

RestAnswers ==
  \E ok \in BOOLEAN :
    \/ ListenKeyAck(ok)
    \/ \E kind \in {"ACCOUNT", "ORDERS"} : DownloadAck(kind, ok)
    \/ BorrowedAck(ok)

SocketAnswers ==
  \E q \in dc_wire :
    \/ \E ok \in BOOLEAN : OnSessionLogon(q, ok)
    \/ OnUserDataStreamSubscribe(q)

Next ==
  \/ OrderEntryConnected
  \/ OrderEntryDisconnected
  \/ RestAnswers
  \/ DropCopyReady
  \/ DropCopyDisconnected
  \/ SuspensionExpires
  \/ SocketAnswers
  \/ EventStreamTerminated
  \/ TokenExpires
  \/ Timer

Spec == Init /\ [][Next]_vars

\* The clients reconnect, the exchange answers, the timer ticks and a
\* suspension ends.
FairSpec ==
  /\ Spec
  /\ WF_vars(OrderEntryConnected)
  /\ WF_vars(RestAnswers)
  /\ WF_vars(DropCopyReady)
  /\ WF_vars(dc_closing /\ DropCopyDisconnected)
  /\ WF_vars(SuspensionExpires)
  /\ WF_vars(SocketAnswers)
  /\ WF_vars(Timer)

-----------------------------------------------------------------------------
(* Properties *)

Query == [kind : Kinds \cup {"BORROWED"}, current : BOOLEAN]

TypeOK ==
  /\ request \in [Kinds -> {"none", "requested", "responded"}]
  /\ connection_status \in {"UNDEFINED", "DISCONNECTED", "DOWNLOADING", "READY"}
  /\ ready \in BOOLEAN
  /\ download \in {"UNDEFINED", "LISTEN_KEY", "DONE"}
  /\ has_listen_key_cross \in BOOLEAN
  /\ downloads \subseteq Kinds \cup {"BORROWED"}
  /\ connected \in BOOLEAN
  /\ wire \in Seq(Query)
  /\ outlived \in BOOLEAN
  /\ drop_copy \in BOOLEAN
  /\ listen_token \in Nat
  /\ dc_status \in {"UNDEFINED", "DISCONNECTED", "LOGIN_SENT", "DOWNLOADING", "READY"}
  /\ dc_ready \in BOOLEAN
  /\ dc_download \in {"UNDEFINED", "SESSION_LOGON", "USER_DATA_STREAM_SUBSCRIBE",
                      "ACCOUNT", "ORDERS", "DONE"}
  /\ dc_listen_token \in BOOLEAN
  /\ dc_connected \in BOOLEAN
  /\ dc_suspended \in BOOLEAN
  /\ dc_closing \in BOOLEAN
  /\ dc_wire \subseteq [type : {"SESSION_LOGON", "USER_DATA_STREAM_SUBSCRIBE"},
                        token : Nat]
  /\ issued \in Nat
  /\ valid \in Nat
  /\ subscribed \in BOOLEAN
  /\ faults \in Nat
  /\ losses \in Nat
  /\ downloaded \subseteq Kinds

\* The REST stream has at most one download in flight, whatever is requested,
\* retried, due or lost, and on a live connection it knows what it waits for;
\* unless a request is kept over a reconnect, as the flag it had raised is lowered.
OneDownloadInFlight ==
  outlived \/ /\ Len(wire) <= 1
              /\ connected /\ wire # <<>> =>
                   download = "LISTEN_KEY" \/ downloads = {Head(wire).kind}

\* assert(std::empty(listen_token_)) of DropCopyMargin: a token is in flight
\* only while there is no drop copy or it has given up the one it had.
TokenNeverReplaced ==
  \A i \in DOMAIN wire :
    wire[i].kind = "LISTEN_KEY" => ~ drop_copy \/ listen_token = 0

\* So it is as long as no request is kept over a reconnect.
TokenReplacedOnlyLate == outlived \/ TokenNeverReplaced

\* The REST stream is READY only on a live connection, and at once when it
\* already has a listen key; a request that fails at the loss, or later, is
\* retried without a connection, and DOWNLOADING published.
Stream ==
  INSTANCE StreamLifecycle WITH
    RetriesUnlinked <- TRUE,
    linked <- connected,
    status <- CASE connection_status \in {"UNDEFINED", "DISCONNECTED"} -> "IDLE"
                [] connection_status = "DOWNLOADING" -> "BUSY"
                [] OTHER -> "READY",
    downloaded <- download = "DONE"

ImplementsStream == Stream!Spec

\* Liveness: what the drop copy requests is responded to, by success or error,
\* also when the REST connection is lost with the request in flight.
EveryRequestResponded ==
  \A kind \in Kinds : Pending(kind) ~> ~ Pending(kind)

\* Liveness: unless a request fails, a drop copy that gave up its token is
\* handed a new one.
TokenReplaced ==
  drop_copy /\ listen_token = 0 ~> listen_token # 0 \/ faults > 0

\* "Account download has completed!": what the drop copy, which has requested the
\* account and waits for it, takes a response time later than the request time
\* to mean.
RespondedMeansDownloaded ==
  dc_download = "ACCOUNT" /\ request["ACCOUNT"] = "responded" =>
    "ACCOUNT" \in downloaded

\* "Account download has completed!", "Orders download has completed!": the
\* download of a drop copy that stays subscribed completes.
DropCopyBecomesReady ==
  subscribed ~> (dc_status = "READY" \/ ~ subscribed)

=============================================================================
