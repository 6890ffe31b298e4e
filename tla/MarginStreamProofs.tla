-------------------------- MODULE MarginStreamProofs --------------------------
(***************************************************************************)
(* Theorems about MarginStream, for any number of tokens, failing requests *)
(* and lost connections.                                                   *)
(***************************************************************************)
EXTENDS MarginStream, SequenceTheorems, TLAPS

(* Sequences of requests *)

LEMMA QueryType ==
  ASSUME NEW kind \in Kinds \cup {"BORROWED"}
  PROVE  RestQuery(kind) \in Query /\ RestQuery(kind).kind = kind
BY DEF RestQuery, Query

\* What the client makes of the wire when the connection is back.
LEMMA SomeWire ==
  ASSUME wire \in Seq(Query), NEW w \in {<<>>, wire}
  PROVE  w \in Seq(Query)
<1>1. <<>> \in Seq(Query)
  OBVIOUS
<1> QED
  BY <1>1

\* Appending to a wire that is empty.
LEMMA AppendToEmpty ==
  ASSUME NEW S, NEW w \in Seq(S), NEW e \in S, w = <<>>
  PROVE  /\ Append(w, e) \in Seq(S)
         /\ Len(Append(w, e)) = 1
         /\ Append(w, e) # <<>>
         /\ Head(Append(w, e)) = e
         /\ Append(w, e)[1] = e
OBVIOUS

\* A wire with one request at most is empty without its head.
LEMMA TailOfOne ==
  ASSUME NEW S, NEW w \in Seq(S), w # <<>>
  PROVE  /\ Tail(w) \in Seq(S)
         /\ Head(w) = w[1]
         /\ Head(w) \in S
         /\ Len(w) <= 1 => Tail(w) = <<>>
<1>1. Len(w) \in Nat /\ Len(w) # 0
  OBVIOUS
<1>2. Tail(w) \in Seq(S) /\ Len(Tail(w)) = Len(w) - 1
  BY <1>1
<1>3. Head(w) = w[1] /\ w[1] \in S
  BY <1>1
<1> QED
  BY <1>1, <1>2, <1>3

\* Posting a request marks what is on the wire and changes nothing else of it.
Marked(kind, w) ==
  [i \in DOMAIN w |-> [w[i] EXCEPT !.current = @ /\ w[i].kind # kind]]

LEMMA MarkedWire ==
  ASSUME NEW kind, NEW w \in Seq(Query)
  PROVE  /\ Marked(kind, w) \in Seq(Query)
         /\ Len(Marked(kind, w)) = Len(w)
         /\ DOMAIN Marked(kind, w) = DOMAIN w
         /\ \A i \in DOMAIN w : Marked(kind, w)[i].kind = w[i].kind
<1>1. \A i \in DOMAIN w : w[i] \in Query
  OBVIOUS
<1>2. ASSUME NEW q \in Query
      PROVE  /\ [q EXCEPT !.current = @ /\ q.kind # kind] \in Query
             /\ [q EXCEPT !.current = @ /\ q.kind # kind].kind = q.kind
  <2>1. (q.current /\ q.kind # kind) \in BOOLEAN
    BY Zenon DEF Query
  <2> QED
    BY <2>1 DEF Query
<1>3. \A i \in DOMAIN w : Marked(kind, w)[i] \in Query
                            /\ Marked(kind, w)[i].kind = w[i].kind
  BY <1>1, <1>2 DEF Marked
<1>4. DOMAIN w = 1..Len(w) /\ Len(w) \in Nat
  OBVIOUS
<1>5. DOMAIN Marked(kind, w) = 1..Len(w)
  BY <1>4 DEF Marked
<1>6. Marked(kind, w) \in [1..Len(w) -> Query]
  BY <1>3, <1>4, <1>5 DEF Marked
<1>7. Marked(kind, w) \in Seq(Query)
  BY <1>4, <1>6
<1>8. Len(Marked(kind, w)) = Len(w)
  BY <1>4, <1>5, <1>7
<1> QED
  BY <1>3, <1>4, <1>5, <1>7, <1>8

-----------------------------------------------------------------------------
(* Types *)

\* The conjuncts of TypeOK that involve no sequence, and the one that does.
LEMMA PostType ==
  ASSUME TypeOK, NEW kind \in Kinds, NEW w \in Seq(Query), Post(kind, w)
  PROVE  /\ request' \in [Kinds -> {"none", "requested", "responded"}]
         /\ downloaded' \subseteq Kinds
         /\ wire' = Marked(kind, w)
         /\ wire' \in Seq(Query)
<1>1. request' \in [Kinds -> {"none", "requested", "responded"}]
  BY DEF Post, TypeOK
<1>2. downloaded' \subseteq Kinds
  BY DEF Post, TypeOK
<1>3. wire' = Marked(kind, w)
  BY Zenon DEF Post, Marked
<1>4. Marked(kind, w) \in Seq(Query)
  BY MarkedWire
<1> QED
  BY <1>1, <1>2, <1>3, <1>4

LEMMA DcEnterType ==
  ASSUME TypeOK, DcEnter(dc_download'),
         dc_download' \in {"SESSION_LOGON", "USER_DATA_STREAM_SUBSCRIBE", "ACCOUNT",
                           "ORDERS", "DONE"}
  PROVE  /\ dc_status' \in {"LOGIN_SENT", "DOWNLOADING", "READY"}
         /\ dc_ready' \in BOOLEAN
<1>1. dc_status' \in {"LOGIN_SENT", "DOWNLOADING", "READY"}
  BY DEF DcEnter
<1>2. dc_ready' \in BOOLEAN
  BY Zenon DEF DcEnter, TypeOK
<1> QED
  BY <1>1, <1>2

LEMMA EnterListenKeyType ==
  ASSUME TypeOK, NEW w \in Seq(Query), EnterListenKey(w)
  PROVE  /\ connection_status' \in {"DOWNLOADING", "READY"}
         /\ ready' \in BOOLEAN
         /\ download' \in {"LISTEN_KEY", "DONE"}
         /\ wire' \in Seq(Query)
<1>1. RestQuery("LISTEN_KEY") \in Query
  BY QueryType DEF Kinds
<1>2. Append(w, RestQuery("LISTEN_KEY")) \in Seq(Query)
  BY <1>1
<1> QED
  BY <1>2 DEF EnterListenKey, Done, TypeOK

LEMMA PollsType ==
  ASSUME NEW due
  PROVE  /\ Polls(due) = {} \/ \E kind \in Kinds \cup {"BORROWED"} : Polls(due) = {kind}
         /\ Polls(due) # {} => connection_status = "READY" /\ downloads = {}
         /\ "LISTEN_KEY" \in Polls(due) => Pending("LISTEN_KEY")
BY DEF Polls, Polled, Kinds

\* What the timer of the REST stream leaves on the wire.
LEMMA WireWithType ==
  ASSUME NEW sent, wire \in Seq(Query),
         sent = {} \/ \E kind \in Kinds \cup {"BORROWED"} : sent = {kind}
  PROVE  /\ WireWith(sent) \in Seq(Query)
         /\ sent = {} => WireWith(sent) = wire
         /\ \A kind : sent = {kind} => WireWith(sent) = Append(wire, RestQuery(kind))
<1>1. CASE sent = {}
  BY <1>1 DEF WireWith
<1>2. ASSUME NEW kind \in Kinds \cup {"BORROWED"}, sent = {kind}
      PROVE  /\ WireWith(sent) = Append(wire, RestQuery(kind))
             /\ WireWith(sent) \in Seq(Query)
  <2>1. (CHOOSE k \in sent : TRUE) = kind
    BY <1>2
  <2>2. WireWith(sent) = Append(wire, RestQuery(kind))
    BY <1>2, <2>1 DEF WireWith
  <2>3. RestQuery(kind) \in Query
    BY QueryType
  <2> QED
    BY <2>2, <2>3
<1>3. CASE \E kind \in Kinds \cup {"BORROWED"} : sent = {kind}
  <2>1. PICK kind \in Kinds \cup {"BORROWED"} : sent = {kind}
    BY <1>3
  <2>2. \A k : sent = {k} => k = kind
    BY <2>1
  <2> QED
    BY <1>2, <2>1, <2>2
<1> QED
  BY <1>1, <1>3

\* What an answer takes off the wire and the flag it lowers.
LEMMA RestAnsweredType ==
  ASSUME TypeOK, NEW kind, NEW ok, Answered(kind, ok)
  PROVE  /\ faults' \in Nat
         /\ downloads' \subseteq Kinds \cup {"BORROWED"}
         /\ Tail(wire) \in Seq(Query)
<1>1. Tail(wire) \in Seq(Query)
  BY TailOfOne DEF Answered, TypeOK
<1> QED
  BY <1>1 DEF Answered, TypeOK

LEMMA ListenKeyAckType ==
  ASSUME TypeOK, NEW ok \in BOOLEAN, ListenKeyAck(ok)
  PROVE  TypeOK'
<1>1. /\ faults' \in Nat
      /\ downloads' \subseteq Kinds \cup {"BORROWED"}
      /\ Tail(wire) \in Seq(Query)
  BY RestAnsweredType DEF ListenKeyAck
<1>2. request' \in [Kinds -> {"none", "requested", "responded"}]
  BY DEF ListenKeyAck, Responded, TypeOK
<1>3. CASE ok
  <2>1. /\ issued' \in Nat /\ valid' \in Nat /\ listen_token' \in Nat
    BY <1>3 DEF ListenKeyAck, ListenKeyUpdate, TypeOK
  <2>2. /\ connection_status' \in {"UNDEFINED", "DISCONNECTED", "DOWNLOADING", "READY"}
        /\ ready' \in BOOLEAN
        /\ download' \in {"UNDEFINED", "LISTEN_KEY", "DONE"}
    BY <1>3 DEF ListenKeyAck, Done, TypeOK
  <2>3. /\ drop_copy' = TRUE /\ dc_suspended' = FALSE
        /\ has_listen_key_cross' = TRUE
        /\ wire' = Tail(wire)
        /\ UNCHANGED <<dc_status, dc_ready, dc_download, dc_listen_token, outlived,
                       connected, dc_connected, dc_closing, dc_wire, subscribed,
                       losses, downloaded>>
    BY <1>3, Zenon DEF ListenKeyAck, ListenKeyUpdate
  <2>4. /\ dc_status' \in {"UNDEFINED", "DISCONNECTED", "LOGIN_SENT", "DOWNLOADING", "READY"}
        /\ dc_ready' \in BOOLEAN
        /\ dc_download' \in {"UNDEFINED", "SESSION_LOGON", "USER_DATA_STREAM_SUBSCRIBE",
                             "ACCOUNT", "ORDERS", "DONE"}
        /\ dc_listen_token' \in BOOLEAN
        /\ outlived' \in BOOLEAN /\ connected' \in BOOLEAN
    BY <2>3 DEF TypeOK
  <2>5. /\ dc_connected' \in BOOLEAN /\ dc_closing' \in BOOLEAN
        /\ dc_wire' \subseteq [type : {"SESSION_LOGON", "USER_DATA_STREAM_SUBSCRIBE"},
                               token : Nat]
        /\ subscribed' \in BOOLEAN /\ losses' \in Nat /\ downloaded' \subseteq Kinds
    BY <2>3 DEF TypeOK
  <2> QED
    BY <1>1, <1>2, <2>1, <2>2, <2>3, <2>4, <2>5 DEF TypeOK
<1>4. CASE ~ ok
  <2>1. /\ connection_status' \in {"UNDEFINED", "DISCONNECTED", "DOWNLOADING", "READY"}
        /\ ready' \in BOOLEAN
        /\ download' \in {"UNDEFINED", "LISTEN_KEY", "DONE"}
        /\ wire' \in Seq(Query)
    <3>1. CASE download = "LISTEN_KEY"
      BY <1>1, <1>4, <3>1, EnterListenKeyType DEF ListenKeyAck
    <3>2. CASE download # "LISTEN_KEY"
      BY <1>1, <1>4, <3>2 DEF ListenKeyAck, TypeOK
    <3> QED
      BY <3>1, <3>2
  <2> QED
    BY <1>1, <1>2, <1>4, <2>1 DEF ListenKeyAck, dropCopy, exchange, TypeOK
<1> QED
  BY <1>3, <1>4

LEMMA DownloadAckType ==
  ASSUME TypeOK, NEW ok \in BOOLEAN,
         BorrowedAck(ok) \/ \E kind \in {"ACCOUNT", "ORDERS"} : DownloadAck(kind, ok)
  PROVE  TypeOK'
<1>1. CASE BorrowedAck(ok)
  <2>1. /\ faults' \in Nat
        /\ downloads' \subseteq Kinds \cup {"BORROWED"}
        /\ Tail(wire) \in Seq(Query)
    BY <1>1, RestAnsweredType DEF BorrowedAck
  <2>2. request' \in [Kinds -> {"none", "requested", "responded"}]
    BY <1>1 DEF BorrowedAck, Responded, TypeOK
  <2>3. /\ wire' = Tail(wire)
        /\ UNCHANGED <<outlived, connection_status, ready, download,
                       has_listen_key_cross, connected, dropCopy, socket, exchange,
                       losses, downloaded>>
    BY <1>1, Zenon DEF BorrowedAck
  <2> QED
    BY <2>1, <2>2, <2>3 DEF TypeOK, dropCopy, socket, exchange
<1>2. ASSUME NEW kind \in {"ACCOUNT", "ORDERS"}, DownloadAck(kind, ok)
      PROVE  TypeOK'
  <2>1. /\ faults' \in Nat
        /\ downloads' \subseteq Kinds \cup {"BORROWED"}
        /\ Tail(wire) \in Seq(Query)
    BY <1>2, RestAnsweredType DEF DownloadAck
  <2>2. downloaded' \subseteq Kinds
    BY <1>2 DEF DownloadAck, TypeOK, Kinds
  <2>3. request' \in [Kinds -> {"none", "requested", "responded"}]
    BY <1>2 DEF DownloadAck, Responded, TypeOK
  <2>4. /\ wire' = Tail(wire)
        /\ UNCHANGED <<outlived, connection_status, ready, download,
                       has_listen_key_cross, connected, dropCopy, socket, exchange,
                       losses>>
    BY <1>2, Zenon DEF DownloadAck
  <2> QED
    BY <2>1, <2>2, <2>3, <2>4 DEF TypeOK, dropCopy, socket, exchange
<1> QED
  BY <1>1, <1>2

LEMMA OrderEntryType ==
  ASSUME TypeOK, OrderEntryConnected \/ OrderEntryDisconnected
  PROVE  TypeOK'
<1>1. CASE OrderEntryConnected
  <2>1. PICK w \in {<<>>, wire} :
          EnterListenKey(w) /\ outlived' = (outlived \/ w # <<>>)
    BY <1>1 DEF OrderEntryConnected
  <2>2. w \in Seq(Query)
    BY SomeWire DEF TypeOK
  <2>3. outlived' \in BOOLEAN
    BY <2>1, Zenon DEF TypeOK
  <2>4. /\ connection_status' \in {"DOWNLOADING", "READY"}
        /\ ready' \in BOOLEAN
        /\ download' \in {"LISTEN_KEY", "DONE"}
        /\ wire' \in Seq(Query)
    BY <2>1, <2>2, EnterListenKeyType
  <2> QED
    BY <1>1, <2>3, <2>4
       DEF OrderEntryConnected, TypeOK, dropCopy, socket, exchange, bounds
<1>2. CASE OrderEntryDisconnected
  <2>1. wire' \in Seq(Query)
    BY <1>2 DEF OrderEntryDisconnected, TypeOK
  <2>2. outlived' \in BOOLEAN
    BY <1>2 DEF OrderEntryDisconnected, TypeOK
  <2>3. losses' \in Nat
    BY <1>2 DEF OrderEntryDisconnected, TypeOK
  <2>4. /\ connected' = FALSE /\ ready' = FALSE
        /\ connection_status' = "DISCONNECTED"
        /\ downloads' = {}
        /\ UNCHANGED <<request, has_listen_key_cross, dropCopy, socket, exchange,
                       faults, downloaded>>
    BY <1>2, Zenon DEF OrderEntryDisconnected, Unpublish, ForgetDownloads
  <2>5. download' \in {"UNDEFINED", "LISTEN_KEY", "DONE"}
    BY <1>2 DEF OrderEntryDisconnected
  <2>6. /\ drop_copy' \in BOOLEAN
        /\ listen_token' \in Nat
        /\ dc_status' \in {"UNDEFINED", "DISCONNECTED", "LOGIN_SENT", "DOWNLOADING", "READY"}
        /\ dc_ready' \in BOOLEAN
        /\ dc_download' \in {"UNDEFINED", "SESSION_LOGON", "USER_DATA_STREAM_SUBSCRIBE",
                             "ACCOUNT", "ORDERS", "DONE"}
        /\ dc_listen_token' \in BOOLEAN
    BY <2>4 DEF dropCopy, TypeOK
  <2> QED
    BY <2>1, <2>2, <2>3, <2>4, <2>5, <2>6 DEF socket, exchange, TypeOK
<1> QED
  BY <1>1, <1>2

LEMMA DcQueryType ==
  ASSUME TypeOK, NEW type \in {"SESSION_LOGON", "USER_DATA_STREAM_SUBSCRIBE"}
  PROVE  DcQuery(type) \in [type : {"SESSION_LOGON", "USER_DATA_STREAM_SUBSCRIBE"},
                            token : Nat]
BY DEF DcQuery, TypeOK

LEMMA DropCopyLifeType ==
  ASSUME TypeOK,
         \/ DropCopyReady \/ DropCopyDisconnected \/ SuspensionExpires
         \/ EventStreamTerminated \/ TokenExpires
  PROVE  TypeOK'
<1>1. CASE DropCopyReady
  <2>1. /\ dc_status' \in {"LOGIN_SENT", "DOWNLOADING", "READY"}
        /\ dc_ready' \in BOOLEAN
        /\ dc_download' = "SESSION_LOGON"
    BY <1>1, DcEnterType DEF DropCopyReady, DcEnter
  <2>2. dc_wire' \subseteq [type : {"SESSION_LOGON", "USER_DATA_STREAM_SUBSCRIBE"},
                            token : Nat]
    BY <1>1, DcQueryType DEF DropCopyReady
  <2> QED
    BY <1>1, <2>1, <2>2
       DEF DropCopyReady, TypeOK, orderEntry, exchange, bounds
<1>2. CASE DropCopyDisconnected
  <2>1. losses' \in Nat
    <3>1. losses' = losses \/ losses' = losses + 1
      BY <1>2, Zenon DEF DropCopyDisconnected
    <3> QED
      BY <3>1 DEF TypeOK
  <2>2. /\ dc_connected' = FALSE /\ dc_closing' = FALSE
        /\ dc_wire' = {} /\ subscribed' = FALSE
        /\ dc_ready' = FALSE
        /\ dc_status' = "DISCONNECTED" /\ dc_download' = "UNDEFINED"
        /\ UNCHANGED <<outlived, request, orderEntry, connected, wire, drop_copy,
                       listen_token, dc_listen_token, dc_suspended, exchange,
                       faults, downloaded>>
    BY <1>2, Zenon DEF DropCopyDisconnected
  <2>3. /\ connection_status' \in {"UNDEFINED", "DISCONNECTED", "DOWNLOADING", "READY"}
        /\ ready' \in BOOLEAN
        /\ download' \in {"UNDEFINED", "LISTEN_KEY", "DONE"}
        /\ has_listen_key_cross' \in BOOLEAN
        /\ downloads' \subseteq Kinds \cup {"BORROWED"}
    BY <2>2 DEF orderEntry, TypeOK
  <2> QED
    BY <2>1, <2>2, <2>3 DEF exchange, TypeOK
<1>3. CASE SuspensionExpires
  <2>1. /\ dc_suspended' = FALSE
        /\ UNCHANGED <<outlived, request, orderEntry, connected, wire, dropCopy,
                       dc_connected, dc_closing, dc_wire, subscribed, exchange,
                       bounds, downloaded>>
    BY <1>3, Zenon DEF SuspensionExpires
  <2>2. /\ connection_status' \in {"UNDEFINED", "DISCONNECTED", "DOWNLOADING", "READY"}
        /\ ready' \in BOOLEAN
        /\ download' \in {"UNDEFINED", "LISTEN_KEY", "DONE"}
        /\ has_listen_key_cross' \in BOOLEAN
        /\ downloads' \subseteq Kinds \cup {"BORROWED"}
    BY <2>1 DEF orderEntry, TypeOK
  <2>3. dc_wire' \subseteq [type : {"SESSION_LOGON", "USER_DATA_STREAM_SUBSCRIBE"},
                            token : Nat]
    BY <2>1 DEF TypeOK
  <2>4. /\ drop_copy' \in BOOLEAN
        /\ listen_token' \in Nat
        /\ dc_status' \in {"UNDEFINED", "DISCONNECTED", "LOGIN_SENT", "DOWNLOADING", "READY"}
        /\ dc_ready' \in BOOLEAN
        /\ dc_download' \in {"UNDEFINED", "SESSION_LOGON", "USER_DATA_STREAM_SUBSCRIBE",
                             "ACCOUNT", "ORDERS", "DONE"}
        /\ dc_listen_token' \in BOOLEAN
    BY <2>1 DEF dropCopy, TypeOK
  <2> QED
    BY <2>1, <2>2, <2>3, <2>4 DEF TypeOK, exchange, bounds
<1>4. CASE EventStreamTerminated
  <2>1. /\ request' \in [Kinds -> {"none", "requested", "responded"}]
        /\ downloaded' \subseteq Kinds
        /\ wire' \in Seq(Query)
        /\ listen_token' \in Nat
        /\ dc_suspended' \in BOOLEAN
        /\ dc_closing' \in BOOLEAN
        /\ dc_listen_token' \in BOOLEAN
    <3>1. CASE listen_token = 0
      BY <1>4, <3>1 DEF EventStreamTerminated, TypeOK
    <3>2. CASE listen_token # 0
      <4>1. Terminated /\ wire \in Seq(Query) /\ "LISTEN_KEY" \in Kinds
        BY <1>4, <3>2 DEF EventStreamTerminated, TypeOK, Kinds
      <4> QED
        BY <4>1, PostType DEF Terminated
    <3> QED
      BY <3>1, <3>2
  <2>2. valid' \in Nat
    BY <1>4 DEF EventStreamTerminated
  <2>3. /\ subscribed' = FALSE
        /\ UNCHANGED <<outlived, orderEntry, connected, drop_copy, dc_status,
                       dc_ready, dc_download, dc_connected, dc_wire, issued, bounds>>
    BY <1>4, Zenon DEF EventStreamTerminated
  <2>4. /\ connection_status' \in {"UNDEFINED", "DISCONNECTED", "DOWNLOADING", "READY"}
        /\ ready' \in BOOLEAN
        /\ download' \in {"UNDEFINED", "LISTEN_KEY", "DONE"}
        /\ has_listen_key_cross' \in BOOLEAN
        /\ downloads' \subseteq Kinds \cup {"BORROWED"}
    BY <2>3 DEF orderEntry, TypeOK
  <2>5. dc_wire' \subseteq [type : {"SESSION_LOGON", "USER_DATA_STREAM_SUBSCRIBE"},
                            token : Nat]
    BY <2>3 DEF TypeOK
  <2> QED
    BY <2>1, <2>2, <2>3, <2>4, <2>5 DEF TypeOK, bounds
<1>5. CASE TokenExpires
  BY <1>5 DEF TokenExpires, TypeOK, orderEntry, dropCopy, socket, bounds
<1> QED
  BY <1>1, <1>2, <1>3, <1>4, <1>5

LEMMA SocketAnswersType == TypeOK /\ SocketAnswers => TypeOK'
<1> SUFFICES ASSUME TypeOK, SocketAnswers PROVE TypeOK'
  OBVIOUS
<1>1. ASSUME NEW q \in dc_wire, NEW ok \in BOOLEAN, OnSessionLogon(q, ok)
      PROVE  TypeOK'
  <2> DEFINE next == IF ok THEN "USER_DATA_STREAM_SUBSCRIBE" ELSE "SESSION_LOGON"
  <2>1. DcEnter(next) /\ dc_wire' = (dc_wire \ {q}) \cup {DcQuery(next)}
    BY <1>1 DEF OnSessionLogon
  <2>2. next \in {"SESSION_LOGON", "USER_DATA_STREAM_SUBSCRIBE"}
    OBVIOUS
  <2>3. DcQuery(next) \in [type : {"SESSION_LOGON", "USER_DATA_STREAM_SUBSCRIBE"},
                           token : Nat]
    BY <2>2, DcQueryType
  <2>4. dc_download' = next
    BY <2>1 DEF DcEnter
  <2>5. /\ dc_status' \in {"LOGIN_SENT", "DOWNLOADING", "READY"}
        /\ dc_ready' \in BOOLEAN
    BY <2>1, <2>2, <2>4, DcEnterType
  <2>6. dc_wire' \subseteq [type : {"SESSION_LOGON", "USER_DATA_STREAM_SUBSCRIBE"},
                            token : Nat]
    BY <2>1, <2>3 DEF TypeOK
  <2>7. faults' \in Nat
    BY <1>1 DEF OnSessionLogon, TypeOK
  <2> HIDE DEF next
  <2>8. dc_download' \in {"SESSION_LOGON", "USER_DATA_STREAM_SUBSCRIBE"}
    BY <2>2, <2>4
  <2> QED
    BY <1>1, <2>5, <2>6, <2>7, <2>8
       DEF OnSessionLogon, TypeOK, orderEntry, exchange
<1>2. ASSUME NEW q \in dc_wire, OnUserDataStreamSubscribe(q) PROVE TypeOK'
  <2>1. CASE q.token # 0 /\ q.token = valid
    <3>1. DcEnter("ACCOUNT") /\ Post("ACCOUNT", wire) /\ subscribed' = TRUE
          /\ dc_wire' = dc_wire \ {q}
      BY <1>2, <2>1 DEF OnUserDataStreamSubscribe
    <3>2. dc_download' = "ACCOUNT"
      BY <3>1 DEF DcEnter
    <3>3. /\ dc_status' \in {"LOGIN_SENT", "DOWNLOADING", "READY"}
          /\ dc_ready' \in BOOLEAN
      BY <3>1, <3>2, DcEnterType
    <3>4. "ACCOUNT" \in Kinds /\ wire \in Seq(Query)
      BY DEF Kinds, TypeOK
    <3>5. /\ request' \in [Kinds -> {"none", "requested", "responded"}]
          /\ downloaded' \subseteq Kinds
          /\ wire' \in Seq(Query)
      BY <3>1, <3>4, PostType
    <3> QED
      BY <1>2, <3>1, <3>2, <3>3, <3>5
         DEF OnUserDataStreamSubscribe, TypeOK, orderEntry, exchange, bounds
  <2>2. CASE ~ (q.token # 0 /\ q.token = valid)
    <3>1. DcEnter("USER_DATA_STREAM_SUBSCRIBE")
          /\ dc_wire' = (dc_wire \ {q}) \cup {DcQuery("USER_DATA_STREAM_SUBSCRIBE")}
          /\ UNCHANGED <<request, wire, downloaded, subscribed>>
      BY <1>2, <2>2 DEF OnUserDataStreamSubscribe
    <3>2. dc_download' = "USER_DATA_STREAM_SUBSCRIBE"
      BY <3>1 DEF DcEnter
    <3>3. /\ dc_status' \in {"LOGIN_SENT", "DOWNLOADING", "READY"}
          /\ dc_ready' \in BOOLEAN
      BY <3>1, <3>2, DcEnterType
    <3>4. DcQuery("USER_DATA_STREAM_SUBSCRIBE")
            \in [type : {"SESSION_LOGON", "USER_DATA_STREAM_SUBSCRIBE"}, token : Nat]
      BY DcQueryType
    <3> QED
      BY <1>2, <3>1, <3>2, <3>3, <3>4
         DEF OnUserDataStreamSubscribe, TypeOK, orderEntry, exchange, bounds
  <2> QED
    BY <2>1, <2>2
<1> QED
  BY <1>1, <1>2 DEF SocketAnswers

\* The two halves of the timer: what the REST stream sends and what the drop
\* copy concludes and posts.
LEMMA TimerWire ==
  ASSUME TypeOK, Timer
  PROVE  \E due \in BOOLEAN :
           /\ downloads' = downloads \cup Polls(due)
           /\ WireWith(Polls(due)) \in Seq(Query)
           /\ \/ wire' = WireWith(Polls(due)) /\ UNCHANGED <<request, downloaded>>
              \/ Post("ORDERS", WireWith(Polls(due)))
           /\ \/ dc_status = "READY" /\ DcChecks(WireWith(Polls(due)))
              \/ UNCHANGED <<dc_listen_token, dc_status, dc_ready, dc_download>>
<1>1. PICK due \in BOOLEAN :
        /\ downloads' = downloads \cup Polls(due)
        /\ IF dc_status = "READY"
           THEN DcChecks(WireWith(Polls(due)))
           ELSE /\ wire' = WireWith(Polls(due))
                /\ UNCHANGED <<request, downloaded, dc_listen_token, dc_status,
                               dc_ready, dc_download>>
  BY DEF Timer
<1>2. WireWith(Polls(due)) \in Seq(Query)
  BY PollsType, WireWithType DEF TypeOK
<1>3. DcChecks(WireWith(Polls(due))) =>
        \/ wire' = WireWith(Polls(due)) /\ UNCHANGED <<request, downloaded>>
        \/ Post("ORDERS", WireWith(Polls(due)))
  BY DEF DcChecks
<1> QED
  BY <1>1, <1>2, <1>3

LEMMA TimerType == TypeOK /\ Timer => TypeOK'
<1> SUFFICES ASSUME TypeOK, Timer PROVE TypeOK'
  OBVIOUS
<1>1. PICK due \in BOOLEAN :
        /\ downloads' = downloads \cup Polls(due)
        /\ WireWith(Polls(due)) \in Seq(Query)
        /\ \/ wire' = WireWith(Polls(due)) /\ UNCHANGED <<request, downloaded>>
           \/ Post("ORDERS", WireWith(Polls(due)))
        /\ \/ dc_status = "READY" /\ DcChecks(WireWith(Polls(due)))
           \/ UNCHANGED <<dc_listen_token, dc_status, dc_ready, dc_download>>
  BY TimerWire
<1>2. downloads' \subseteq Kinds \cup {"BORROWED"}
  BY <1>1, PollsType DEF TypeOK
<1>3. /\ wire' \in Seq(Query)
      /\ request' \in [Kinds -> {"none", "requested", "responded"}]
      /\ downloaded' \subseteq Kinds
  <2>1. "ORDERS" \in Kinds
    BY DEF Kinds
  <2> QED
    BY <1>1, <2>1, PostType DEF TypeOK
<1>4. /\ dc_listen_token' \in BOOLEAN
      /\ dc_status' \in {"UNDEFINED", "DISCONNECTED", "LOGIN_SENT", "DOWNLOADING", "READY"}
      /\ dc_ready' \in BOOLEAN
      /\ dc_download' \in {"UNDEFINED", "SESSION_LOGON", "USER_DATA_STREAM_SUBSCRIBE",
                           "ACCOUNT", "ORDERS", "DONE"}
  <2>1. CASE DcChecks(WireWith(Polls(due)))
    <3>1. dc_listen_token' \in BOOLEAN
      BY <2>1, Zenon DEF DcChecks, TypeOK
    <3>2. \/ DcEnter("ORDERS") \/ DcEnter("DONE")
          \/ UNCHANGED <<dc_status, dc_ready, dc_download>>
      BY <2>1 DEF DcChecks
    <3>3. ASSUME NEW state \in {"ORDERS", "DONE"}, DcEnter(state)
          PROVE  /\ dc_download' = state
                 /\ dc_status' \in {"LOGIN_SENT", "DOWNLOADING", "READY"}
                 /\ dc_ready' \in BOOLEAN
      <4>1. dc_download' = state
        BY <3>3 DEF DcEnter
      <4> QED
        BY <3>3, <4>1, DcEnterType
    <3> QED
      BY <3>1, <3>2, <3>3 DEF TypeOK
  <2> QED
    BY <1>1, <2>1 DEF TypeOK
<1> QED
  BY <1>2, <1>3, <1>4 DEF Timer, TypeOK, socket, exchange, bounds

LEMMA TypeStep == TypeOK /\ [Next]_vars => TypeOK'
<1> SUFFICES ASSUME TypeOK, [Next]_vars PROVE TypeOK'
  OBVIOUS
<1>1. CASE RestAnswers
  BY <1>1, ListenKeyAckType, DownloadAckType DEF RestAnswers
<1>2. CASE UNCHANGED vars
  BY <1>2 DEF vars, orderEntry, dropCopy, socket, exchange, bounds, TypeOK
<1> QED
  BY <1>1, <1>2, OrderEntryType, DropCopyLifeType, SocketAnswersType, TimerType DEF Next

LEMMA TypeInit == Init => TypeOK
<1> SUFFICES ASSUME Init PROVE TypeOK
  OBVIOUS
<1>1. wire \in Seq(Query)
  BY DEF Init
<1> QED
  BY <1>1 DEF Init, TypeOK

\* Every variable of the two streams keeps its type.
THEOREM TypeCorrect == Spec => []TypeOK
BY TypeInit, TypeStep, PTL DEF Spec

-----------------------------------------------------------------------------
(* The inductive invariant *)

\* What is published follows the connection and the download, and the flags of
\* the other downloads are only up once the download is done; what is retried
\* without a connection is the first listen key, and it is not known.
RestFollows ==
  /\ connected => connection_status \in {"DOWNLOADING", "READY"}
  /\ connection_status = "READY" => connected
  /\ connection_status = "READY" <=> download = "DONE"
  /\ connection_status = "DOWNLOADING" => download = "LISTEN_KEY"
  /\ downloads # {} => download = "DONE"
  /\ download = "LISTEN_KEY" => ~ has_listen_key_cross

\* One request at most is on the wire, and a live connection knows which.
OneWire ==
  /\ Len(wire) <= 1
  /\ connected /\ wire # <<>> =>
       \/ download = "LISTEN_KEY" /\ wire[1].kind = "LISTEN_KEY"
       \/ downloads = {wire[1].kind}

\* A drop copy comes from a listen key, which the REST stream then does not ask
\* for of its own: it waits for a request, made when the token was given up.
TokenInv ==
  /\ drop_copy => has_listen_key_cross
  /\ Pending("LISTEN_KEY") => listen_token = 0

WireInv == OneWire /\ TokenInv /\ TokenNeverReplaced

IInv ==
  /\ TypeOK
  /\ RestFollows
  /\ outlived \/ WireInv

LEMMA InvInit == Init => IInv
<1> SUFFICES ASSUME Init PROVE IInv
  OBVIOUS
<1>1. wire = <<>> /\ Len(wire) = 0 /\ DOMAIN wire = {}
  BY DEF Init
<1>2. RestFollows
  BY DEF Init, RestFollows
<1>3. OneWire /\ TokenNeverReplaced
  BY <1>1 DEF OneWire, TokenNeverReplaced
<1>4. TokenInv
  BY DEF Init, TokenInv, Pending, Kinds
<1> QED
  BY TypeInit, <1>2, <1>3, <1>4 DEF IInv, WireInv

\* What the REST stream publishes and downloads changes in three places only.
LEMMA RestSteps ==
  ASSUME [Next]_vars
  PROVE  \/ OrderEntryConnected
         \/ OrderEntryDisconnected
         \/ \E ok \in BOOLEAN : ListenKeyAck(ok)
         \/ /\ UNCHANGED <<connected, connection_status, download,
                           has_listen_key_cross>>
            /\ \/ downloads' \subseteq downloads
               \/ connection_status = "READY"
<1>1. CASE RestAnswers
  BY <1>1 DEF RestAnswers, DownloadAck, BorrowedAck, Answered
<1>2. CASE SocketAnswers
  BY <1>2 DEF SocketAnswers, OnSessionLogon, OnUserDataStreamSubscribe, orderEntry
<1>3. CASE Timer
  <2>1. UNCHANGED <<connected, connection_status, download, has_listen_key_cross>>
    BY <1>3 DEF Timer
  <2>2. PICK due \in BOOLEAN : downloads' = downloads \cup Polls(due)
    BY <1>3 DEF Timer
  <2> QED
    BY <2>1, <2>2, PollsType
<1>4. CASE \/ DropCopyReady \/ DropCopyDisconnected \/ SuspensionExpires
           \/ EventStreamTerminated \/ TokenExpires \/ UNCHANGED vars
  BY <1>4 DEF DropCopyReady, DropCopyDisconnected, SuspensionExpires,
              EventStreamTerminated, TokenExpires, vars, orderEntry
<1> QED
  BY <1>1, <1>2, <1>3, <1>4 DEF Next

\* The answer completes the download, on a live connection, or fails and is retried,
\* or is no part of the download.
ListenKeySteps ==
  \/ Done /\ connected
  \/ /\ connection_status' = "DOWNLOADING" /\ download = "LISTEN_KEY"
     /\ UNCHANGED <<download, has_listen_key_cross>>
  \/ /\ UNCHANGED <<download, connection_status>>
     /\ download # "LISTEN_KEY"

LEMMA ListenKeyAckSteps ==
  ASSUME RestFollows, NEW ok \in BOOLEAN, ListenKeyAck(ok)
  PROVE  ListenKeySteps
<1>1. CASE ok
  BY <1>1 DEF ListenKeyAck, Answered, ListenKeySteps
<1>2. CASE ~ ok /\ download = "LISTEN_KEY"
  <2>1. EnterListenKey(Tail(wire)) /\ UNCHANGED has_listen_key_cross
    BY <1>2 DEF ListenKeyAck
  <2> QED
    BY <1>2, <2>1 DEF EnterListenKey, RestFollows, ListenKeySteps
<1>3. CASE ~ ok /\ download # "LISTEN_KEY"
  BY <1>3 DEF ListenKeyAck, ListenKeySteps
<1> QED
  BY <1>1, <1>2, <1>3

LEMMA RestFollowsStep == TypeOK /\ RestFollows /\ [Next]_vars => RestFollows'
<1> SUFFICES ASSUME TypeOK, RestFollows, [Next]_vars PROVE RestFollows'
  OBVIOUS
<1> USE DEF RestFollows
<1>1. CASE OrderEntryConnected
  BY <1>1 DEF OrderEntryConnected, EnterListenKey, Done
<1>2. CASE OrderEntryDisconnected
  BY <1>2 DEF OrderEntryDisconnected, Unpublish, ForgetDownloads
<1>3. ASSUME NEW ok \in BOOLEAN, ListenKeyAck(ok) PROVE RestFollows'
  <2>1. connected' = connected /\ downloads' \subseteq downloads
    BY <1>3 DEF ListenKeyAck, Answered
  <2>2. ListenKeySteps
    BY <1>3, ListenKeyAckSteps
  <2> QED
    BY <2>1, <2>2 DEF ListenKeySteps, Done
<1>4. CASE /\ UNCHANGED <<connected, connection_status, download,
                          has_listen_key_cross>>
           /\ \/ downloads' \subseteq downloads
              \/ connection_status = "READY"
  BY <1>4
<1> QED
  BY <1>1, <1>2, <1>3, <1>4, RestSteps

-----------------------------------------------------------------------------
(* The wire, as long as no request is kept over a reconnect *)

\* Nothing on the wire.
LEMMA WireOfNone ==
  ASSUME wire' = <<>>
  PROVE  OneWire' /\ TokenNeverReplaced'
<1>1. Len(wire') = 0 /\ DOMAIN wire' = {}
  OBVIOUS
<1> QED
  BY <1>1 DEF OneWire, TokenNeverReplaced

\* One request on the wire.
LEMMA WireOfOne ==
  ASSUME wire' \in Seq(Query), Len(wire') = 1,
         NEW kind, wire'[1].kind = kind,
         (download' = "LISTEN_KEY" /\ kind = "LISTEN_KEY") \/ downloads' = {kind},
         kind = "LISTEN_KEY" => ~ drop_copy' \/ listen_token' = 0
  PROVE  OneWire' /\ TokenNeverReplaced'
<1>1. DOMAIN wire' = {1}
  OBVIOUS
<1> QED
  BY <1>1 DEF OneWire, TokenNeverReplaced

\* Marked or not, the requests on the wire stay what they are.
LEMMA WireKept ==
  ASSUME OneWire, TokenNeverReplaced, wire \in Seq(Query),
         wire' = wire \/ \E k : wire' = Marked(k, wire),
         UNCHANGED <<connected, download, downloads>>,
         drop_copy' => drop_copy,
         listen_token = 0 => listen_token' = 0
  PROVE  OneWire' /\ TokenNeverReplaced'
<1>1. /\ wire' \in Seq(Query)
      /\ Len(wire') = Len(wire)
      /\ DOMAIN wire' = DOMAIN wire
      /\ \A i \in DOMAIN wire : wire'[i].kind = wire[i].kind
  BY MarkedWire
<1>2. TokenNeverReplaced'
  BY <1>1 DEF TokenNeverReplaced
<1>3. OneWire'
  <2>1. CASE wire = <<>>
    BY <1>1, <2>1 DEF OneWire
  <2>2. CASE wire # <<>>
    <3>0. Len(wire) \in Nat /\ Len(wire) # 0 /\ DOMAIN wire = 1..Len(wire)
      BY <2>2
    <3>1. Len(wire) = 1 /\ 1 \in DOMAIN wire
      BY <3>0 DEF OneWire
    <3> QED
      BY <1>1, <2>2, <3>1 DEF OneWire
  <2> QED
    BY <2>1, <2>2
<1> QED
  BY <1>2, <1>3

LEMMA SentFirst ==
  ASSUME NEW kind \in Kinds \cup {"BORROWED"}, NEW w, w = <<>>
  PROVE  /\ Append(w, RestQuery(kind)) \in Seq(Query)
         /\ Len(Append(w, RestQuery(kind))) = 1
         /\ Append(w, RestQuery(kind))[1].kind = kind
<1>1. RestQuery(kind) \in Query /\ RestQuery(kind).kind = kind
  BY QueryType
<1>2. w \in Seq(Query)
  OBVIOUS
<1> HIDE DEF RestQuery
<1> QED
  BY <1>1, <1>2, AppendToEmpty

\* download(LISTEN_KEY) over an empty wire.
LEMMA EnterListenKeyWire ==
  ASSUME TypeOK, TokenInv, NEW w, w = <<>>, EnterListenKey(w),
         UNCHANGED drop_copy
  PROVE  OneWire' /\ TokenNeverReplaced'
<1>1. CASE has_listen_key_cross
  BY <1>1, WireOfNone DEF EnterListenKey, Done
<1>2. CASE ~ has_listen_key_cross
  <2>1. wire' = Append(w, RestQuery("LISTEN_KEY")) /\ download' = "LISTEN_KEY"
    BY <1>2 DEF EnterListenKey
  <2>2. ~ drop_copy'
    BY <1>2 DEF TokenInv
  <2>3. "LISTEN_KEY" \in Kinds \cup {"BORROWED"}
    BY DEF Kinds
  <2>4. wire' \in Seq(Query) /\ Len(wire') = 1 /\ wire'[1].kind = "LISTEN_KEY"
    BY <2>1, <2>3, SentFirst
  <2> QED
    BY <1>2, <2>1, <2>2, <2>4, WireOfOne
<1> QED
  BY <1>1, <1>2

\* The answer to the one request there is.
LEMMA AnsweredWire ==
  ASSUME TypeOK, OneWire, NEW kind, NEW ok, Answered(kind, ok)
  PROVE  Tail(wire) = <<>>
BY TailOfOne DEF Answered, OneWire, TypeOK

LEMMA RestWireStep ==
  ASSUME IInv, ~ outlived, ~ outlived',
         OrderEntryConnected \/ OrderEntryDisconnected \/ RestAnswers
  PROVE  WireInv'
<1>0. TypeOK /\ RestFollows /\ OneWire /\ TokenInv /\ TokenNeverReplaced
  BY DEF IInv, WireInv
<1>1. CASE OrderEntryConnected
  <2>1. /\ EnterListenKey(<<>>)
        /\ UNCHANGED <<request, drop_copy, has_listen_key_cross, listen_token>>
    BY <1>1 DEF OrderEntryConnected, dropCopy
  <2>2. OneWire' /\ TokenNeverReplaced'
    BY <1>0, <2>1, EnterListenKeyWire
  <2> QED
    BY <1>0, <2>1, <2>2 DEF TokenInv, WireInv, Pending
<1>2. CASE OrderEntryDisconnected
  <2>1. /\ UNCHANGED <<wire, request, drop_copy, has_listen_key_cross, listen_token>>
        /\ ~ connected'
    BY <1>2 DEF OrderEntryDisconnected, dropCopy
  <2> QED
    BY <1>0, <2>1 DEF OneWire, TokenNeverReplaced, TokenInv, WireInv, Pending
<1>3. ASSUME NEW ok \in BOOLEAN, ListenKeyAck(ok) PROVE WireInv'
  <2>1. /\ Tail(wire) = <<>>
        /\ request' = [request EXCEPT !["LISTEN_KEY"] = "responded"]
    BY <1>0, <1>3, AnsweredWire DEF ListenKeyAck, Responded
  <2>2. ~ Pending("LISTEN_KEY")'
    BY <1>0, <2>1 DEF Pending, TypeOK, Kinds
  <2>3. CASE ok
    <3>1. /\ wire' = <<>>
          /\ has_listen_key_cross' = TRUE
      BY <1>3, <2>1, <2>3 DEF ListenKeyAck
    <3> QED
      BY <2>2, <3>1, WireOfNone DEF TokenInv, WireInv
  <2>4. CASE ~ ok
    <3>1. UNCHANGED <<drop_copy, has_listen_key_cross, listen_token>>
      BY <1>3, <2>4 DEF ListenKeyAck, dropCopy
    <3>2. CASE download = "LISTEN_KEY"
      <4>1. EnterListenKey(Tail(wire))
        BY <1>3, <2>4, <3>2 DEF ListenKeyAck
      <4>2. OneWire' /\ TokenNeverReplaced'
        BY <1>0, <2>1, <3>1, <4>1, EnterListenKeyWire
      <4> QED
        BY <1>0, <2>2, <3>1, <4>2 DEF TokenInv, WireInv
    <3>3. CASE download # "LISTEN_KEY"
      <4>1. wire' = <<>>
        BY <1>3, <2>1, <2>4, <3>3 DEF ListenKeyAck
      <4> QED
        BY <1>0, <2>2, <3>1, <4>1, WireOfNone DEF TokenInv, WireInv
    <3> QED
      BY <3>2, <3>3
  <2> QED
    BY <2>3, <2>4
<1>4. ASSUME NEW ok \in BOOLEAN, NEW kind \in {"ACCOUNT", "ORDERS"},
             NEW query, Answered(query, ok), Responded(kind), wire' = Tail(wire),
             UNCHANGED <<download, has_listen_key_cross, dropCopy>>
      PROVE  WireInv'
  <2>1. wire' = <<>>
    BY <1>0, <1>4, AnsweredWire
  <2>2. Pending("LISTEN_KEY")' = Pending("LISTEN_KEY")
    BY <1>0, <1>4 DEF Responded, Pending, TypeOK, Kinds
  <2>3. UNCHANGED <<drop_copy, listen_token>>
    BY <1>4 DEF dropCopy
  <2> QED
    BY <1>0, <1>4, <2>1, <2>2, <2>3, WireOfNone DEF TokenInv, WireInv
<1> QED
  BY <1>1, <1>2, <1>3, <1>4 DEF RestAnswers, DownloadAck, BorrowedAck

LEMMA DropCopyWireStep ==
  ASSUME IInv, ~ outlived,
         \/ DropCopyReady \/ DropCopyDisconnected \/ SuspensionExpires
         \/ SocketAnswers \/ EventStreamTerminated \/ TokenExpires
         \/ UNCHANGED vars
  PROVE  WireInv'
<1>0. TypeOK /\ OneWire /\ TokenInv /\ TokenNeverReplaced /\ wire \in Seq(Query)
  BY DEF IInv, WireInv, TypeOK
<1>1. /\ UNCHANGED <<connected, download, downloads, has_listen_key_cross, drop_copy>>
      /\ \/ UNCHANGED <<request, wire, listen_token>>
         \/ Post("ACCOUNT", wire) /\ UNCHANGED listen_token
         \/ Post("LISTEN_KEY", wire) /\ listen_token' = 0
  BY DEF DropCopyReady, DropCopyDisconnected, SuspensionExpires, SocketAnswers,
         OnSessionLogon, OnUserDataStreamSubscribe, EventStreamTerminated, Terminated,
         TokenExpires, vars, orderEntry, dropCopy
<1>2. wire' = wire \/ \E k : wire' = Marked(k, wire)
  BY <1>1, Zenon DEF Post, Marked
<1>3. OneWire' /\ TokenNeverReplaced'
  BY <1>0, <1>1, <1>2, WireKept
<1>4. Pending("LISTEN_KEY")' => Pending("LISTEN_KEY") \/ listen_token' = 0
  BY <1>0, <1>1 DEF Post, Pending, TypeOK, Kinds
<1> QED
  BY <1>0, <1>1, <1>3, <1>4 DEF TokenInv, WireInv

LEMMA TimerWireStep ==
  ASSUME IInv, ~ outlived, Timer
  PROVE  WireInv'
<1>0. TypeOK /\ RestFollows /\ OneWire /\ TokenInv /\ TokenNeverReplaced
      /\ wire \in Seq(Query)
  BY DEF IInv, WireInv, TypeOK
<1>1. PICK due \in BOOLEAN :
        /\ downloads' = downloads \cup Polls(due)
        /\ WireWith(Polls(due)) \in Seq(Query)
        /\ \/ wire' = WireWith(Polls(due)) /\ UNCHANGED <<request, downloaded>>
           \/ Post("ORDERS", WireWith(Polls(due)))
  BY <1>0, TimerWire
<1>2. UNCHANGED <<connected, download, has_listen_key_cross, drop_copy, listen_token>>
  BY DEF Timer
<1> DEFINE w == WireWith(Polls(due))
<1>3. w \in Seq(Query) /\ (wire' = w \/ \E k : wire' = Marked(k, w))
  BY <1>1, Zenon DEF Post, Marked
<1>4. Pending("LISTEN_KEY")' = Pending("LISTEN_KEY")
  BY <1>0, <1>1 DEF Post, Pending, TypeOK, Kinds
<1>5. CASE Polls(due) = {}
  <2>1. w = wire /\ downloads' = downloads
    BY <1>0, <1>1, <1>5, WireWithType
  <2> QED
    BY <1>0, <1>2, <1>3, <1>4, <2>1, WireKept DEF TokenInv, WireInv
<1>6. ASSUME NEW kind \in Kinds \cup {"BORROWED"}, Polls(due) = {kind}
      PROVE  WireInv'
  <2>1. connection_status = "READY" /\ downloads = {}
    BY <1>6, PollsType
  <2>2. wire = <<>> /\ connected
    BY <1>0, <2>1 DEF RestFollows, OneWire
  <2>3. w = Append(wire, RestQuery(kind))
    BY <1>0, <1>6, WireWithType
  <2>4. Len(w) = 1 /\ w[1].kind = kind
    BY <2>2, <2>3, SentFirst
  <2>5. wire' \in Seq(Query) /\ Len(wire') = 1 /\ wire'[1].kind = kind
    BY <1>3, <2>4, MarkedWire
  <2>6. downloads' = {kind}
    BY <1>1, <1>6, <2>1
  <2>7. kind = "LISTEN_KEY" => listen_token' = 0
    BY <1>0, <1>2, <1>6, PollsType DEF TokenInv
  <2>8. OneWire' /\ TokenNeverReplaced'
    BY <1>2, <2>2, <2>5, <2>6, <2>7, WireOfOne
  <2> QED
    BY <1>0, <1>2, <1>4, <2>8 DEF TokenInv, WireInv
<1> QED
  BY <1>5, <1>6, PollsType

LEMMA InvStep == IInv /\ [Next]_vars => IInv'
<1> SUFFICES ASSUME IInv, [Next]_vars PROVE IInv'
  OBVIOUS
<1>1. TypeOK' /\ RestFollows'
  BY TypeStep, RestFollowsStep DEF IInv
\* That a request was kept over a reconnect is not forgotten.
<1>2. outlived => outlived'
  BY Zenon DEF Next, OrderEntryConnected, OrderEntryDisconnected, RestAnswers,
     ListenKeyAck, DownloadAck, BorrowedAck, DropCopyReady, DropCopyDisconnected,
     SuspensionExpires, SocketAnswers, OnSessionLogon, OnUserDataStreamSubscribe,
     EventStreamTerminated, TokenExpires, Timer, vars
<1>3. ASSUME ~ outlived' PROVE WireInv'
  BY <1>2, <1>3, RestWireStep, DropCopyWireStep, TimerWireStep DEF Next
<1> QED
  BY <1>1, <1>3 DEF IInv, WireInv

LEMMA Invariance == Spec => []IInv
BY InvInit, InvStep, PTL DEF Spec

-----------------------------------------------------------------------------
(* What follows from it *)

\* The REST stream has one download in flight at most and knows, on a live
\* connection, what it waits for: for any number of tokens, failing requests and
\* lost connections, unless a request is kept over a reconnect.
THEOREM OneDownloadAtATime == Spec => []OneDownloadInFlight
<1>1. IInv => OneDownloadInFlight
  <2>1. ASSUME IInv, wire # <<>> PROVE Head(wire) = wire[1]
    BY <2>1, TailOfOne DEF IInv, WireInv, TypeOK
  <2> QED
    BY <2>1 DEF IInv, WireInv, OneWire, OneDownloadInFlight
<1> QED
  BY <1>1, Invariance, PTL

\* A drop copy is only handed a new listen token when it has given up the one it
\* had: the assertion of DropCopyMargin holds for any history without a request
\* that is kept over a reconnect.
THEOREM TokenOnlyReplacedLate == Spec => []TokenReplacedOnlyLate
<1>1. IInv => TokenReplacedOnlyLate
  BY DEF IInv, WireInv, TokenReplacedOnlyLate
<1> QED
  BY <1>1, Invariance, PTL

-----------------------------------------------------------------------------
(* The REST stream implements StreamLifecycle *)

LEMMA StreamStep == IInv /\ [Next]_vars => [Stream!Next]_(Stream!vars)
<1> SUFFICES ASSUME IInv, [Next]_vars
             PROVE  Stream!Next \/ UNCHANGED Stream!vars
  OBVIOUS
<1>0. RestFollows /\ RestFollows'
  BY TypeStep, RestFollowsStep DEF IInv
<1> USE DEF RestFollows, Stream!Next, Stream!vars
<1>1. CASE OrderEntryConnected
  <2>1. ~ connected /\ connected'
    BY <1>1 DEF OrderEntryConnected
  <2> QED
    BY <1>0, <1>1, <2>1 DEF OrderEntryConnected, EnterListenKey, Done, Stream!LinkUp
<1>2. CASE OrderEntryDisconnected
  BY <1>0, <1>2 DEF OrderEntryDisconnected, Unpublish, Stream!LinkDown
<1>3. ASSUME NEW ok \in BOOLEAN, ListenKeyAck(ok)
      PROVE  Stream!Next \/ UNCHANGED Stream!vars
  <2>1. connected' = connected /\ ListenKeySteps
    BY <1>0, <1>3, ListenKeyAckSteps DEF ListenKeyAck
  <2>2. CASE Done /\ connected
    BY <1>0, <2>1, <2>2 DEF Done, Stream!Complete
  <2>3. CASE /\ connection_status' = "DOWNLOADING" /\ download = "LISTEN_KEY"
             /\ UNCHANGED download
    <3>1. CASE connected
      BY <1>0, <2>1, <2>3, <3>1
    <3>2. CASE ~ connected
      BY <1>0, <2>1, <2>3, <3>2 DEF Stream!RetryUnlinked
    <3> QED
      BY <3>1, <3>2
  <2>4. CASE UNCHANGED <<download, connection_status>>
    BY <2>1, <2>4
  <2> QED
    BY <2>1, <2>2, <2>3, <2>4 DEF ListenKeySteps
<1>4. CASE UNCHANGED <<connected, connection_status, download>>
  BY <1>4
<1> QED
  BY <1>1, <1>2, <1>3, <1>4, RestSteps

\* The REST stream is READY only on a live connection whose download is done; a
\* request that fails after the loss may have DOWNLOADING published, READY never.
THEOREM MarginImplementsStream == Spec => ImplementsStream
<1>1. Init => Stream!Init
  BY DEF Init, Stream!Init
<1> QED
  BY <1>1, StreamStep, Invariance, PTL DEF Spec, ImplementsStream, Stream!Spec

-----------------------------------------------------------------------------
(* The REST stream never waits for nothing *)

Carries(w, kind) == \E i \in DOMAIN w : w[i].kind = kind

\* What is waited for is on the wire, also when requests outlive connections: a
\* flag that is raised was not lowered by the answer to another kind, and the
\* download of the listen key has its request.
FlagsAwaited ==
  /\ \A kind \in downloads : Carries(wire, kind)
  /\ connected /\ download = "LISTEN_KEY" => Carries(wire, "LISTEN_KEY")

\* A live connection has an answer to come, or its timer sends what is requested.
RestNotBlocked ==
  connected => wire # <<>> \/ (connection_status = "READY" /\ downloads = {})

LEMMA CarriesAppend ==
  ASSUME NEW w \in Seq(Query), NEW q \in Query
  PROVE  \A kind : Carries(Append(w, q), kind) <=> Carries(w, kind) \/ kind = q.kind
<1>1. /\ Len(w) \in Nat /\ DOMAIN w = 1..Len(w)
      /\ DOMAIN Append(w, q) = 1..(Len(w) + 1)
      /\ Append(w, q)[Len(w) + 1] = q
      /\ \A i \in 1..Len(w) : Append(w, q)[i] = w[i]
  OBVIOUS
<1>2. \A i \in DOMAIN Append(w, q) : i \in DOMAIN w \/ i = Len(w) + 1
  BY <1>1
<1>3. Len(w) + 1 \in DOMAIN Append(w, q) /\ DOMAIN w \subseteq DOMAIN Append(w, q)
  BY <1>1
<1> QED
  BY <1>1, <1>2, <1>3 DEF Carries

LEMMA CarriesTail ==
  ASSUME NEW w \in Seq(Query), w # <<>>, NEW kind, Carries(w, kind),
         Head(w).kind # kind
  PROVE  Carries(Tail(w), kind)
<1>1. PICK i \in DOMAIN w : w[i].kind = kind
  BY DEF Carries
<1>2. Len(w) \in Nat /\ DOMAIN w = 1..Len(w) /\ Head(w) = w[1]
  OBVIOUS
<1>3. i # 1 /\ i \in 2..Len(w)
  BY <1>1, <1>2
<1>4. /\ DOMAIN Tail(w) = 1..(Len(w) - 1)
      /\ i - 1 \in 1..(Len(w) - 1)
      /\ Tail(w)[i - 1] = w[i]
  BY <1>2, <1>3
<1> QED
  BY <1>1, <1>4 DEF Carries

LEMMA CarriesMarked ==
  ASSUME NEW w \in Seq(Query), NEW k, NEW kind
  PROVE  Carries(Marked(k, w), kind) <=> Carries(w, kind)
BY MarkedWire DEF Carries

\* A step that leaves the REST stream alone.
LEMMA FlagsKept ==
  ASSUME FlagsAwaited, wire \in Seq(Query),
         UNCHANGED <<connected, download, downloads>>,
         wire' = wire \/ \E k : wire' = Marked(k, wire)
  PROVE  FlagsAwaited'
<1>1. \A kind : Carries(wire, kind) => Carries(wire', kind)
  BY CarriesMarked
<1> QED
  BY <1>1 DEF FlagsAwaited

\* The flags are lowered of what leaves the wire.
LEMMA FlagsAnswered ==
  ASSUME TypeOK, FlagsAwaited, NEW kind, NEW ok, Answered(kind, ok)
  PROVE  /\ \A k \in downloads' : Carries(Tail(wire), k)
         /\ kind # "LISTEN_KEY" /\ connected /\ download = "LISTEN_KEY"
              => Carries(Tail(wire), "LISTEN_KEY")
<1>1. wire \in Seq(Query) /\ wire # <<>> /\ Head(wire).kind = kind
      /\ downloads' = downloads \ {kind}
  BY DEF Answered, TypeOK
<1>2. ASSUME NEW k, k # kind, Carries(wire, k) PROVE Carries(Tail(wire), k)
  BY <1>1, <1>2, CarriesTail
<1> QED
  BY <1>1, <1>2 DEF FlagsAwaited

\* download(LISTEN_KEY) requests the key unless it is known.
LEMMA FlagsEntered ==
  ASSUME NEW w \in Seq(Query), EnterListenKey(w),
         \A k \in downloads' : Carries(w, k)
  PROVE  FlagsAwaited'
<1>1. CASE has_listen_key_cross
  BY <1>1 DEF EnterListenKey, Done, FlagsAwaited
<1>2. CASE ~ has_listen_key_cross
  <2> DEFINE q == RestQuery("LISTEN_KEY")
  <2>1. q \in Query /\ q.kind = "LISTEN_KEY"
    BY QueryType DEF Kinds
  <2>2. wire' = Append(w, q)
    BY <1>2 DEF EnterListenKey
  <2> HIDE DEF q
  <2>3. /\ Carries(wire', "LISTEN_KEY")
        /\ \A k : Carries(w, k) => Carries(wire', k)
    BY <2>1, <2>2, CarriesAppend
  <2> QED
    BY <2>3 DEF FlagsAwaited
<1> QED
  BY <1>1, <1>2

LEMMA FlagsRest ==
  ASSUME TypeOK, RestFollows, FlagsAwaited,
         OrderEntryConnected \/ OrderEntryDisconnected \/ RestAnswers
  PROVE  FlagsAwaited'
<1>0. wire \in Seq(Query)
  BY DEF TypeOK
<1>1. CASE OrderEntryConnected
  <2>1. PICK w \in {<<>>, wire} : EnterListenKey(w)
    BY <1>1 DEF OrderEntryConnected
  <2>2. downloads' = {}
    BY <1>1 DEF OrderEntryConnected, RestFollows
  <2>3. w \in Seq(Query)
    BY <1>0, SomeWire
  <2> QED
    BY <2>1, <2>2, <2>3, FlagsEntered
<1>2. CASE OrderEntryDisconnected
  BY <1>2 DEF OrderEntryDisconnected, ForgetDownloads, FlagsAwaited
<1>3. ASSUME NEW ok \in BOOLEAN, ListenKeyAck(ok) PROVE FlagsAwaited'
  <2>1. Answered("LISTEN_KEY", ok) /\ wire # <<>>
    BY <1>3 DEF ListenKeyAck, Answered
  <2>2. /\ \A k \in downloads' : Carries(Tail(wire), k)
        /\ Tail(wire) \in Seq(Query)
    BY <1>0, <2>1, FlagsAnswered, TailOfOne
  <2>3. CASE ~ ok /\ download = "LISTEN_KEY"
    <3>1. EnterListenKey(Tail(wire))
      BY <1>3, <2>3 DEF ListenKeyAck
    <3> QED
      BY <2>2, <3>1, FlagsEntered
  <2>4. CASE ok \/ download # "LISTEN_KEY"
    <3>1. wire' = Tail(wire) /\ download' # "LISTEN_KEY"
      BY <1>3, <2>4 DEF ListenKeyAck, Done
    <3> QED
      BY <2>2, <3>1 DEF FlagsAwaited
  <2> QED
    BY <2>3, <2>4
<1>4. ASSUME NEW ok \in BOOLEAN, NEW kind, kind # "LISTEN_KEY", Answered(kind, ok),
             wire' = Tail(wire), UNCHANGED <<connected, download>>
      PROVE  FlagsAwaited'
  BY <1>4, FlagsAnswered DEF FlagsAwaited
<1> QED
  BY <1>1, <1>2, <1>3, <1>4 DEF RestAnswers, DownloadAck, BorrowedAck

LEMMA FlagsDropCopy ==
  ASSUME TypeOK, FlagsAwaited,
         \/ DropCopyReady \/ DropCopyDisconnected \/ SuspensionExpires
         \/ SocketAnswers \/ EventStreamTerminated \/ TokenExpires
         \/ UNCHANGED vars
  PROVE  FlagsAwaited'
<1>1. /\ UNCHANGED <<connected, download, downloads>>
      /\ UNCHANGED wire \/ Post("ACCOUNT", wire) \/ Post("LISTEN_KEY", wire)
  BY DEF DropCopyReady, DropCopyDisconnected, SuspensionExpires, SocketAnswers,
         OnSessionLogon, OnUserDataStreamSubscribe, EventStreamTerminated, Terminated,
         TokenExpires, vars, orderEntry, dropCopy
<1>2. wire' = wire \/ \E k : wire' = Marked(k, wire)
  BY <1>1, Zenon DEF Post, Marked
<1> QED
  BY <1>1, <1>2, FlagsKept DEF TypeOK

\* The timer raises the flag of what it sends.
LEMMA FlagsTimer ==
  ASSUME TypeOK, FlagsAwaited, Timer
  PROVE  FlagsAwaited'
<1>0. wire \in Seq(Query) /\ UNCHANGED <<connected, download>>
  BY DEF TypeOK, Timer
<1>1. PICK due \in BOOLEAN :
        /\ downloads' = downloads \cup Polls(due)
        /\ WireWith(Polls(due)) \in Seq(Query)
        /\ \/ wire' = WireWith(Polls(due)) /\ UNCHANGED <<request, downloaded>>
           \/ Post("ORDERS", WireWith(Polls(due)))
  BY TimerWire
<1> DEFINE w == WireWith(Polls(due))
<1>2. w \in Seq(Query) /\ (wire' = w \/ \E k : wire' = Marked(k, w))
  BY <1>1, Zenon DEF Post, Marked
<1>3. \A kind : Carries(w, kind) => Carries(wire', kind)
  BY <1>2, CarriesMarked
<1>4. CASE Polls(due) = {}
  <2>1. w = wire /\ downloads' = downloads
    BY <1>0, <1>1, <1>4, WireWithType
  <2> QED
    BY <1>0, <1>3, <2>1 DEF FlagsAwaited
<1>5. ASSUME NEW kind \in Kinds \cup {"BORROWED"}, Polls(due) = {kind}
      PROVE  FlagsAwaited'
  <2>1. w = Append(wire, RestQuery(kind)) /\ downloads' = downloads \cup {kind}
    BY <1>0, <1>1, <1>5, WireWithType
  <2>2. RestQuery(kind) \in Query /\ RestQuery(kind).kind = kind
    BY QueryType
  <2>3. Carries(w, kind) /\ \A k : Carries(wire, k) => Carries(w, k)
    BY <1>0, <2>1, <2>2, CarriesAppend
  <2> QED
    BY <1>0, <1>3, <2>1, <2>3 DEF FlagsAwaited
<1> QED
  BY <1>4, <1>5, PollsType

\* The safety half of EveryRequestResponded: whatever is lost, refused or late, a
\* live REST stream has an answer to come or its timer is free to send, so no
\* flag left raised keeps the requests of the drop copy waiting for ever.
THEOREM RestStreamNeverBlocks == Spec => [](FlagsAwaited /\ RestNotBlocked)
<1>1. Init => FlagsAwaited
  BY DEF Init, FlagsAwaited
<1>2. IInv /\ FlagsAwaited /\ [Next]_vars => FlagsAwaited'
  BY FlagsRest, FlagsDropCopy, FlagsTimer DEF Next, IInv
<1>3. IInv /\ FlagsAwaited => RestNotBlocked
  <2> SUFFICES ASSUME IInv, FlagsAwaited, wire = <<>>, connected
               PROVE  connection_status = "READY" /\ downloads = {}
    BY DEF RestNotBlocked
  <2>1. \A kind : ~ Carries(wire, kind)
    BY DEF Carries
  <2> QED
    BY <2>1 DEF IInv, RestFollows, FlagsAwaited
<1> QED
  BY <1>1, <1>2, <1>3, TypeCorrect, Invariance, PTL DEF Spec

-----------------------------------------------------------------------------
(* The drop copy never becomes READY *)

\* Its checks are made when it is READY, and it becomes READY by a check; and
\* only a check asks for the open orders.
DropCopyWaits ==
  /\ dc_status # "READY" /\ ~ dc_ready
  /\ dc_download \notin {"ORDERS", "DONE"}
  /\ request["ORDERS"] = "none" /\ ~ Carries(wire, "ORDERS")

\* The checks are not made, so nothing but requests for the account and the
\* listen key are posted.
LEMMA DropCopySteps ==
  ASSUME TypeOK, DropCopyWaits,
         \/ DropCopyReady \/ DropCopyDisconnected \/ SuspensionExpires
         \/ SocketAnswers \/ EventStreamTerminated \/ TokenExpires
         \/ UNCHANGED vars
  PROVE  DropCopyWaits' /\ (dc_listen_token => dc_listen_token')
<1>1. /\ \/ UNCHANGED <<dc_status, dc_ready, dc_download>>
         \/ dc_status' = "DISCONNECTED" /\ dc_ready' = FALSE /\ dc_download' = "UNDEFINED"
         \/ \E state \in {"SESSION_LOGON", "USER_DATA_STREAM_SUBSCRIBE", "ACCOUNT"} :
              DcEnter(state)
      /\ dc_listen_token => dc_listen_token'
      /\ UNCHANGED <<request, wire>> \/ Post("ACCOUNT", wire) \/ Post("LISTEN_KEY", wire)
  BY DEF DropCopyReady, DropCopyDisconnected, SuspensionExpires, SocketAnswers,
         OnSessionLogon, OnUserDataStreamSubscribe, EventStreamTerminated, Terminated,
         TokenExpires, vars, dropCopy
<1>2. dc_status' # "READY" /\ ~ dc_ready' /\ dc_download' \notin {"ORDERS", "DONE"}
  <2>1. ASSUME NEW state \in {"SESSION_LOGON", "USER_DATA_STREAM_SUBSCRIBE", "ACCOUNT"},
               DcEnter(state)
        PROVE  dc_status' # "READY" /\ ~ dc_ready' /\ dc_download' = state
    <3>1. dc_status' # "READY" /\ dc_download' = state
      BY <2>1 DEF DcEnter
    <3>2. ~ dc_ready'
      BY <2>1, Zenon DEF DropCopyWaits, DcEnter
    <3> QED
      BY <3>1, <3>2
  <2> QED
    BY <1>1, <2>1 DEF DropCopyWaits
<1>3. request'["ORDERS"] = "none"
  BY <1>1 DEF DropCopyWaits, Post, TypeOK, Kinds
<1>4. wire' = wire \/ \E k : wire' = Marked(k, wire)
  BY <1>1, Zenon DEF Post, Marked
<1>5. ~ Carries(wire', "ORDERS")
  BY <1>4, CarriesMarked DEF DropCopyWaits, TypeOK
<1> QED
  BY <1>1, <1>2, <1>3, <1>5 DEF DropCopyWaits

\* The REST stream and its half of the timer send what is requested.
LEMMA RestSendsNoOrders ==
  ASSUME TypeOK, DropCopyWaits,
         OrderEntryConnected \/ OrderEntryDisconnected \/ RestAnswers \/ Timer
  PROVE  DropCopyWaits' /\ (dc_listen_token => dc_listen_token')
<1>0. /\ wire \in Seq(Query)
      /\ request \in [Kinds -> {"none", "requested", "responded"}]
      /\ "ORDERS" \in Kinds
  BY DEF TypeOK, Kinds
<1>1. UNCHANGED <<dc_status, dc_ready, dc_download, dc_listen_token>>
  BY DEF OrderEntryConnected, OrderEntryDisconnected, RestAnswers, ListenKeyAck,
         ListenKeyUpdate, DownloadAck, BorrowedAck, Timer, DropCopyWaits, dropCopy
<1>2. ASSUME NEW w \in Seq(Query), ~ Carries(w, "ORDERS"),
             NEW kind \in Kinds \cup {"BORROWED"}, kind # "ORDERS"
      PROVE  ~ Carries(Append(w, RestQuery(kind)), "ORDERS")
  BY <1>2, QueryType, CarriesAppend
<1>3. ASSUME NEW w \in Seq(Query), ~ Carries(w, "ORDERS"), EnterListenKey(w)
      PROVE  ~ Carries(wire', "ORDERS")
  BY <1>2, <1>3 DEF EnterListenKey, Kinds
<1>4. wire # <<>> => /\ Tail(wire) \in Seq(Query)
                     /\ Head(wire).kind # "ORDERS"
                     /\ ~ Carries(Tail(wire), "ORDERS")
  <2> SUFFICES ASSUME wire # <<>>
               PROVE  /\ Tail(wire) \in Seq(Query)
                      /\ Head(wire).kind # "ORDERS"
                      /\ ~ Carries(Tail(wire), "ORDERS")
    OBVIOUS
  <2>1. /\ Len(wire) \in Nat \ {0} /\ DOMAIN wire = 1..Len(wire)
        /\ Head(wire) = wire[1]
    BY <1>0
  <2>2. /\ DOMAIN Tail(wire) = 1..(Len(wire) - 1)
        /\ \A i \in 1..(Len(wire) - 1) : Tail(wire)[i] = wire[i + 1]
    BY <1>0, <2>1
  <2>3. \A i \in DOMAIN wire : wire[i].kind # "ORDERS"
    BY DEF DropCopyWaits, Carries
  <2>4. \A i \in 1..(Len(wire) - 1) : Tail(wire)[i].kind # "ORDERS"
    BY <2>1, <2>2, <2>3
  <2> QED
    BY <1>0, <2>1, <2>2, <2>3, <2>4, TailOfOne DEF Carries
<1>5. CASE OrderEntryConnected
  <2>1. PICK w \in {<<>>, wire} : EnterListenKey(w)
    BY <1>5 DEF OrderEntryConnected
  <2>2. w \in Seq(Query) /\ ~ Carries(w, "ORDERS")
    <3>1. ~ Carries(<<>>, "ORDERS")
      BY DEF Carries
    <3> QED
      BY <1>0, <3>1, SomeWire DEF DropCopyWaits
  <2>3. ~ Carries(wire', "ORDERS")
    BY <1>3, <2>1, <2>2
  <2>4. request' = request
    BY <1>5 DEF OrderEntryConnected
  <2> QED
    BY <1>1, <2>3, <2>4 DEF DropCopyWaits
<1>6. CASE OrderEntryDisconnected
  <2>1. UNCHANGED <<wire, request>>
    BY <1>6 DEF OrderEntryDisconnected
  <2> QED
    BY <1>1, <2>1 DEF DropCopyWaits
<1>7. CASE RestAnswers
  <2>1. PICK ok \in BOOLEAN :
          \/ ListenKeyAck(ok)
          \/ \E kind \in {"ACCOUNT", "ORDERS"} : DownloadAck(kind, ok)
          \/ BorrowedAck(ok)
    BY <1>7 DEF RestAnswers
  <2>2. wire # <<>>
    BY <2>1 DEF ListenKeyAck, DownloadAck, BorrowedAck, Answered
  <2>3. wire' = Tail(wire) \/ EnterListenKey(Tail(wire))
    BY <2>1 DEF ListenKeyAck, DownloadAck, BorrowedAck
  <2>4. ~ Carries(wire', "ORDERS")
    BY <1>3, <1>4, <2>2, <2>3
  <2>5. \E kind \in {"LISTEN_KEY", "ACCOUNT"} : Responded(kind)
    BY <1>4, <2>1, <2>2 DEF ListenKeyAck, DownloadAck, BorrowedAck, Answered
  <2>6. request'["ORDERS"] = "none"
    BY <1>0, <2>5 DEF Responded, DropCopyWaits
  <2> QED
    BY <1>1, <2>4, <2>6 DEF DropCopyWaits
<1>8. CASE Timer
  <2>1. PICK due \in BOOLEAN :
          wire' = WireWith(Polls(due)) /\ UNCHANGED request
    BY <1>8 DEF Timer, DropCopyWaits
  <2>2. "ORDERS" \notin Polls(due)
    BY DEF Polls, Polled, Pending, DropCopyWaits
  <2>3. ~ Carries(wire', "ORDERS")
    <3>1. CASE Polls(due) = {}
      BY <1>0, <2>1, <3>1, WireWithType DEF DropCopyWaits
    <3>2. ASSUME NEW kind \in Kinds \cup {"BORROWED"}, Polls(due) = {kind}
          PROVE  ~ Carries(wire', "ORDERS")
      <4>1. wire' = Append(wire, RestQuery(kind)) /\ kind # "ORDERS"
        BY <1>0, <2>1, <2>2, <3>2, WireWithType
      <4> QED
        BY <1>0, <1>2, <4>1 DEF DropCopyWaits
    <3> QED
      BY <3>1, <3>2, PollsType
  <2> QED
    BY <1>1, <2>1, <2>3 DEF DropCopyWaits
<1> QED
  BY <1>5, <1>6, <1>7, <1>8

\* What DropCopyBecomesReady expects never happens, with no fault and no loss nor
\* with any number of them: the open orders are never even requested, and a
\* listen token that was asked for is never noted as received.
THEOREM DropCopyNeverReady ==
  Spec => []DropCopyWaits /\ [][dc_listen_token => dc_listen_token']_vars
<1>1. Init => DropCopyWaits
  BY DEF Init, DropCopyWaits, Carries, Kinds
<1>2. TypeOK /\ DropCopyWaits /\ [Next]_vars =>
        DropCopyWaits' /\ [dc_listen_token => dc_listen_token']_vars
  BY DropCopySteps, RestSendsNoOrders DEF Next
<1> QED
  BY <1>1, <1>2, TypeCorrect, PTL DEF Spec

=============================================================================
