------------------------- MODULE PortfolioStreamProofs -------------------------
(***************************************************************************)
(* Theorems about PortfolioStream, for any number of symbols, listen keys, *)
(* renewals, failing requests and lost connections.                        *)
(***************************************************************************)
EXTENDS PortfolioStream, SequenceTheorems, FiniteSetTheorems, TLAPS

\* All that is ever on the wire, as the drop copy asks for no more.
WireKinds == {"ACCOUNT", "LISTEN_KEY"}

\* Positions of the requests that answer for a raised flag.
Accounts(w) == {i \in DOMAIN w : w[i] = "ACCOUNT"}

AtMostOne(w) == \A i, j \in Accounts(w) : i = j

\* Every variable but those about the wire.
Types ==
  /\ request \in [KindSet -> {"none", "requested", "responded"}]
  /\ connection_status \in {"UNDEFINED", "DISCONNECTED", "DOWNLOADING", "READY"}
  /\ ready \in BOOLEAN
  /\ download \in {"UNDEFINED", "LISTEN_KEY", "DONE"}
  /\ listen_key \in Nat
  /\ listen_key_refresh \in {"unset", "armed", "due"}
  /\ connected \in BOOLEAN
  /\ outlived \in BOOLEAN
  /\ dc_key \in Nat
  /\ dc_ready \in BOOLEAN
  /\ dc_connected \in BOOLEAN
  /\ issued \in Nat
  /\ valid \in Nat
  /\ refreshes \in Nat
  /\ faults \in Nat
  /\ losses \in Nat

\* Connection, published status, download and ready_ go together, but for a
\* download of the listen key that is retried without a connection.
RestFollows ==
  \/ /\ connected = TRUE
     /\ connection_status = "DOWNLOADING"
     /\ download = "LISTEN_KEY"
     /\ ready = FALSE
  \/ /\ connected = TRUE
     /\ connection_status = "READY"
     /\ download = "DONE"
     /\ ready = TRUE
  \/ /\ connected = FALSE
     /\ \/ connection_status \in {"UNDEFINED", "DISCONNECTED"}
        \/ connection_status = "DOWNLOADING" /\ download = "LISTEN_KEY"
     /\ download \in {"UNDEFINED", "LISTEN_KEY"}
     /\ ready = FALSE

\* Who is ready has a key, and who has a key has a drop copy and a renewal.
KeyFollows ==
  /\ ready = TRUE => listen_key # 0
  /\ listen_key # 0 => dc_key # 0 /\ listen_key_refresh # "unset"

\* The drop copy waits for its account, whatever the REST stream responds.
DropCopyWaits ==
  /\ request["ORDERS"] = "none"
  /\ request["TRADES"] = "none"
  /\ dc_status \in {"UNDEFINED", "DISCONNECTED", "DOWNLOADING"}
  /\ dc_download \in {"UNDEFINED", "ACCOUNT"}

\* A raised flag has a request on the wire, and only one, unless one was kept
\* over a reconnect; without a connection the flags are down.
WireFollows ==
  /\ wire \in Seq(WireKinds)
  /\ downloads \subseteq {"ACCOUNT"}
  /\ downloads # {} => connected = TRUE /\ Accounts(wire) # {}
  /\ outlived = FALSE =>
       /\ AtMostOne(wire)
       /\ connected = TRUE /\ Accounts(wire) # {} => downloads # {}

IInv == Types /\ RestFollows /\ KeyFollows /\ DropCopyWaits /\ WireFollows

-----------------------------------------------------------------------------
(* Wires *)

LEMMA KindsAre == KindSet = {"ACCOUNT", "ORDERS", "TRADES"}
<1>1. DOMAIN Kinds = 1 .. 3 /\ Kinds[1] = "ACCOUNT" /\ Kinds[2] = "ORDERS" /\ Kinds[3] = "TRADES"
  BY DEF Kinds
<1>2. 1 .. 3 = {1, 2, 3}
  OBVIOUS
<1> QED
  BY <1>1, <1>2 DEF KindSet

LEMMA KeyAppended ==
  ASSUME NEW w \in Seq(WireKinds)
  PROVE  /\ GetListenKey(w) \in Seq(WireKinds)
         /\ Accounts(GetListenKey(w)) = Accounts(w)
BY DEF GetListenKey, Accounts, WireKinds

LEMMA AccountAppended ==
  ASSUME NEW w \in Seq(WireKinds)
  PROVE  /\ w \o <<"ACCOUNT">> \in Seq(WireKinds)
         /\ Accounts(w \o <<"ACCOUNT">>) = Accounts(w) \cup {Len(w) + 1}
<1>1. <<"ACCOUNT">> \in Seq(WireKinds) /\ Len(<<"ACCOUNT">>) = 1 /\ <<"ACCOUNT">>[1] = "ACCOUNT"
  BY DEF WireKinds
<1> DEFINE v == w \o <<"ACCOUNT">>
<1>2. /\ v \in Seq(WireKinds)
      /\ Len(v) = Len(w) + 1
      /\ \A i \in 1 .. Len(v) : v[i] = IF i <= Len(w) THEN w[i] ELSE "ACCOUNT"
  BY <1>1
<1> HIDE DEF v
<1>3. DOMAIN v = 1 .. Len(v) /\ DOMAIN w = 1 .. Len(w) /\ Len(w) \in Nat
  BY <1>2
<1> QED
  BY <1>2, <1>3 DEF Accounts, v

LEMMA HeadTaken ==
  ASSUME NEW w \in Seq(WireKinds), w # <<>>
  PROVE  /\ Tail(w) \in Seq(WireKinds)
         /\ AtMostOne(w) => AtMostOne(Tail(w))
         /\ Head(w) # "ACCOUNT" => (Accounts(Tail(w)) # {} <=> Accounts(w) # {})
         /\ Head(w) = "ACCOUNT" /\ AtMostOne(w) => Accounts(Tail(w)) = {}
<1> DEFINE v == Tail(w)
<1>1. /\ v \in Seq(WireKinds)
      /\ Len(w) \in Nat \ {0}
      /\ Len(v) = Len(w) - 1
      /\ \A i \in 1 .. Len(v) : v[i] = w[i + 1]
      /\ Head(w) = w[1]
  OBVIOUS
<1>2. DOMAIN v = 1 .. Len(v) /\ DOMAIN w = 1 .. Len(w)
  BY <1>1
<1> HIDE DEF v
<1>3. \A i : i \in Accounts(v) => i + 1 \in Accounts(w) /\ i \in Nat \ {0}
  BY <1>1, <1>2 DEF Accounts
<1>4. \A i : i \in Accounts(w) => i = 1 \/ (i - 1 \in Accounts(v) /\ i \in Nat)
  BY <1>1, <1>2 DEF Accounts
<1>5. 1 \in Accounts(w) <=> Head(w) = "ACCOUNT"
  BY <1>1, <1>2 DEF Accounts
<1>6. AtMostOne(w) => AtMostOne(v)
  BY <1>3 DEF AtMostOne
<1>7. Head(w) # "ACCOUNT" => (Accounts(v) # {} <=> Accounts(w) # {})
  BY <1>3, <1>4, <1>5
<1>8. Head(w) = "ACCOUNT" /\ AtMostOne(w) => Accounts(v) = {}
  BY <1>3, <1>5 DEF AtMostOne
<1> QED
  BY <1>1, <1>6, <1>7, <1>8 DEF v

LEMMA EmptyWire == <<>> \in Seq(WireKinds) /\ Accounts(<<>>) = {}
BY DEF Accounts

\* A wire that is kept, with the flags and what has outlived.
LEMMA WireKept ==
  ASSUME WireFollows, UNCHANGED <<wire, downloads, connected, outlived>>
  PROVE  WireFollows'
BY DEF WireFollows

\* The same for a request of a listen key more, or an answer to one less.
LEMMA KeyWire ==
  ASSUME WireFollows, UNCHANGED <<downloads, connected, outlived>>,
         NEW w \in Seq(WireKinds),
         Accounts(w) # {} <=> Accounts(wire) # {},
         AtMostOne(wire) => AtMostOne(w),
         wire' = w \/ wire' = GetListenKey(w)
  PROVE  WireFollows'
<1>1. /\ wire' \in Seq(WireKinds)
      /\ Accounts(wire') = Accounts(w)
  BY KeyAppended
<1>2. AtMostOne(wire') <=> AtMostOne(w)
  BY <1>1 DEF AtMostOne
<1> QED
  BY <1>1, <1>2 DEF WireFollows

-----------------------------------------------------------------------------
(* The steps of the REST stream *)

LEMMA ConnectedStep ==
  ASSUME IInv, OrderEntryConnected
  PROVE  IInv'
<1>1. connected = FALSE /\ connected' = TRUE
  BY DEF OrderEntryConnected, IInv, Types
<1>2. /\ download' = "LISTEN_KEY"
      /\ connection_status' = "DOWNLOADING"
      /\ ready' = ready
  BY DEF OrderEntryConnected, EnterListenKey
<1>3. UNCHANGED <<request, key, downloads, dc_key, dropCopy, exchange, bounds>>
  BY DEF OrderEntryConnected
<1>4. PICK w \in {<<>>, wire} :
        wire' = GetListenKey(w) /\ outlived' = (outlived \/ w # <<>>)
  BY DEF OrderEntryConnected, EnterListenKey
<1>5. outlived' \in BOOLEAN /\ (outlived' = FALSE => w = <<>>)
  BY <1>4, Zenon
<1>6. WireFollows'
  <2>1. w \in Seq(WireKinds)
    BY EmptyWire DEF IInv, WireFollows
  <2>2. wire' \in Seq(WireKinds) /\ Accounts(wire') = Accounts(w)
    BY <1>4, <2>1, KeyAppended
  <2>3. downloads' = {}
    BY <1>1, <1>3 DEF IInv, WireFollows
  <2>4. outlived' = FALSE => Accounts(wire') = {}
    BY <1>5, <2>2, EmptyWire
  <2> QED
    BY <2>2, <2>3, <2>4 DEF WireFollows, AtMostOne
<1>7. RestFollows'
  BY <1>1, <1>2 DEF IInv, RestFollows
<1> QED
  BY <1>1, <1>2, <1>3, <1>5, <1>6, <1>7
     DEF IInv, Types, KeyFollows, DropCopyWaits, key, dropCopy, exchange, bounds

LEMMA DisconnectedStep ==
  ASSUME IInv, OrderEntryDisconnected
  PROVE  IInv'
<1>1. /\ connected' = FALSE
      /\ connection_status' = "DISCONNECTED"
      /\ ready' = FALSE
      /\ download' = IF download = "LISTEN_KEY" THEN download ELSE "UNDEFINED"
      /\ downloads' = {}
      /\ losses' = losses + 1
  BY DEF OrderEntryDisconnected, Unpublish, ForgetDownloads
<1>2. wire' = wire /\ outlived' = outlived
  BY DEF OrderEntryDisconnected
<1>3. UNCHANGED <<request, key, dc_key, dropCopy, exchange, refreshes, faults>>
  BY DEF OrderEntryDisconnected
<1>4. WireFollows'
  BY <1>1, <1>2 DEF IInv, WireFollows
<1>5. RestFollows'
  BY <1>1 DEF RestFollows
<1>6. outlived' \in BOOLEAN
  BY <1>2 DEF IInv, Types
<1>7. Types'
  <2>1. /\ connection_status' \in {"UNDEFINED", "DISCONNECTED", "DOWNLOADING", "READY"}
        /\ download' \in {"UNDEFINED", "LISTEN_KEY", "DONE"}
        /\ losses' \in Nat
    BY <1>1 DEF IInv, Types
  <2> QED
    BY <1>1, <1>3, <1>6, <2>1 DEF IInv, Types, key, dropCopy, exchange
<1>8. KeyFollows' /\ DropCopyWaits'
  BY <1>1, <1>3 DEF IInv, KeyFollows, DropCopyWaits, key, dropCopy
<1> QED
  BY <1>4, <1>5, <1>7, <1>8 DEF IInv

\* An answer takes the head of the wire and may count as a fault.
LEMMA AnsweredType ==
  ASSUME IInv, NEW kind, NEW ok \in BOOLEAN, Answered(kind, ok)
  PROVE  /\ wire # <<>> /\ Head(wire) = kind /\ faults' \in Nat
         /\ ok => connected = TRUE
<1>1. faults' = faults \/ faults' = faults + 1
  BY Zenon DEF Answered
<1> QED
  BY <1>1 DEF Answered, IInv, Types

LEMMA ListenKeyAckStep ==
  ASSUME IInv, NEW ok \in BOOLEAN, ListenKeyAck(ok)
  PROVE  IInv'
<1>1. /\ wire # <<>> /\ Head(wire) = "LISTEN_KEY" /\ faults' \in Nat
      /\ ok => connected = TRUE
  BY AnsweredType DEF ListenKeyAck
<1>2. UNCHANGED <<request, downloads, connected, outlived, dropCopy, refreshes, losses>>
  BY DEF ListenKeyAck
<1>3. wire' = Tail(wire) \/ wire' = GetListenKey(Tail(wire))
  BY DEF ListenKeyAck, RetryListenKey, EnterListenKey
<1>4. WireFollows'
  <2>1. /\ Tail(wire) \in Seq(WireKinds)
        /\ Accounts(Tail(wire)) # {} <=> Accounts(wire) # {}
        /\ AtMostOne(wire) => AtMostOne(Tail(wire))
    BY <1>1, HeadTaken DEF IInv, WireFollows
  <2> QED
    BY <1>2, <1>3, <2>1, KeyWire DEF IInv
<1>5. CASE ok
  <2>1. /\ valid' = IF valid = 0 THEN issued + 1 ELSE valid
        /\ issued' = IF valid = 0 THEN issued + 1 ELSE issued
        /\ listen_key' = valid'
        /\ dc_key' = IF listen_key = 0 THEN valid' ELSE dc_key
        /\ listen_key_refresh' = "armed"
        /\ IF download = "LISTEN_KEY" THEN Done ELSE UNCHANGED session
    BY <1>5 DEF ListenKeyAck, ListenKeyUpdate
  <2>2. valid' \in Nat \ {0} /\ issued' \in Nat
    BY <2>1 DEF IInv, Types
  <2>3. dc_key' # 0 /\ dc_key' \in Nat
    BY <2>1, <2>2 DEF IInv, Types, KeyFollows
  <2>4. RestFollows' /\ ready' \in BOOLEAN
    <3>1. CASE download = "LISTEN_KEY"
      <4>1. download' = "DONE" /\ connection_status' = "READY" /\ ready' = TRUE
        BY <2>1, <3>1 DEF Done
      <4> QED
        BY <1>1, <1>2, <1>5, <4>1 DEF RestFollows
    <3>2. CASE download # "LISTEN_KEY"
      BY <1>2, <2>1, <3>2 DEF IInv, Types, RestFollows, session
    <3> QED
      BY <3>1, <3>2
  <2> QED
    BY <1>1, <1>2, <1>4, <2>1, <2>2, <2>3, <2>4
       DEF IInv, Types, RestFollows, KeyFollows, DropCopyWaits, dropCopy
<1>6. CASE ~ ok
  <2>1. UNCHANGED <<key, dc_key, exchange>> /\ RetryListenKey
    BY <1>6 DEF ListenKeyAck
  <2>2. \/ UNCHANGED session
        \/ /\ download = "LISTEN_KEY" /\ download' = "LISTEN_KEY"
           /\ connection_status' = "DOWNLOADING" /\ ready' = ready
    BY <2>1 DEF RetryListenKey, EnterListenKey
  <2>3. RestFollows' /\ ready' = ready
    BY <1>1, <1>2, <2>2 DEF IInv, RestFollows, session
  <2> QED
    BY <1>1, <1>2, <1>4, <2>1, <2>3
       DEF IInv, Types, RestFollows, KeyFollows, DropCopyWaits, dropCopy, key, exchange
<1> QED
  BY <1>5, <1>6

LEMMA DownloadAckStep ==
  ASSUME IInv, NEW kind \in KindSet, NEW ok \in BOOLEAN, DownloadAck(kind, ok)
  PROVE  IInv'
<1>1. wire # <<>> /\ Head(wire) = kind /\ faults' \in Nat
  BY AnsweredType DEF DownloadAck
<1>2. /\ request' = [request EXCEPT ![kind] = "responded"]
      /\ downloads' = downloads \ {kind}
      /\ wire' = Tail(wire)
      /\ UNCHANGED <<session, key, connected, outlived, dc_key, dropCopy, exchange,
                     refreshes, losses>>
  BY DEF DownloadAck, Responded
<1>3. kind = "ACCOUNT"
  <2>1. Head(wire) \in WireKinds
    BY <1>1 DEF IInv, WireFollows
  <2> QED
    BY <1>1, <2>1, KindsAre DEF WireKinds
<1>4. WireFollows'
  BY <1>1, <1>2, <1>3, HeadTaken DEF IInv, WireFollows
<1>5. /\ request' \in [KindSet -> {"none", "requested", "responded"}]
      /\ request'["ORDERS"] = "none"
      /\ request'["TRADES"] = "none"
  BY <1>2, <1>3, KindsAre DEF IInv, Types, DropCopyWaits
<1> QED
  BY <1>1, <1>2, <1>4, <1>5
     DEF IInv, Types, RestFollows, KeyFollows, DropCopyWaits, session, key, dropCopy, exchange

LEMMA TimeStep ==
  ASSUME IInv, RefreshDue \/ KeyExpires
  PROVE  IInv'
<1>1. CASE RefreshDue
  BY <1>1, WireKept
     DEF RefreshDue, IInv, Types, RestFollows, KeyFollows, DropCopyWaits, session, rest,
         dropCopy, exchange
<1>2. CASE KeyExpires
  BY <1>2, WireKept
     DEF KeyExpires, IInv, Types, RestFollows, KeyFollows, DropCopyWaits, session, key, rest,
         dropCopy, bounds
<1> QED
  BY <1>1, <1>2

-----------------------------------------------------------------------------
(* The steps of the drop copy, and the timer *)

LEMMA DropCopyStep ==
  ASSUME IInv, DropCopyReady \/ DropCopyDisconnected
  PROVE  IInv'
<1>1. CASE DropCopyReady
  <2>1. /\ dc_download' = "ACCOUNT"
        /\ dc_status' = "DOWNLOADING"
        /\ dc_ready' = (dc_ready \/ FALSE)
        /\ request' = [request EXCEPT !["ACCOUNT"] = "requested"]
        /\ dc_connected' = TRUE
    BY <1>1 DEF DropCopyReady, DcEnter, Post
  <2>2. dc_ready' \in BOOLEAN
    BY <2>1, Zenon
  <2>3. /\ request' \in [KindSet -> {"none", "requested", "responded"}]
        /\ request'["ORDERS"] = "none"
        /\ request'["TRADES"] = "none"
    BY <2>1, KindsAre DEF IInv, Types, DropCopyWaits
  <2>4. UNCHANGED <<session, key, downloads, rest, dc_key, exchange, bounds>>
    BY <1>1 DEF DropCopyReady
  <2>5. WireFollows'
    BY <2>4, WireKept DEF IInv, rest
  <2>6. dc_download' = "ACCOUNT" /\ dc_status' = "DOWNLOADING" /\ dc_connected' = TRUE
    BY <2>1
  <2> QED
    BY <2>2, <2>3, <2>4, <2>5, <2>6
       DEF IInv, Types, RestFollows, KeyFollows, DropCopyWaits, session, key, rest,
           exchange, bounds
<1>2. CASE DropCopyDisconnected
  <2>1. /\ dc_download' = "UNDEFINED"
        /\ dc_status' = "DISCONNECTED"
        /\ dc_ready' = FALSE
        /\ dc_connected' = FALSE
        /\ losses' = losses + 1
    BY <1>2 DEF DropCopyDisconnected
  <2>2. UNCHANGED <<request, session, key, downloads, rest, dc_key, exchange, refreshes, faults>>
    BY <1>2 DEF DropCopyDisconnected
  <2>3. WireFollows'
    BY <2>2, WireKept DEF IInv, rest
  <2>4. Types'
    <3>1. dc_ready' \in BOOLEAN /\ dc_connected' \in BOOLEAN
      BY <2>1
    <3>2. losses' = losses + 1
      BY <2>1
    <3> QED
      BY <2>2, <3>1, <3>2 DEF IInv, Types, session, key, rest, exchange
  <2>5. RestFollows' /\ KeyFollows' /\ DropCopyWaits'
    BY <2>1, <2>2 DEF IInv, RestFollows, KeyFollows, DropCopyWaits, session, key, rest
  <2> QED
    BY <2>3, <2>4, <2>5 DEF IInv
<1> QED
  BY <1>1, <1>2

\* The timer polls for the account, or for nothing.
LEMMA PollsAre ==
  ASSUME IInv
  PROVE  \/ Polls = {}
         \/ /\ Polls = {"ACCOUNT"}
            /\ downloads = {}
            /\ connected = TRUE
<1>1. ASSUME NEW x \in Polls
      PROVE  x = "ACCOUNT" /\ downloads = {} /\ connected = TRUE
  <2>1. PICK i \in DOMAIN Kinds :
          /\ x = Kinds[i] /\ downloads = {} /\ request[Kinds[i]] = "requested"
          /\ connection_status = "READY"
    BY <1>1, Zenon DEF Polls
  <2>2. x \in KindSet
    BY <2>1 DEF KindSet
  <2>3. connected = TRUE
    BY <2>1 DEF IInv, RestFollows
  <2> QED
    BY <2>1, <2>2, <2>3, KindsAre DEF IInv, DropCopyWaits
<1> QED
  BY <1>1

LEMMA TimerStep ==
  ASSUME IInv, Timer
  PROVE  IInv'
<1> DEFINE w == IF RefreshListenKey THEN GetListenKey(wire) ELSE wire
<1>1. /\ w \in Seq(WireKinds)
      /\ Accounts(w) = Accounts(wire)
      /\ AtMostOne(w) <=> AtMostOne(wire)
  <2>1. w \in Seq(WireKinds) /\ Accounts(w) = Accounts(wire)
    BY KeyAppended DEF IInv, WireFollows
  <2> QED
    BY <2>1 DEF AtMostOne
<1>2. /\ wire' = IF Polls = {} THEN w ELSE w \o Queries(CHOOSE kind \in Polls : TRUE)
      /\ downloads' = downloads \cup Polls
      /\ UNCHANGED <<session, listen_key, connected, outlived, dc_key, dc_connected,
                     exchange, bounds>>
  BY DEF Timer
<1>3. listen_key_refresh' \in {listen_key_refresh, "armed"}
  BY DEF Timer
<1>4. UNCHANGED <<request, dc_status, dc_ready, dc_download>>
  BY DEF Timer, IInv, DropCopyWaits
<1> HIDE DEF w
<1>5. WireFollows'
  <2>1. CASE Polls = {}
    <3>1. wire' = w /\ downloads' = downloads
      BY <1>2, <2>1
    <3> QED
      BY <1>1, <1>2, <3>1, KeyWire DEF IInv
  <2>2. CASE Polls = {"ACCOUNT"} /\ downloads = {} /\ connected = TRUE
    <3>1. wire' = w \o <<"ACCOUNT">> /\ downloads' = {"ACCOUNT"}
      BY <1>2, <2>2 DEF Queries
    <3>2. wire' \in Seq(WireKinds) /\ Accounts(wire') = Accounts(w) \cup {Len(w) + 1}
      BY <1>1, <3>1, AccountAppended
    <3>3. outlived = FALSE => Accounts(w) = {}
      BY <1>1, <2>2 DEF IInv, WireFollows
    <3>4. outlived' = outlived /\ connected' = TRUE
      BY <1>2, <2>2
    <3> QED
      BY <3>1, <3>2, <3>3, <3>4 DEF WireFollows, AtMostOne
  <2> QED
    BY <2>1, <2>2, PollsAre
<1> QED
  BY <1>2, <1>3, <1>4, <1>5
     DEF IInv, Types, RestFollows, KeyFollows, DropCopyWaits, session, exchange, bounds

-----------------------------------------------------------------------------
(* The invariant *)

LEMMA InitInvariant == Init => IInv
<1> SUFFICES ASSUME Init PROVE IInv
  OBVIOUS
<1>1. /\ request \in [KindSet -> {"none", "requested", "responded"}]
      /\ request["ORDERS"] = "none"
      /\ request["TRADES"] = "none"
  BY KindsAre DEF Init
<1>2. WireFollows
  BY EmptyWire DEF Init, WireFollows, AtMostOne
<1> QED
  BY <1>1, <1>2 DEF Init, IInv, Types, RestFollows, KeyFollows, DropCopyWaits

LEMMA StutterStep ==
  ASSUME IInv, UNCHANGED vars
  PROVE  IInv'
BY WireKept
   DEF vars, session, key, rest, dropCopy, exchange, bounds, IInv, Types, RestFollows,
       KeyFollows, DropCopyWaits

LEMMA StepInvariant ==
  ASSUME IInv, [Next]_vars
  PROVE  IInv'
<1>1. ASSUME RestAnswers PROVE IInv'
  <2>1. \E ok \in BOOLEAN :
          ListenKeyAck(ok) \/ \E kind \in KindSet : DownloadAck(kind, ok)
    BY <1>1, KindsAre DEF RestAnswers, AccountAck, OpenOrdersAck, TradesAck
  <2> QED
    BY <2>1, ListenKeyAckStep, DownloadAckStep
<1> QED
  BY <1>1, ConnectedStep, DisconnectedStep, TimeStep, DropCopyStep, TimerStep, StutterStep
     DEF Next

LEMMA AlwaysInvariant == Spec => []IInv
BY InitInvariant, StepInvariant, PTL DEF Spec

-----------------------------------------------------------------------------
(* Theorems *)

\* Every variable of PortfolioStream keeps its type: the state of the two
\* streams of a portfolio account, their Request and the wire.
THEOREM TypeCorrect == Spec => []TypeOK
<1>1. IInv => TypeOK
  <2> SUFFICES ASSUME IInv PROVE TypeOK
    OBVIOUS
  <2>1. wire \in Seq(KindSet \cup {"LISTEN_KEY"})
    <3>1. WireKinds \subseteq KindSet \cup {"LISTEN_KEY"}
      BY KindsAre DEF WireKinds
    <3> QED
      BY <3>1 DEF IInv, WireFollows
  <2>2. downloads \subseteq KindSet
    BY KindsAre DEF IInv, WireFollows
  <2>3. dc_download \in {"UNDEFINED", "DONE"} \cup KindSet
    BY KindsAre DEF IInv, DropCopyWaits
  <2>4. dc_status \in {"UNDEFINED", "DISCONNECTED", "DOWNLOADING", "READY"}
    BY DEF IInv, DropCopyWaits
  <2> QED
    BY <2>1, <2>2, <2>3, <2>4 DEF IInv, Types, TypeOK
<1> QED
  BY <1>1, AlwaysInvariant, PTL

\* The timer of the REST stream is never stuck: a raised download flag has a
\* request in flight; and it has one download in flight at most, unless one is
\* kept over a reconnect.
THEOREM DownloadsAreInFlight == Spec => []DownloadsInFlight
<1>1. IInv => DownloadsInFlight
  <2> SUFFICES ASSUME IInv PROVE DownloadsInFlight
    OBVIOUS
  <2> DEFINE positions == {i \in DOMAIN wire : wire[i] # "LISTEN_KEY"}
  <2>1. positions = Accounts(wire)
    <3>1. \A i \in DOMAIN wire : wire[i] \in WireKinds
      BY DEF IInv, WireFollows
    <3> QED
      BY <3>1 DEF Accounts, WireKinds
  <2>2. downloads \subseteq {wire[i] : i \in positions}
    BY <2>1 DEF IInv, WireFollows, Accounts
  <2>3. ASSUME outlived = FALSE PROVE Cardinality(positions) <= 1
    <3>1. AtMostOne(wire)
      BY <2>3 DEF IInv, WireFollows
    <3>2. positions = {} \/ \E i : positions = {i}
      BY <2>1, <3>1 DEF AtMostOne
    <3> HIDE DEF positions
    <3>3. Cardinality({}) = 0 /\ \A i : Cardinality({i}) = 1
      BY FS_EmptySet, FS_Singleton
    <3>4. Cardinality(positions) = 0 \/ Cardinality(positions) = 1
      BY <3>2, <3>3
    <3> QED
      BY <3>4
  <2>4. outlived \in BOOLEAN
    BY DEF IInv, Types
  <2> QED
    BY <2>2, <2>3, <2>4 DEF DownloadsInFlight
<1> QED
  BY <1>1, AlwaysInvariant, PTL

\* OrderEntryPortfolio is ready_ only with its download done, a listen key, a
\* drop copy created for it and a renewal scheduled: the assertion that ready_
\* is down when the download completes never fails.
THEOREM ReadyIsKeyed == Spec => []ReadyMeansKeyed
<1>1. IInv => ReadyMeansKeyed
  <2>1. ASSUME IInv, ready PROVE ready = TRUE
    BY <2>1 DEF IInv, Types
  <2> QED
    BY <2>1 DEF IInv, RestFollows, KeyFollows, ReadyMeansKeyed
<1> QED
  BY <1>1, AlwaysInvariant, PTL

\* DropCopyPortfolio is never READY: it waits for the account, and its timer
\* looks for the response only when it is READY (drop_copy_portfolio.cpp).
THEOREM DropCopyNeverReady == Spec => [](dc_status # "READY")
<1>1. IInv => dc_status # "READY"
  BY DEF IInv, DropCopyWaits
<1> QED
  BY <1>1, AlwaysInvariant, PTL

-----------------------------------------------------------------------------
(* The REST stream implements StreamLifecycle *)

LEMMA StreamStep ==
  ASSUME IInv, [Next]_vars
  PROVE  [Stream!Next]_(Stream!vars)
<1>0. RestFollows /\ RestFollows'
  BY StepInvariant DEF IInv
<1> USE DEF RestFollows, Stream!Next, Stream!vars
<1>1. CASE OrderEntryConnected
  <2>1. /\ connected = FALSE /\ connected' = TRUE
        /\ download' = "LISTEN_KEY" /\ connection_status' = "DOWNLOADING"
    BY <1>0, <1>1 DEF OrderEntryConnected, EnterListenKey
  <2> QED
    BY <1>0, <2>1 DEF Stream!LinkUp
<1>2. CASE OrderEntryDisconnected
  <2>1. /\ connected = TRUE /\ connected' = FALSE
        /\ connection_status' = "DISCONNECTED"
    BY <1>0, <1>2 DEF OrderEntryDisconnected, Unpublish
  <2> QED
    BY <1>0, <2>1 DEF Stream!LinkDown
<1>3. ASSUME NEW ok \in BOOLEAN, ListenKeyAck(ok)
      PROVE  [Stream!Next]_(Stream!vars)
  <2>1. connected' = connected /\ (ok => connected = TRUE)
    BY <1>3, AnsweredType DEF ListenKeyAck
  <2>2. \/ connection_status' = connection_status /\ download' = download
        \/ connected = TRUE /\ connection_status' = "READY"
        \/ connection_status' = "DOWNLOADING" /\ download = "LISTEN_KEY"
             /\ download' = download
    BY <1>3, <2>1 DEF ListenKeyAck, RetryListenKey, EnterListenKey, Done, session
  <2> QED
    BY <1>0, <2>1, <2>2 DEF Stream!Complete, Stream!RetryUnlinked
<1>4. CASE UNCHANGED <<connected, connection_status, download>>
  BY <1>4
<1>5. ASSUME Next, ~ OrderEntryConnected, ~ OrderEntryDisconnected,
             ~ \E ok \in BOOLEAN : ListenKeyAck(ok)
      PROVE  UNCHANGED <<connected, connection_status, download>>
  BY <1>5 DEF Next, RestAnswers, AccountAck, OpenOrdersAck, TradesAck, DownloadAck,
     RefreshDue, KeyExpires, DropCopyReady, DropCopyDisconnected, Timer, session, rest
<1>6. CASE UNCHANGED vars
  BY <1>6, <1>4 DEF vars, session, rest
<1> QED
  BY <1>1, <1>2, <1>3, <1>4, <1>5, <1>6

\* The REST stream of a portfolio account is READY only on a live connection
\* whose download, the listen key, is done; a request that fails after the loss
\* may have DOWNLOADING published, READY never.
THEOREM PortfolioImplementsStream == Spec => ImplementsStream
<1>1. Init => Stream!Init
  BY DEF Init, Stream!Init
<1> QED
  BY <1>1, StreamStep, AlwaysInvariant, PTL DEF Spec, ImplementsStream, Stream!Spec

=============================================================================
