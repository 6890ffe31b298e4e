---------------------------- MODULE SubscriptionProofs ----------------------------
(***************************************************************************)
(* Theorems about Subscription, for any number of symbols, any size of the *)
(* slices and any number of faults, losses and updates.                    *)
(***************************************************************************)
EXTENDS Subscription, FiniteSetTheorems, SequenceTheorems, TLAPS

-----------------------------------------------------------------------------
(* Slices *)

\* A division rounds down, and is zero below the divisor.
LEMMA Division ==
  ASSUME NEW a \in Nat, NEW b \in Nat \ {0}
  PROVE  /\ a \div b \in Nat
         /\ b * (a \div b) <= a
         /\ a < b * (a \div b) + b
OBVIOUS

LEMMA SlicesType ==
  ASSUME NEW n \in Nat
  PROVE  Slices(n) \in Nat
BY SubscriptionAssumption, Division DEF Slices

LEMMA NoSlices == Slices(0) = 0
BY SubscriptionAssumption DEF Slices

LEMMA SlicesGrow ==
  ASSUME NEW m \in Nat, NEW n \in Nat, m <= n
  PROVE  Slices(m) <= Slices(n)
BY SubscriptionAssumption DEF Slices

\* Where slice i begins and ends.
LEMMA SliceBounds ==
  ASSUME NEW i \in Nat \ {0}
  PROVE  /\ (i - 1) * MaxSubscriptions \in Nat
         /\ i * MaxSubscriptions \in Nat
         /\ (i - 1) * MaxSubscriptions <= i * MaxSubscriptions
BY SubscriptionAssumption

\* The elements of a slice, by their positions in the sequence.
LEMMA SliceProperties ==
  ASSUME NEW S, NEW s \in Seq(S), NEW i \in Nat \ {0}, NEW start \in Nat
  PROVE  /\ Slice(s, i, start) \in Seq(S)
         /\ \A n \in DOMAIN Slice(s, i, start) : \E k \in DOMAIN s :
              /\ Slice(s, i, start)[n] = s[k]
              /\ start < k
              /\ (i - 1) * MaxSubscriptions < k /\ k <= i * MaxSubscriptions
         /\ \A k \in DOMAIN s :
              start < k /\ (i - 1) * MaxSubscriptions < k /\ k <= i * MaxSubscriptions
                => \E n \in DOMAIN Slice(s, i, start) : Slice(s, i, start)[n] = s[k]
         /\ IsInjective(s) => IsInjective(Slice(s, i, start))
<1> DEFINE first == (i - 1) * MaxSubscriptions
           last  == i * MaxSubscriptions
           m     == (IF start > first THEN start ELSE first) + 1
           n     == IF last < Len(s) THEN last ELSE Len(s)
           t     == SubSeq(s, m, n)
<1>1. /\ Len(s) \in Nat /\ DOMAIN s = 1..Len(s)
      /\ \A k \in 1..Len(s) : s[k] \in S
  BY LenProperties
<1>2. first \in Nat /\ last \in Nat
  BY SliceBounds
<1>3. Slice(s, i, start) = t
  BY DEF Slice
<1> HIDE DEF first, last
<1>4. /\ m \in Int /\ n \in Int /\ 1 <= m /\ n <= Len(s)
      /\ first < m /\ start < m /\ n <= last
      /\ \A k \in 1..Len(s) : start < k /\ first < k /\ k <= last => m <= k /\ k <= n
  BY <1>1, <1>2
<1> HIDE DEF m, n
<1>5. /\ t \in Seq(S)
      /\ Len(t) = IF m <= n THEN n - m + 1 ELSE 0
      /\ \A k \in 1..(n - m + 1) : t[k] = s[m + k - 1]
  BY <1>1, <1>4, SubSeqProperties
<1> HIDE DEF t
<1>6. DOMAIN t = 1..Len(t) /\ Len(t) \in Nat
  BY <1>5, LenProperties
<1>7. \A k \in DOMAIN t : /\ t[k] = s[m + k - 1]
                          /\ m + k - 1 \in m..n
  BY <1>4, <1>5, <1>6
<1>8. \A k \in m..n : k - m + 1 \in DOMAIN t /\ t[k - m + 1] = s[k]
  BY <1>4, <1>5, <1>6
<1>9. \A j \in DOMAIN t : \E k \in DOMAIN s :
        t[j] = s[k] /\ start < k /\ first < k /\ k <= last
  BY <1>1, <1>2, <1>4, <1>6, <1>7
<1>10. \A k \in DOMAIN s :
         start < k /\ first < k /\ k <= last => \E j \in DOMAIN t : t[j] = s[k]
  BY <1>1, <1>4, <1>8
<1>11. ASSUME IsInjective(s) PROVE IsInjective(t)
  <2> SUFFICES ASSUME NEW a \in DOMAIN t, NEW b \in DOMAIN t, t[a] = t[b]
               PROVE  a = b
    BY DEF IsInjective
  <2>1. /\ m + a - 1 \in DOMAIN s /\ m + b - 1 \in DOMAIN s
        /\ s[m + a - 1] = s[m + b - 1]
    BY <1>1, <1>4, <1>7
  <2>2. m + a - 1 = m + b - 1
    BY <1>11, <2>1 DEF IsInjective
  <2> QED
    BY <1>4, <1>6, <2>2
<1> QED
  BY <1>3, <1>5, <1>9, <1>10, <1>11 DEF first, last

-----------------------------------------------------------------------------
(* Channels and messages *)

ChannelNames == {"trade", "miniTicker", "bookTicker", "depth", "kline_1m"}

\* The channels of a stream are few, and all different.
LEMMA ChannelsProperties ==
  ASSUME NEW p
  PROVE  /\ Channels(p) \in Seq(ChannelNames)
         /\ IsInjective(Channels(p))
<1> DEFINE head == IF p = "PRIMARY" THEN <<"trade", "miniTicker">> ELSE <<>>
           body == <<"bookTicker", "depth">>
           tail == IF TimeSeries THEN <<"kline_1m">> ELSE <<>>
<1>0. /\ <<"trade", "miniTicker">> \in Seq(ChannelNames)
      /\ <<"bookTicker", "depth">> \in Seq(ChannelNames)
      /\ <<"kline_1m">> \in Seq(ChannelNames)
      /\ <<>> \in Seq(ChannelNames)
  BY DEF ChannelNames
<1>1. /\ head \in Seq(ChannelNames) /\ Len(head) \in {0, 2}
      /\ body \in Seq(ChannelNames) /\ Len(body) = 2
      /\ tail \in Seq(ChannelNames) /\ Len(tail) \in {0, 1}
  BY <1>0
<1>2. Channels(p) = head \o body \o tail
  BY DEF Channels
<1>3. /\ Channels(p) \in Seq(ChannelNames)
      /\ Len(Channels(p)) = Len(head) + 2 + Len(tail)
  BY <1>1, <1>2
<1>4. \A k \in 1..Len(Channels(p)) :
        Channels(p)[k] = IF k <= Len(head) THEN head[k]
                         ELSE IF k <= Len(head) + 2 THEN body[k - Len(head)]
                         ELSE tail[k - Len(head) - 2]
  BY <1>1, <1>2, <1>3
<1>5. DOMAIN Channels(p) = 1..Len(Channels(p))
  BY <1>3
<1>6. CASE p = "PRIMARY"
  BY <1>1, <1>3, <1>4, <1>5, <1>6 DEF IsInjective
<1>7. CASE p # "PRIMARY"
  BY <1>1, <1>3, <1>4, <1>5, <1>7 DEF IsInjective
<1> QED
  BY <1>3, <1>6, <1>7

LEMMA ChannelsDomain ==
  ASSUME NEW p
  PROVE  Len(Channels(p)) \in Nat /\ DOMAIN Channels(p) = 1..Len(Channels(p))
BY ChannelsProperties, LenProperties

\* One message for each channel, unless there is nothing to subscribe to.
LEMMA MessagesProperties ==
  ASSUME NEW p, NEW slice \in Seq(Symbols)
  PROVE  /\ Messages(p, slice) \in Seq(MessageType(p))
         /\ slice = <<>> => Messages(p, slice) = <<>>
         /\ slice # <<>> =>
              /\ DOMAIN Messages(p, slice) = DOMAIN Channels(p)
              /\ \A k \in DOMAIN Channels(p) :
                   /\ Messages(p, slice)[k].channel = Channels(p)[k]
                   /\ Messages(p, slice)[k].symbols = slice
<1>1. CASE slice = <<>>
  BY <1>1 DEF Messages
<1>2. CASE slice # <<>>
  <2> DEFINE e(k) == [channel |-> Channels(p)[k], symbols |-> slice]
  <2>1. Messages(p, slice) = [k \in 1..Len(Channels(p)) |-> e(k)]
    BY <1>2, ChannelsDomain DEF Messages
  <2>2. \A k \in 1..Len(Channels(p)) : e(k) \in MessageType(p)
    BY <1>2, ChannelsDomain DEF MessageType
  <2>3. [k \in 1..Len(Channels(p)) |-> e(k)] \in Seq(MessageType(p))
    <3> HIDE DEF e
    <3> QED
      BY <2>2, ChannelsDomain
  <2> QED
    BY <1>2, <2>1, <2>3, ChannelsDomain
<1> QED
  BY <1>1, <1>2

-----------------------------------------------------------------------------
(* Streams *)

StreamType(p) ==
  [status : {"UNDEFINED", "READY", "DISCONNECTED"},
   queue : Seq(MessageType(p)),
   sent : Seq(MessageType(p))]

LEMMA NewStreamType == \A p : NewStream \in StreamType(p)
BY DEF NewStream, StreamType

\* A stream whose queue grows.
Queued(stream, more) == [stream EXCEPT !.queue = @ \o more]

LEMMA QueuedType ==
  ASSUME NEW p, NEW stream \in StreamType(p), NEW more \in Seq(MessageType(p))
  PROVE  /\ Queued(stream, more) \in StreamType(p)
         /\ Queued(stream, more).queue = stream.queue \o more
         /\ Queued(stream, more).sent = stream.sent
         /\ Queued(stream, more).status = stream.status
<1>1. stream.queue \o more \in Seq(MessageType(p))
  BY ConcatProperties DEF StreamType
<1> QED
  BY <1>1 DEF StreamType, Queued

\* The streams of a priority after an update: those there were, the READY ones
\* with more in their queues, and as many new ones as it takes.
LEMMA GrownProperties ==
  ASSUME NEW p, market_data[p] \in Seq(StreamType(p)),
         NEW s \in Seq(Symbols), NEW start \in Nat
  PROVE  LET old == market_data[p]
             new == Grown(p, s, start)
         IN  /\ new \in Seq(StreamType(p))
             /\ Len(new) = IF Slices(Len(s)) > Len(old) THEN Slices(Len(s)) ELSE Len(old)
             /\ \A i \in 1..Len(new) :
                  /\ i > Len(old) => new[i] = NewStream
                  /\ i <= Len(old) /\ old[i].status # "READY" => new[i] = old[i]
                  /\ i <= Len(old) /\ old[i].status = "READY" =>
                       new[i] = Queued(old[i], Messages(p, Slice(s, i, start)))
<1> DEFINE old == market_data[p]
           n == IF Slices(Len(s)) > Len(old) THEN Slices(Len(s)) ELSE Len(old)
           e(i) == IF i > Len(old) THEN NewStream
                   ELSE LET stream == old[i]
                        IN  IF stream.status = "READY"
                            THEN Queued(stream, Messages(p, Slice(s, i, start)))
                            ELSE stream
<1>1. n \in Nat
  BY SlicesType, LenProperties
<1>2. Grown(p, s, start) = [i \in 1..n |-> e(i)]
  BY DEF Grown, Queued
<1>3. ASSUME NEW i \in 1..n PROVE e(i) \in StreamType(p)
  <2>1. CASE i > Len(old)
    BY <2>1, NewStreamType
  <2>2. CASE i <= Len(old)
    <3>1. old[i] \in StreamType(p) /\ ~ (i > Len(old))
      BY <2>2, <1>1, LenProperties, ElementOfSeq
    <3>2. Messages(p, Slice(s, i, start)) \in Seq(MessageType(p))
      <4>1. i \in Nat \ {0}
        BY <1>1
      <4> QED
        BY <4>1, SliceProperties, MessagesProperties
    <3> QED
      BY <3>1, <3>2, QueuedType
  <2> QED
    BY <1>1, <2>1, <2>2, LenProperties
<1>4. [i \in 1..n |-> e(i)] \in Seq(StreamType(p)) /\ Len([i \in 1..n |-> e(i)]) = n
  <2> HIDE DEF n, e
  <2> QED
    BY <1>1, <1>3
<1>5. \A i \in 1..n : Grown(p, s, start)[i] = e(i)
  BY <1>2
<1>6. Len(Grown(p, s, start)) = n /\ Grown(p, s, start) \in Seq(StreamType(p))
  BY <1>2, <1>4
<1>7. \A i \in 1..n :
        /\ i > Len(old) => e(i) = NewStream
        /\ i <= Len(old) /\ old[i].status # "READY" => e(i) = old[i]
        /\ i <= Len(old) /\ old[i].status = "READY" =>
             e(i) = Queued(old[i], Messages(p, Slice(s, i, start)))
  BY LenProperties
<1> HIDE DEF e, n
<1> QED
  BY <1>5, <1>6, <1>7 DEF n

\* A finite set, in some order.
LEMMA SetToSeqProperties ==
  ASSUME NEW S, IsFiniteSet(S)
  PROVE  /\ SetToSeq(S) \in Seq(S)
         /\ Len(SetToSeq(S)) = Cardinality(S)
         /\ IsInjective(SetToSeq(S))
         /\ ToSet(SetToSeq(S)) = S
<1> DEFINE f == SetToSeq(S)
           n == Cardinality(S)
<1>1. n \in Nat /\ \E g \in [1..n -> S] : IsInjective(g)
  BY FS_CardinalityType DEF ExistsBijection, Bijection, Injection
<1>2. f \in [1..n -> S] /\ IsInjective(f)
  BY <1>1 DEF SetToSeq
<1> HIDE DEF f
<1>3. f \in Seq(S) /\ Len(f) = n
  BY <1>1, <1>2
<1>4. IsFiniteSet(1..n) /\ Cardinality(1..n) = n
  BY <1>1, FS_Interval
<1>5. f \in Injection(1..n, S)
  BY <1>2 DEF Injection
<1>6. f \in Surjection(1..n, S)
  BY <1>4, <1>5, FS_Injection
<1>7. ToSet(f) = S
  BY <1>2, <1>6 DEF ToSet, Surjection
<1> QED
  BY <1>2, <1>3, <1>7 DEF f

-----------------------------------------------------------------------------
(* Type correctness *)

LEMMA TypeInit == Init => TypeOK
<1> SUFFICES ASSUME Init PROVE TypeOK
  OBVIOUS
<1>1. /\ DOMAIN market_data = Priorities
      /\ \A p \in Priorities : market_data[p] \in Seq(StreamType(p))
  BY DEF Init
<1>2. symbols \in Seq(Symbols) /\ processed \in Seq(Nat) /\ wire \in Seq(Nat)
  BY DEF Init
<1>3. all_symbols \subseteq Symbols
  BY DEF Init
<1> QED
  BY <1>1, <1>2, <1>3 DEF Init, TypeOK, StreamType

\* One stream changes.
Becomes(p, i, stream) ==
  market_data' = [market_data EXCEPT ![p] = [@ EXCEPT ![i] = stream]]

LEMMA StreamsType ==
  ASSUME TypeOK, NEW p \in Priorities, NEW i \in Streams(p),
         NEW stream \in StreamType(p),
         Becomes(p, i, stream)
  PROVE  /\ DOMAIN market_data' = Priorities
         /\ \A q \in Priorities : market_data'[q] \in Seq(StreamType(q))
         /\ \A q \in Priorities : Len(market_data'[q]) = Len(market_data[q])
         /\ \A q \in Priorities : \A j \in Streams(q) :
              market_data'[q][j] = IF q = p /\ j = i THEN stream ELSE market_data[q][j]
<1>1. /\ DOMAIN market_data = Priorities
      /\ \A q \in Priorities : market_data[q] \in Seq(StreamType(q))
  BY DEF TypeOK, StreamType
<1>2. \A q \in Priorities :
        market_data'[q] = IF q = p THEN [market_data[p] EXCEPT ![i] = stream]
                          ELSE market_data[q]
  BY <1>1 DEF Becomes
<1>3. DOMAIN market_data' = Priorities
  BY <1>1 DEF Becomes
<1>4. /\ [market_data[p] EXCEPT ![i] = stream] \in Seq(StreamType(p))
      /\ Len([market_data[p] EXCEPT ![i] = stream]) = Len(market_data[p])
      /\ \A j \in Streams(p) : [market_data[p] EXCEPT ![i] = stream][j] =
                                  IF j = i THEN stream ELSE market_data[p][j]
  BY <1>1, ExceptSeq DEF Streams
<1> QED
  BY <1>1, <1>2, <1>3, <1>4

\* An update appends what is new and lets the streams of each priority grow.
LEMMA UpdateType ==
  ASSUME TypeOK, NEW wanted \in SUBSET Symbols, Learn(wanted)
  PROVE  /\ all_symbols' \subseteq Symbols
         /\ symbols' = symbols \o SetToSeq(wanted \ all_symbols)
         /\ symbols' \in Seq(Symbols)
         /\ DOMAIN market_data' = Priorities
         /\ \A p \in Priorities :
              /\ market_data'[p] = Grown(p, symbols', Len(symbols))
              /\ market_data'[p] \in Seq(StreamType(p))
<1> DEFINE new == wanted \ all_symbols
<1>1. IsFiniteSet(new) /\ new \subseteq Symbols
  BY SubscriptionAssumption, FS_Subset
<1>2. SetToSeq(new) \in Seq(Symbols)
  BY <1>1, SetToSeqProperties, SeqMonotonic
<1>3. symbols' = symbols \o SetToSeq(new)
  BY DEF Learn, SymbolsUpdate
<1> HIDE DEF new
<1>4. symbols' \in Seq(Symbols) /\ Len(symbols) \in Nat
  BY <1>2, <1>3, ConcatProperties, LenProperties DEF TypeOK
<1>5. market_data' = [p \in Priorities |-> Grown(p, symbols', Len(symbols))]
  BY DEF Learn, SymbolsUpdate, new
<1>6. \A p \in Priorities : Grown(p, symbols', Len(symbols)) \in Seq(StreamType(p))
  <2>1. \A p \in Priorities : market_data[p] \in Seq(StreamType(p))
    BY DEF TypeOK, StreamType
  <2> QED
    BY <1>4, <2>1, GrownProperties
<1>7. all_symbols' \subseteq Symbols
  BY DEF Learn, TypeOK
<1> QED
  BY <1>3, <1>4, <1>5, <1>6, <1>7 DEF new

\* What Rest keeps of the type invariant.
RestTypeOK ==
  /\ connection_status \in {"UNDEFINED", "DOWNLOADING", "READY", "DISCONNECTED"}
  /\ ready \in BOOLEAN
  /\ download \in {"UNDEFINED", "EXCHANGE_INFO", "DONE"}
  /\ sequence \in Nat
  /\ processed \in Seq(Nat)
  /\ connected \in BOOLEAN
  /\ wire \in Seq(Nat)

LEMMA RemoveAtType ==
  ASSUME NEW S, NEW s \in Seq(S), NEW k \in DOMAIN s
  PROVE  RemoveAt(s, k) \in Seq(S)
<1>1. k \in 1..Len(s) /\ Len(s) \in Nat
  BY LenProperties
<1>2. SubSeq(s, 1, k - 1) \in Seq(S) /\ SubSeq(s, k + 1, Len(s)) \in Seq(S)
  BY <1>1, SubSeqProperties
<1> QED
  BY <1>2, ConcatProperties DEF RemoveAt

LEMMA RestType ==
  ASSUME TypeOK, RestConnected \/ RestDisconnected \/ RestAnswered
  PROVE  RestTypeOK'
<1>0. RestTypeOK
  BY DEF TypeOK, RestTypeOK
<1> USE DEF RestTypeOK
<1>1. CASE RestConnected
  <2>1. sequence' \in Nat
    BY <1>0, <1>1 DEF RestConnected
  <2>2. wire' \in Seq(Nat)
    <3>1. PICK w \in {<<>>, wire} : EnterExchangeInfo(w, sequence')
      BY <1>1 DEF RestConnected
    <3>2. w \in Seq(Nat)
      <4>1. <<>> \in Seq(Nat) /\ wire \in Seq(Nat)
        BY <1>0
      <4> QED
        BY <4>1
    <3> QED
      BY <2>1, <3>1, <3>2, AppendProperties DEF EnterExchangeInfo
  <2> QED
    BY <1>0, <1>1, <2>1, <2>2 DEF RestConnected, EnterExchangeInfo
<1>2. CASE RestDisconnected
  BY <1>0, <1>2 DEF RestDisconnected
<1>3. ASSUME NEW k \in DOMAIN wire, ExchangeInfoError(k) PROVE RestTypeOK'
  <2>1. RemoveAt(wire, k) \in Seq(Nat)
    BY <1>0, RemoveAtType
  <2>2. Append(RemoveAt(wire, k), sequence) \in Seq(Nat)
    BY <1>0, <2>1, AppendProperties
  <2> QED
    BY <1>0, <1>3, <2>1, <2>2 DEF ExchangeInfoError, EnterExchangeInfo
<1>4. ASSUME NEW k \in DOMAIN wire, NEW listed, ExchangeInfoAck(k, listed)
      PROVE  RestTypeOK'
  <2>1. RemoveAt(wire, k) \in Seq(Nat)
    BY <1>0, RemoveAtType
  <2>2. wire[k] \in Nat
    BY <1>0, LenProperties, ElementOfSeq
  <2>3. Append(processed, wire[k]) \in Seq(Nat)
    BY <1>0, <2>2, AppendProperties
  <2> QED
    BY <1>0, <1>4, <2>1, <2>3 DEF ExchangeInfoAck
<1> QED
  BY <1>1, <1>2, <1>3, <1>4 DEF RestAnswered

\* The first n elements of a queue are sent: none is lost, repeated or overtaken.
LEMMA Drained ==
  ASSUME NEW T, NEW sent \in Seq(T), NEW queue \in Seq(T), NEW n \in DOMAIN queue
  PROVE  /\ SubSeq(queue, n + 1, Len(queue)) \in Seq(T)
         /\ sent \o SubSeq(queue, 1, n) \in Seq(T)
         /\ (sent \o SubSeq(queue, 1, n)) \o SubSeq(queue, n + 1, Len(queue))
              = sent \o queue
<1> DEFINE gone == SubSeq(queue, 1, n)
           left == SubSeq(queue, n + 1, Len(queue))
<1>1. Len(queue) \in Nat /\ n \in 1..Len(queue)
  BY LenProperties
<1>2. left \in Seq(T) /\ gone \in Seq(T)
  BY <1>1, SubSeqProperties, ElementOfSeq
<1>3. gone \o left = SubSeq(queue, 1, Len(queue))
  <2>1. /\ 1 \in 1..Len(queue) + 1
        /\ n \in (1 - 1)..Len(queue)
        /\ Len(queue) \in n..Len(queue)
    BY <1>1
  <2> QED
    BY <1>1, <2>1, ConcatAdjacentSubSeq
<1>4. gone \o left = queue
  BY <1>3, SubSeqFull
<1> HIDE DEF gone, left
<1>5. (sent \o gone) \o left = sent \o (gone \o left)
  BY <1>2, Z3
<1>6. sent \o gone \in Seq(T)
  BY <1>2, ConcatProperties
<1> QED
  BY <1>2, <1>4, <1>5, <1>6 DEF gone, left

\* A step of a stream: what becomes of it.
LEMMA MarketDataStep ==
  ASSUME TypeOK, NEW p \in Priorities, NEW i,
         Ready(p, i) \/ Disconnected(p, i) \/ Timer(p, i)
  PROVE  \E stream \in StreamType(p) :
           /\ i \in Streams(p)
           /\ Becomes(p, i, stream)
           /\ UNCHANGED <<shared, rest>>
           /\ \/ /\ market_data[p][i].status # "READY" /\ stream.status = "READY"
                 /\ stream.sent = market_data[p][i].sent
                 /\ stream.queue = market_data[p][i].queue
                                     \o Messages(p, Slice(symbols, i, 0))
              \/ stream.status # "READY" /\ stream.sent = <<>> /\ stream.queue = <<>>
              \/ /\ stream.status = market_data[p][i].status
                 /\ Requested(stream) = Requested(market_data[p][i])
<1> DEFINE old == market_data[p][i]
<1>0. /\ DOMAIN market_data = Priorities
      /\ i \in Streams(p)
      /\ market_data[p] \in Seq(StreamType(p))
      /\ old \in StreamType(p)
  <2>1. market_data[p] \in Seq(StreamType(p)) /\ i \in Streams(p)
    BY DEF TypeOK, StreamType, Ready, Disconnected, Timer
  <2> QED
    BY <2>1, ElementOfSeq DEF TypeOK, Streams
<1>1. CASE Ready(p, i)
  <2> DEFINE more == Messages(p, Slice(symbols, i, 0))
             stream == [old EXCEPT !.status = "READY", !.queue = @ \o more]
  <2>1. more \in Seq(MessageType(p))
    <3>1. i \in Nat \ {0} /\ symbols \in Seq(Symbols)
      BY <1>0, LenProperties DEF Streams, TypeOK
    <3> QED
      BY <3>1, SliceProperties, MessagesProperties
  <2>2. old.queue \o more \in Seq(MessageType(p))
    BY <1>0, <2>1, ConcatProperties DEF StreamType
  <2>3. /\ Becomes(p, i, stream)
        /\ old.status # "READY"
        /\ UNCHANGED <<shared, rest>>
    BY <1>0, <1>1 DEF Becomes, Ready
  <2> HIDE DEF more
  <2>4. /\ stream \in StreamType(p) /\ stream.status = "READY"
        /\ stream.sent = old.sent /\ stream.queue = old.queue \o more
    BY <1>0, <2>2 DEF StreamType
  <2> QED
    BY <1>0, <2>3, <2>4 DEF more
<1>2. CASE Disconnected(p, i)
  <2> DEFINE stream == DisconnectedStream(old)
  <2>1. /\ Becomes(p, i, stream)
        /\ UNCHANGED <<shared, rest>>
    BY <1>0, <1>2 DEF Becomes, Disconnected
  <2>2. /\ stream \in StreamType(p) /\ stream.status # "READY"
        /\ stream.sent = <<>> /\ stream.queue = <<>>
    <3>1. <<>> \in Seq(MessageType(p))
      OBVIOUS
    <3> QED
      BY <1>0, <3>1 DEF DisconnectedStream, StreamType
  <2> QED
    BY <1>0, <2>1, <2>2
<1>3. CASE Timer(p, i)
  <2>1. PICK n \in DOMAIN old.queue :
          market_data' = [market_data EXCEPT
            ![p][i].queue = SubSeq(@, n + 1, Len(@)),
            ![p][i].sent = @ \o SubSeq(market_data[p][i].queue, 1, n)]
    BY <1>3 DEF Timer
  <2> DEFINE left == SubSeq(old.queue, n + 1, Len(old.queue))
             gone == SubSeq(old.queue, 1, n)
             stream == [old EXCEPT !.queue = left, !.sent = @ \o gone]
  <2>2. /\ old.queue \in Seq(MessageType(p)) /\ old.sent \in Seq(MessageType(p))
    BY <1>0 DEF StreamType
  <2>3. /\ left \in Seq(MessageType(p))
        /\ old.sent \o gone \in Seq(MessageType(p))
        /\ (old.sent \o gone) \o left = old.sent \o old.queue
    BY <2>2, Drained
  <2>4. Becomes(p, i, stream)
    BY <1>0, <2>1 DEF Becomes, StreamType
  <2> HIDE DEF left, gone
  <2>6. /\ stream \in StreamType(p) /\ stream.status = old.status
        /\ stream.sent = old.sent \o gone /\ stream.queue = left
    BY <1>0, <2>3 DEF StreamType
  <2>7. Requested(stream) = Requested(old)
    BY <2>3, <2>6 DEF Requested
  <2>8. UNCHANGED <<shared, rest>>
    BY <1>3 DEF Timer
  <2> QED
    BY <1>0, <2>4, <2>6, <2>7, <2>8
<1> QED
  BY <1>1, <1>2, <1>3

\* What the exchange lists is known by names in lower case.
LEMMA NormalizedType ==
  ASSUME NEW listed \in SUBSET Listed
  PROVE  Normalized(listed \ Discarded) \in SUBSET Symbols
BY SubscriptionAssumption DEF Normalized

LEMMA TypeStep == TypeOK /\ [Next]_vars => TypeOK'
<1> SUFFICES ASSUME TypeOK, [Next]_vars PROVE TypeOK'
  OBVIOUS
<1> DEFINE SharedTypeOK == /\ all_symbols \subseteq Symbols
                           /\ symbols \in Seq(Symbols)
                           /\ DOMAIN market_data = Priorities
                           /\ \A p \in Priorities : market_data[p] \in Seq(StreamType(p))
           BoundsTypeOK == faults \in Nat /\ losses \in Nat /\ updates \in Nat
<1>1. /\ SharedTypeOK /\ RestTypeOK /\ BoundsTypeOK
      /\ SharedTypeOK' /\ RestTypeOK' /\ BoundsTypeOK' => TypeOK'
  BY DEF TypeOK, RestTypeOK, StreamType
<1>2. BoundsTypeOK'
  <2> HIDE DEF SharedTypeOK
  <2>1. /\ faults' \in {faults, faults + 1}
        /\ losses' \in {losses, losses + 1}
        /\ updates' \in {updates, updates + 1}
    <3>1. CASE UNCHANGED vars
      BY <3>1 DEF vars, bounds
    <3>2. CASE RestConnected \/ RestDisconnected
      BY <3>2 DEF RestConnected, RestDisconnected, bounds
    <3>3. CASE RestAnswered
      BY <3>3 DEF RestAnswered, ExchangeInfoError, ExchangeInfoAck, bounds
    <3>4. ASSUME NEW wanted, Subscribe(wanted)
          PROVE  /\ faults' \in {faults, faults + 1}
                 /\ losses' \in {losses, losses + 1}
                 /\ updates' \in {updates, updates + 1}
      BY <3>4 DEF Subscribe
    <3>5. ASSUME NEW p, NEW i, Ready(p, i) \/ Disconnected(p, i) \/ Timer(p, i)
          PROVE  /\ faults' \in {faults, faults + 1}
                 /\ losses' \in {losses, losses + 1}
                 /\ updates' \in {updates, updates + 1}
      BY <3>5 DEF Ready, Disconnected, Timer, bounds
    <3> QED
      BY <3>1, <3>2, <3>3, <3>4, <3>5 DEF Next
  <2> QED
    BY <1>1, <2>1
<1>3. CASE UNCHANGED vars
  BY <1>1, <1>2, <1>3 DEF vars, shared, rest, RestTypeOK
<1>4. CASE RestConnected \/ RestDisconnected \/ RestAnswered
  <2>1. RestTypeOK'
    BY <1>4, RestType
  <2>2. CASE UNCHANGED <<shared, market_data>>
    BY <1>1, <1>2, <2>1, <2>2 DEF shared
  <2>3. CASE \E wanted \in SUBSET Symbols : Learn(wanted)
    BY <1>1, <1>2, <2>1, <2>3, UpdateType
  <2>4. ASSUME NEW k \in DOMAIN wire, NEW listed \in SUBSET Listed,
               ExchangeInfoAck(k, listed)
        PROVE  \/ UNCHANGED <<shared, market_data>>
               \/ \E wanted \in SUBSET Symbols : Learn(wanted)
    BY <2>4, NormalizedType DEF ExchangeInfoAck
  <2> QED
    BY <1>4, <2>2, <2>3, <2>4
       DEF RestConnected, RestDisconnected, RestAnswered, ExchangeInfoError
<1>5. ASSUME NEW wanted \in SUBSET ClientSymbols, Subscribe(wanted) PROVE TypeOK'
  <2>1. SharedTypeOK'
    <3>1. wanted \in SUBSET Symbols /\ Learn(wanted)
      BY <1>5, SubscriptionAssumption DEF Subscribe
    <3> QED
      BY <3>1, UpdateType
  <2>2. RestTypeOK'
    BY <1>1, <1>5 DEF Subscribe, rest, RestTypeOK
  <2> QED
    BY <1>1, <1>2, <2>1, <2>2
<1>6. ASSUME NEW p \in Priorities, NEW i,
             Ready(p, i) \/ Disconnected(p, i) \/ Timer(p, i)
      PROVE  TypeOK'
  <2>1. PICK stream \in StreamType(p) :
          /\ i \in Streams(p)
          /\ Becomes(p, i, stream)
          /\ UNCHANGED <<shared, rest>>
    BY <1>6, MarketDataStep
  <2>2. SharedTypeOK'
    BY <1>1, <2>1, StreamsType DEF shared
  <2>3. RestTypeOK'
    BY <1>1, <2>1 DEF rest, RestTypeOK
  <2> QED
    BY <1>1, <1>2, <2>2, <2>3
<1> QED
  BY <1>3, <1>4, <1>5, <1>6 DEF Next

\* Type correctness.  In particular no message is ever sent without a symbol,
\* which the code asserts.
THEOREM TypeCorrect == Spec => []TypeOK
BY TypeInit, TypeStep, PTL DEF Spec

-----------------------------------------------------------------------------
(* Rest: one answer a round *)

\* Where a round stands: it is open while the exchange info is to be had, on a
\* connection or between two, and what was processed is one answer for each of
\* the rounds that are over.  That DONE, READY and ready_ say the same is what
\* makes it impossible for a late answer to be processed again.
RoundsFollow ==
  /\ \A i \in DOMAIN processed : processed[i] = i
  /\ download = "EXCHANGE_INFO" => Len(processed) + 1 = sequence
  /\ download # "EXCHANGE_INFO" => Len(processed) = sequence
  /\ download = "DONE" <=> connection_status = "READY"
  /\ ready <=> connection_status = "READY"
  /\ connected => connection_status \in {"DOWNLOADING", "READY"}
  /\ connection_status = "READY" => connected
  /\ connection_status = "DOWNLOADING" => download = "EXCHANGE_INFO"

LEMMA RoundsInit == Init => RoundsFollow
<1> SUFFICES ASSUME Init PROVE RoundsFollow
  OBVIOUS
<1>1. Len(processed) = 0 /\ DOMAIN processed = {}
  BY DEF Init
<1> QED
  BY <1>1 DEF Init, RoundsFollow

\* A sequence that counts from 1 goes on counting.
LEMMA AppendNext ==
  ASSUME NEW s \in Seq(Nat), \A i \in DOMAIN s : s[i] = i
  PROVE  /\ Len(Append(s, Len(s) + 1)) = Len(s) + 1
         /\ \A i \in DOMAIN Append(s, Len(s) + 1) : Append(s, Len(s) + 1)[i] = i
<1> DEFINE t == Append(s, Len(s) + 1)
<1>1. Len(s) \in Nat /\ DOMAIN s = 1..Len(s)
  BY LenProperties
<1>2. /\ t \in Seq(Nat)
      /\ Len(t) = Len(s) + 1
      /\ t[Len(s) + 1] = Len(s) + 1
      /\ \A i \in 1..Len(s) : t[i] = s[i]
  BY <1>1, AppendProperties
<1> HIDE DEF t
<1>3. DOMAIN t = 1..(Len(s) + 1)
  BY <1>2, LenProperties
<1>4. \A i \in 1..(Len(s) + 1) : i = Len(s) + 1 \/ i \in 1..Len(s)
  BY <1>1
<1> QED
  BY <1>1, <1>2, <1>3, <1>4 DEF t

\* What a step of Rest does to its round.
LEMMA RestStep ==
  ASSUME TypeOK, RoundsFollow, RestConnected \/ RestDisconnected \/ RestAnswered
  PROVE  /\ RoundsFollow'
         /\ \/ UNCHANGED <<connected, connection_status, download>>
            \/ /\ ~ connected /\ connected'
               /\ connection_status' = "DOWNLOADING" /\ download' = "EXCHANGE_INFO"
            \/ /\ connected /\ ~ connected'
               /\ connection_status' = "DISCONNECTED" /\ download' # "DONE"
            \/ /\ connected /\ connected' = connected
               /\ connection_status = "DOWNLOADING"
               /\ connection_status' = "READY" /\ download' = "DONE"
            \/ /\ ~ connected /\ connected' = connected
               /\ connection_status' = "DOWNLOADING" /\ download' = download
<1>0. RestTypeOK
  BY DEF TypeOK, RestTypeOK
<1> USE DEF RoundsFollow
<1>1. CASE RestConnected
  <2>1. /\ ~ connected /\ connected' = TRUE
        /\ sequence' = IF download = "EXCHANGE_INFO" THEN sequence ELSE sequence + 1
        /\ download' = "EXCHANGE_INFO" /\ connection_status' = "DOWNLOADING"
        /\ UNCHANGED <<ready, processed>>
    BY <1>1 DEF RestConnected, EnterExchangeInfo
  <2> QED
    BY <1>0, <2>1, LenProperties DEF RestTypeOK
<1>2. CASE RestDisconnected
  <2>1. /\ connected /\ connected' = FALSE /\ ready' = FALSE
        /\ connection_status' = "DISCONNECTED"
        /\ download' = IF download = "EXCHANGE_INFO" THEN download ELSE "UNDEFINED"
        /\ UNCHANGED <<sequence, processed>>
    BY <1>2 DEF RestDisconnected
  <2> QED
    BY <1>0, <2>1 DEF RestTypeOK
<1>3. ASSUME NEW k \in DOMAIN wire, ExchangeInfoError(k)
      PROVE  /\ UNCHANGED <<connected, download, ready, sequence, processed>>
             /\ \/ UNCHANGED connection_status
                \/ /\ ~ connected /\ download = "EXCHANGE_INFO"
                   /\ connection_status' = "DOWNLOADING"
  <2>1. /\ UNCHANGED <<connected, download, ready, sequence, processed>>
        /\ \/ UNCHANGED connection_status
           \/ download = "EXCHANGE_INFO" /\ connection_status' = "DOWNLOADING"
    BY <1>3 DEF ExchangeInfoError, EnterExchangeInfo
  <2>2. connected /\ download = "EXCHANGE_INFO" => connection_status = "DOWNLOADING"
    OBVIOUS
  <2> QED
    BY <2>1, <2>2
<1>4. ASSUME NEW k \in DOMAIN wire, NEW listed, ExchangeInfoAck(k, listed)
      PROVE  \/ UNCHANGED <<connected, connection_status, download, ready, sequence,
                            processed>>
             \/ /\ connected /\ connected' = connected
                /\ connection_status = "DOWNLOADING" /\ connection_status' = "READY"
                /\ download' = "DONE" /\ ready' = TRUE
                /\ sequence' = sequence /\ RoundsFollow'
  <2>1. /\ connected /\ connected' = connected /\ sequence' = sequence
    BY <1>4 DEF ExchangeInfoAck
  <2>2. CASE Skip(wire[k])
    BY <1>4, <2>1, <2>2 DEF ExchangeInfoAck
  <2>3. CASE ~ Skip(wire[k])
    <3>1. download = "EXCHANGE_INFO" /\ wire[k] = sequence
      BY <2>3 DEF Skip
    <3>2. /\ processed' = Append(processed, sequence) /\ download' = "DONE"
          /\ connection_status' = "READY" /\ ready' = TRUE
      BY <1>4, <2>3, <3>1 DEF ExchangeInfoAck
    <3>3. /\ Len(processed') = sequence
          /\ \A i \in DOMAIN processed' : processed'[i] = i
      <4>1. /\ processed \in Seq(Nat) /\ Len(processed) \in Nat
            /\ sequence = Len(processed) + 1
            /\ DOMAIN processed = 1..Len(processed)
        BY <1>0, <3>1, LenProperties DEF RestTypeOK
      <4> QED
        BY <3>2, <4>1, AppendNext
    <3>4. connection_status = "DOWNLOADING"
      BY <2>1, <3>1
    <3> QED
      BY <1>0, <2>1, <3>2, <3>3, <3>4 DEF RestTypeOK
  <2> QED
    BY <2>2, <2>3
<1>5. ASSUME RestAnswered
      PROVE  \/ UNCHANGED <<connected, connection_status, download, ready, sequence,
                            processed>>
             \/ /\ UNCHANGED <<connected, download, ready, sequence, processed>>
                /\ ~ connected /\ download = "EXCHANGE_INFO"
                /\ connection_status' = "DOWNLOADING"
             \/ /\ connected /\ connected' = connected
                /\ connection_status = "DOWNLOADING" /\ connection_status' = "READY"
                /\ download' = "DONE" /\ ready' = TRUE
                /\ sequence' = sequence /\ RoundsFollow'
  BY <1>3, <1>4, <1>5 DEF RestAnswered
<1>6. CASE UNCHANGED <<connected, connection_status, download, ready, sequence, processed>>
  <2>1. RoundsFollow'
    BY <1>6
  <2> QED
    BY <1>6, <2>1
<1>7. CASE /\ UNCHANGED <<connected, download, ready, sequence, processed>>
           /\ ~ connected /\ download = "EXCHANGE_INFO"
           /\ connection_status' = "DOWNLOADING"
  <2>1. RoundsFollow'
    BY <1>7
  <2> QED
    BY <1>7, <2>1
<1> QED
  <2> HIDE DEF RoundsFollow
  <2> QED
    BY <1>1, <1>2, <1>5, <1>6, <1>7

\* The other steps leave Rest alone.
LEMMA OtherStep ==
  ASSUME TypeOK, [Next]_vars, ~ (RestConnected \/ RestDisconnected \/ RestAnswered)
  PROVE  UNCHANGED rest
<1>1. ASSUME NEW wanted, Subscribe(wanted) PROVE UNCHANGED rest
  BY <1>1 DEF Subscribe
<1>2. ASSUME NEW p, NEW i, Ready(p, i) \/ Disconnected(p, i) \/ Timer(p, i)
      PROVE  UNCHANGED rest
  BY <1>2 DEF Ready, Disconnected, Timer
<1> QED
  BY <1>1, <1>2 DEF Next, vars

LEMMA RoundsStep == TypeOK /\ RoundsFollow /\ [Next]_vars => RoundsFollow'
<1> SUFFICES ASSUME TypeOK, RoundsFollow, [Next]_vars PROVE RoundsFollow'
  OBVIOUS
<1>1. CASE RestConnected \/ RestDisconnected \/ RestAnswered
  BY <1>1, RestStep
<1>2. CASE ~ (RestConnected \/ RestDisconnected \/ RestAnswered)
  BY <1>2, OtherStep DEF rest, RoundsFollow
<1> QED
  BY <1>1, <1>2

LEMMA RoundsAlways == Spec => []RoundsFollow
BY RoundsInit, RoundsStep, TypeCorrect, PTL DEF Spec

\* Of each round Rest processes one answer, and it is READY exactly once it has
\* processed that of its present round, whatever is asked again, fails or comes
\* after its connection was lost (rest.cpp: download_.skip).
THEOREM EachRoundAnsweredOnce == Spec => []OneAnswerPerRound
<1>1. RoundsFollow => OneAnswerPerRound
  BY DEF RoundsFollow, OneAnswerPerRound
<1> QED
  BY <1>1, RoundsAlways, PTL

LEMMA StreamStep ==
  ASSUME TypeOK, RoundsFollow, [Next]_vars
  PROVE  [Stream!Next]_(Stream!vars)
<1>0. RoundsFollow'
  BY RoundsStep
<1> USE DEF RoundsFollow, Stream!Next, Stream!vars
<1>1. CASE UNCHANGED <<connected, connection_status, download>>
  BY <1>1
<1>2. CASE /\ ~ connected /\ connected'
           /\ connection_status' = "DOWNLOADING" /\ download' = "EXCHANGE_INFO"
  <2>1. connected' = TRUE
    BY <1>2, TypeStep DEF TypeOK
  <2> QED
    BY <1>2, <2>1 DEF Stream!LinkUp
<1>3. CASE /\ connected /\ ~ connected'
           /\ connection_status' = "DISCONNECTED" /\ download' # "DONE"
  <2>1. connected' = FALSE
    BY <1>3, TypeStep DEF TypeOK
  <2> QED
    BY <1>3, <2>1 DEF Stream!LinkDown
<1>4. CASE /\ connected /\ connected' = connected
           /\ connection_status = "DOWNLOADING"
           /\ connection_status' = "READY" /\ download' = "DONE"
  BY <1>4 DEF Stream!Complete
<1>7. CASE /\ ~ connected /\ connected' = connected
           /\ connection_status' = "DOWNLOADING" /\ download' = download
  BY <1>7 DEF Stream!RetryUnlinked
<1>5. CASE RestConnected \/ RestDisconnected \/ RestAnswered
  BY <1>1, <1>2, <1>3, <1>4, <1>5, <1>7, RestStep
<1>6. CASE ~ (RestConnected \/ RestDisconnected \/ RestAnswered)
  BY <1>1, <1>6, OtherStep DEF rest
<1> QED
  BY <1>5, <1>6

\* Rest is READY only on a live connection whose download, the exchange info, is
\* done on that connection, although a request that fails without a connection is
\* retried and DOWNLOADING published: it implements StreamLifecycle.
THEOREM RestImplementsStream == Spec => ImplementsStream
<1>1. Init => Stream!Init
  BY DEF Init, Stream!Init
<1> QED
  BY <1>1, StreamStep, TypeCorrect, RoundsAlways, PTL
     DEF Spec, ImplementsStream, Stream!Spec

-----------------------------------------------------------------------------
(* Every symbol has its stream *)

\* What a sequence has in it when another follows.
LEMMA ConcatSets ==
  ASSUME NEW S, NEW s \in Seq(S), NEW t \in Seq(S)
  PROVE  /\ ToSet(s \o t) = ToSet(s) \cup ToSet(t)
         /\ IsInjective(s) /\ IsInjective(t) /\ ToSet(s) \cap ToSet(t) = {}
              => IsInjective(s \o t)
<1>1. /\ Len(s) \in Nat /\ DOMAIN s = 1..Len(s)
      /\ Len(t) \in Nat /\ DOMAIN t = 1..Len(t)
  BY LenProperties
<1> DEFINE u == s \o t
<1>2. /\ DOMAIN u = 1..(Len(s) + Len(t))
      /\ \A k \in 1..Len(s) : u[k] = s[k]
      /\ \A k \in 1..Len(t) : u[Len(s) + k] = t[k]
  <2>1. /\ u \in Seq(S) /\ Len(u) = Len(s) + Len(t)
        /\ \A i \in 1..Len(s) + Len(t) :
             u[i] = IF i <= Len(s) THEN s[i] ELSE t[i - Len(s)]
    BY ConcatProperties
  <2> HIDE DEF u
  <2>2. DOMAIN u = 1..(Len(s) + Len(t))
    BY <2>1, LenProperties
  <2> QED
    BY <1>1, <2>1, <2>2
<1> HIDE DEF u
<1>3. \A k \in DOMAIN u : \/ k \in 1..Len(s) /\ u[k] = s[k]
                          \/ k - Len(s) \in 1..Len(t) /\ u[k] = t[k - Len(s)]
  <2> SUFFICES ASSUME NEW k \in DOMAIN u, k \notin 1..Len(s)
               PROVE  k - Len(s) \in 1..Len(t) /\ u[k] = t[k - Len(s)]
    BY <1>2
  <2>1. k - Len(s) \in 1..Len(t) /\ Len(s) + (k - Len(s)) = k
    BY <1>1, <1>2
  <2> QED
    BY <1>2, <2>1
<1>4. ToSet(u) = ToSet(s) \cup ToSet(t)
  <2>1. \A x \in ToSet(u) : x \in ToSet(s) \cup ToSet(t)
    BY <1>1, <1>3 DEF ToSet
  <2>2. \A x \in ToSet(s) : x \in ToSet(u)
    BY <1>1, <1>2 DEF ToSet
  <2>3. \A x \in ToSet(t) : x \in ToSet(u)
    <3>1. \A k \in 1..Len(t) : Len(s) + k \in DOMAIN u
      BY <1>1, <1>2
    <3> QED
      BY <1>1, <1>2, <3>1 DEF ToSet
  <2> QED
    BY <2>1, <2>2, <2>3
<1>5. ASSUME IsInjective(s), IsInjective(t), ToSet(s) \cap ToSet(t) = {}
      PROVE  IsInjective(u)
  <2> SUFFICES ASSUME NEW a \in DOMAIN u, NEW b \in DOMAIN u, u[a] = u[b]
               PROVE  a = b
    BY DEF IsInjective
  <2>1. \A j \in 1..Len(s), k \in 1..Len(t) : s[j] # t[k]
    BY <1>1, <1>5 DEF ToSet
  <2>2. CASE a \in 1..Len(s) /\ u[a] = s[a] /\ b \in 1..Len(s) /\ u[b] = s[b]
    BY <1>1, <1>5, <2>2 DEF IsInjective
  <2>3. CASE /\ a - Len(s) \in 1..Len(t) /\ u[a] = t[a - Len(s)]
             /\ b - Len(s) \in 1..Len(t) /\ u[b] = t[b - Len(s)]
    <3>1. a - Len(s) = b - Len(s)
      BY <1>1, <1>5, <2>3 DEF IsInjective
    <3> QED
      BY <1>1, <1>2, <3>1
  <2> QED
    BY <1>3, <2>1, <2>2, <2>3
<1> QED
  BY <1>4, <1>5 DEF u

\* The vector and the set of the symbols agree: none is missing, none twice; and
\* each priority has the streams it takes to carry them.
SymbolsListed ==
  /\ ToSet(symbols) = all_symbols
  /\ IsInjective(symbols)
  /\ \A p \in Priorities : Len(market_data[p]) = Slices(Len(symbols))

LEMMA ListedInit == Init => SymbolsListed
<1> SUFFICES ASSUME Init PROVE SymbolsListed
  OBVIOUS
<1>1. Len(symbols) = 0 /\ ToSet(symbols) = {} /\ IsInjective(symbols)
  BY DEF Init, ToSet, IsInjective
<1>2. \A p \in Priorities : Len(market_data[p]) = 0
  BY DEF Init
<1>3. all_symbols = {}
  BY DEF Init
<1> QED
  BY <1>1, <1>2, <1>3, NoSlices DEF SymbolsListed

LEMMA ListedUpdate ==
  ASSUME TypeOK, SymbolsListed, NEW wanted \in SUBSET Symbols, Learn(wanted)
  PROVE  SymbolsListed'
<1> DEFINE new == wanted \ all_symbols
<1>1. /\ IsFiniteSet(new) /\ IsFiniteSet(all_symbols) /\ new \subseteq Symbols
  BY SubscriptionAssumption, FS_Subset DEF TypeOK
<1>2. /\ SetToSeq(new) \in Seq(Symbols) /\ Len(SetToSeq(new)) = Cardinality(new)
      /\ IsInjective(SetToSeq(new)) /\ ToSet(SetToSeq(new)) = new
  BY <1>1, SetToSeqProperties, SeqMonotonic
<1>3. /\ symbols \in Seq(Symbols) /\ Len(symbols) \in Nat
      /\ ToSet(symbols) = all_symbols /\ IsInjective(symbols)
      /\ \A p \in Priorities : Len(market_data[p]) = Slices(Len(symbols))
  BY LenProperties DEF TypeOK, SymbolsListed
<1>4. /\ symbols' = symbols \o SetToSeq(new) /\ symbols' \in Seq(Symbols)
      /\ all_symbols' = all_symbols \cup new
  BY UpdateType DEF Learn
<1>5. all_symbols \cap new = {}
  OBVIOUS
<1> HIDE DEF new
<1>6. ToSet(symbols') = all_symbols' /\ IsInjective(symbols')
  BY <1>2, <1>3, <1>4, <1>5, ConcatSets
<1>7. Len(symbols') = Len(symbols) + Cardinality(new) /\ Cardinality(new) \in Nat
  <2>1. Cardinality(new) \in Nat
    BY <1>1, FS_CardinalityType
  <2>2. Len(symbols \o SetToSeq(new)) = Len(symbols) + Len(SetToSeq(new))
    BY <1>2, <1>3, ConcatProperties
  <2> QED
    BY <1>2, <1>4, <2>1, <2>2
<1>8. ASSUME NEW p \in Priorities PROVE Len(market_data'[p]) = Slices(Len(symbols'))
  <2>1. market_data[p] \in Seq(StreamType(p))
    BY DEF TypeOK, StreamType
  <2>2. Len(market_data'[p]) = IF Slices(Len(symbols')) > Len(market_data[p])
                               THEN Slices(Len(symbols')) ELSE Len(market_data[p])
    <3>1. PICK s \in Seq(Symbols) : s = symbols'
      BY <1>4
    <3>2. market_data'[p] = Grown(p, s, Len(symbols))
      BY <3>1, UpdateType
    <3>3. Len(Grown(p, s, Len(symbols))) =
            IF Slices(Len(s)) > Len(market_data[p])
            THEN Slices(Len(s)) ELSE Len(market_data[p])
      BY <1>3, <2>1, GrownProperties
    <3> QED
      BY <3>1, <3>2, <3>3
  <2>3. /\ Slices(Len(symbols)) <= Slices(Len(symbols'))
        /\ Slices(Len(symbols)) \in Nat /\ Slices(Len(symbols')) \in Nat
    BY <1>3, <1>7, SlicesGrow, SlicesType
  <2> QED
    BY <1>3, <2>2, <2>3
<1> QED
  BY <1>6, <1>8 DEF SymbolsListed

\* A step is a step of a stream, brings new symbols, or is neither.
LEMMA SharedStep ==
  ASSUME [Next]_vars
  PROVE  \/ UNCHANGED <<shared, market_data>>
         \/ \E wanted \in SUBSET Symbols : Learn(wanted)
         \/ \E p \in Priorities, i \in Indices :
              Ready(p, i) \/ Disconnected(p, i) \/ Timer(p, i)
<1>1. CASE UNCHANGED vars
  BY <1>1 DEF vars
<1>2. CASE RestConnected \/ RestDisconnected
  BY <1>2 DEF RestConnected, RestDisconnected
<1>3. CASE RestAnswered
  <2>1. ASSUME NEW k \in DOMAIN wire, ExchangeInfoError(k)
        PROVE  UNCHANGED <<shared, market_data>>
    BY <2>1 DEF ExchangeInfoError
  <2>2. ASSUME NEW k \in DOMAIN wire, NEW listed \in SUBSET Listed,
               ExchangeInfoAck(k, listed)
        PROVE  \/ UNCHANGED <<shared, market_data>>
               \/ \E wanted \in SUBSET Symbols : Learn(wanted)
    BY <2>2, NormalizedType DEF ExchangeInfoAck
  <2> QED
    BY <1>3, <2>1, <2>2 DEF RestAnswered
<1>4. ASSUME NEW wanted \in SUBSET ClientSymbols, Subscribe(wanted)
      PROVE  wanted \in SUBSET Symbols /\ Learn(wanted)
  BY <1>4, SubscriptionAssumption DEF Subscribe
<1> QED
  BY <1>1, <1>2, <1>3, <1>4 DEF Next

LEMMA ListedStep == TypeOK /\ SymbolsListed /\ [Next]_vars => SymbolsListed'
<1> SUFFICES ASSUME TypeOK, SymbolsListed, [Next]_vars PROVE SymbolsListed'
  OBVIOUS
<1>1. CASE UNCHANGED <<shared, market_data>>
  BY <1>1 DEF shared, SymbolsListed
<1>2. CASE \E wanted \in SUBSET Symbols : Learn(wanted)
  BY <1>2, ListedUpdate
<1>3. ASSUME NEW p \in Priorities, NEW i,
             Ready(p, i) \/ Disconnected(p, i) \/ Timer(p, i)
      PROVE  SymbolsListed'
  <2>1. /\ UNCHANGED shared
        /\ \A q \in Priorities : Len(market_data'[q]) = Len(market_data[q])
    BY <1>3, MarketDataStep, StreamsType
  <2> QED
    BY <2>1 DEF shared, SymbolsListed
<1> QED
  BY <1>1, <1>2, <1>3, SharedStep

LEMMA ListedAlways == Spec => []SymbolsListed
BY ListedInit, ListedStep, TypeCorrect, PTL DEF Spec

LEMMA TimesGrows ==
  ASSUME NEW i \in Nat, NEW j \in Nat, i <= j
  PROVE  i * MaxSubscriptions <= j * MaxSubscriptions
BY SubscriptionAssumption

\* Position k of n is in one slice of those there are.
LEMMA SlicesPartition ==
  ASSUME NEW n \in Nat, NEW k \in 1..n
  PROVE  \E i \in 1..Slices(n) :
           /\ (i - 1) * MaxSubscriptions < k /\ k <= i * MaxSubscriptions
           /\ \A j \in Nat \ {0} :
                (j - 1) * MaxSubscriptions < k /\ k <= j * MaxSubscriptions => j = i
<1>1. PICK i \in Nat : i = Slices(k)
  BY SlicesType
<1>2. MaxSubscriptions \in Nat \ {0}
  BY SubscriptionAssumption
<1>3. /\ MaxSubscriptions * i <= k + MaxSubscriptions - 1
      /\ k + MaxSubscriptions - 1 < MaxSubscriptions * i + MaxSubscriptions
  <2>1. k + MaxSubscriptions - 1 \in Nat
    BY <1>2
  <2> QED
    BY <1>1, <1>2, <2>1, Division DEF Slices
<1>4. i * MaxSubscriptions - MaxSubscriptions < k /\ k <= i * MaxSubscriptions
  BY <1>2, <1>3
<1>5. i # 0 /\ (i - 1) * MaxSubscriptions = i * MaxSubscriptions - MaxSubscriptions
  BY <1>2, <1>4
<1>6. i \in 1..Slices(n)
  BY <1>1, <1>5, SlicesGrow, SlicesType
<1>7. ASSUME NEW j \in Nat \ {0},
             (j - 1) * MaxSubscriptions < k, k <= j * MaxSubscriptions
      PROVE  j = i
  <2>1. /\ j * MaxSubscriptions \in Nat /\ i * MaxSubscriptions \in Nat
        /\ (j - 1) * MaxSubscriptions \in Nat /\ (i - 1) * MaxSubscriptions \in Nat
    BY <1>5, SliceBounds
  <2>2. ~ (j <= i - 1)
    <3>1. j <= i - 1 => j * MaxSubscriptions <= (i - 1) * MaxSubscriptions
      BY <1>5, TimesGrows
    <3> QED
      BY <1>4, <1>5, <1>7, <2>1, <3>1
  <2>3. ~ (i <= j - 1)
    <3>1. i <= j - 1 => i * MaxSubscriptions <= (j - 1) * MaxSubscriptions
      BY TimesGrows
    <3> QED
      BY <1>4, <1>7, <2>1, <3>1
  <2> QED
    BY <2>2, <2>3
<1> QED
  BY <1>4, <1>5, <1>6, <1>7

\* The last slice has a beginning.
LEMMA SliceBegins ==
  ASSUME NEW n \in Nat, NEW i \in 1..Slices(n)
  PROVE  \E k \in 1..n : (i - 1) * MaxSubscriptions < k /\ k <= i * MaxSubscriptions
<1>1. MaxSubscriptions \in Nat \ {0} /\ Slices(n) \in Nat /\ i \in Nat \ {0}
  BY SubscriptionAssumption, SlicesType
<1>2. MaxSubscriptions * Slices(n) <= n + MaxSubscriptions - 1
  <2>1. n + MaxSubscriptions - 1 \in Nat
    BY <1>1
  <2> QED
    BY <1>1, <2>1, Division DEF Slices
<1>3. i * MaxSubscriptions <= Slices(n) * MaxSubscriptions
  BY <1>1, TimesGrows
<1>4. /\ (i - 1) * MaxSubscriptions = i * MaxSubscriptions - MaxSubscriptions
      /\ MaxSubscriptions * Slices(n) = Slices(n) * MaxSubscriptions
      /\ i * MaxSubscriptions \in Nat /\ Slices(n) * MaxSubscriptions \in Nat
      /\ (i - 1) * MaxSubscriptions \in Nat
  BY <1>1, SliceBounds
<1>5. (i - 1) * MaxSubscriptions + 1 \in 1..n
  BY <1>1, <1>2, <1>3, <1>4
<1> QED
  BY <1>1, <1>4, <1>5

\* The elements of a slice are those that stand in it and follow its start.
LEMMA SliceSet ==
  ASSUME NEW S, NEW s \in Seq(S), NEW i \in Nat \ {0}, NEW start \in Nat
  PROVE  ToSet(Slice(s, i, start)) =
           {s[k] : k \in {j \in DOMAIN s : /\ start < j
                                           /\ (i - 1) * MaxSubscriptions < j
                                           /\ j <= i * MaxSubscriptions}}
<1> DEFINE t == Slice(s, i, start)
           In(k) == /\ start < k
                    /\ (i - 1) * MaxSubscriptions < k
                    /\ k <= i * MaxSubscriptions
<1>1. /\ \A n \in DOMAIN t : \E k \in DOMAIN s : t[n] = s[k] /\ In(k)
      /\ \A k \in DOMAIN s : In(k) => \E n \in DOMAIN t : t[n] = s[k]
  <2>1. \A n \in DOMAIN t : \E k \in DOMAIN s : t[n] = s[k] /\ In(k)
    BY ONLY SliceProperties, s \in Seq(S), i \in Nat \ {0}, start \in Nat
  <2>2. \A k \in DOMAIN s : In(k) => \E n \in DOMAIN t : t[n] = s[k]
    BY SliceProperties
  <2> QED
    BY <2>1, <2>2
<1> HIDE DEF t, In
<1>2. ToSet(t) = {s[k] : k \in {j \in DOMAIN s : In(j)}}
  <2>1. \A x \in ToSet(t) : x \in {s[k] : k \in {j \in DOMAIN s : In(j)}}
    BY <1>1 DEF ToSet
  <2>2. \A x \in {s[k] : k \in {j \in DOMAIN s : In(j)}} : x \in ToSet(t)
    BY <1>1 DEF ToSet
  <2> QED
    BY <2>1, <2>2
<1> QED
  BY <1>2 DEF t, In

LEMMA HasItsStream == TypeOK /\ SymbolsListed => EverySymbolHasItsStream
<1> SUFFICES ASSUME TypeOK, SymbolsListed, NEW p \in Priorities
             PROVE  /\ \A s \in all_symbols :
                         \E i \in Streams(p) :
                           {j \in Streams(p) : s \in ToSet(Slice(symbols, j, 0))} = {i}
                    /\ \A i \in Streams(p) :
                         /\ Slice(symbols, i, 0) # <<>>
                         /\ IsInjective(Slice(symbols, i, 0))
                         /\ ToSet(Slice(symbols, i, 0)) \subseteq all_symbols
  BY DEF EverySymbolHasItsStream
<1>1. /\ symbols \in Seq(Symbols) /\ Len(symbols) \in Nat
      /\ DOMAIN symbols = 1..Len(symbols)
      /\ IsInjective(symbols) /\ ToSet(symbols) = all_symbols
      /\ Streams(p) = 1..Slices(Len(symbols))
  BY LenProperties DEF TypeOK, SymbolsListed, Streams
<1>2. \A j \in Streams(p) : j \in Nat \ {0}
  BY <1>1
<1>3. ASSUME NEW s \in all_symbols
      PROVE  \E i \in Streams(p) :
               {j \in Streams(p) : s \in ToSet(Slice(symbols, j, 0))} = {i}
  <2>1. PICK k \in 1..Len(symbols) : symbols[k] = s
    BY <1>1 DEF ToSet
  <2>2. PICK i \in 1..Slices(Len(symbols)) :
          /\ (i - 1) * MaxSubscriptions < k /\ k <= i * MaxSubscriptions
          /\ \A j \in Nat \ {0} :
               (j - 1) * MaxSubscriptions < k /\ k <= j * MaxSubscriptions => j = i
    BY <1>1, SlicesPartition
  <2>3. ASSUME NEW j \in Nat \ {0}
        PROVE  s \in ToSet(Slice(symbols, j, 0))
                 <=> (j - 1) * MaxSubscriptions < k /\ k <= j * MaxSubscriptions
    <3> DEFINE In(m) == /\ 0 < m
                        /\ (j - 1) * MaxSubscriptions < m
                        /\ m <= j * MaxSubscriptions
    <3>1. ToSet(Slice(symbols, j, 0)) =
            {symbols[m] : m \in {l \in DOMAIN symbols : In(l)}}
      BY <1>1, SliceSet
    <3>2. 0 < k /\ (In(k) <=> (j - 1) * MaxSubscriptions < k /\ k <= j * MaxSubscriptions)
      BY <1>1
    <3> HIDE DEF In
    <3>3. \A m \in DOMAIN symbols : symbols[m] = s => m = k
      BY <1>1, <2>1 DEF IsInjective
    <3>4. s \in {symbols[m] : m \in {l \in DOMAIN symbols : In(l)}} <=> In(k)
      BY <1>1, <2>1, <3>3
    <3> QED
      BY <3>1, <3>2, <3>4
  <2>4. i \in Streams(p) /\ i \in Nat \ {0}
    BY <1>1
  <2> QED
    BY <1>2, <2>2, <2>3, <2>4
<1>4. ASSUME NEW i \in Streams(p)
      PROVE  /\ Slice(symbols, i, 0) # <<>>
             /\ IsInjective(Slice(symbols, i, 0))
             /\ ToSet(Slice(symbols, i, 0)) \subseteq all_symbols
  <2> DEFINE slice == Slice(symbols, i, 0)
             inside == {k \in DOMAIN symbols : /\ 0 < k
                                               /\ (i - 1) * MaxSubscriptions < k
                                               /\ k <= i * MaxSubscriptions}
  <2>1. i \in Nat \ {0} /\ 0 \in Nat
    BY <1>2
  <2>2. slice \in Seq(Symbols) /\ IsInjective(slice)
    BY <1>1, <2>1, SliceProperties
  <2>3. ToSet(slice) = {symbols[k] : k \in inside}
    BY <1>1, <2>1, SliceSet
  <2>4. inside # {}
    <3>1. PICK k \in 1..Len(symbols) :
            (i - 1) * MaxSubscriptions < k /\ k <= i * MaxSubscriptions
      BY <1>1, SliceBegins
    <3>2. k \in inside
      BY <1>1, <3>1
    <3> QED
      BY <3>2
  <2>5. \A k \in inside : symbols[k] \in all_symbols
    BY <1>1 DEF ToSet
  <2> HIDE DEF inside, slice
  <2>6. ToSet(slice) # {} /\ ToSet(slice) \subseteq all_symbols
    BY <2>3, <2>4, <2>5
  <2>7. slice # <<>>
    BY <2>6 DEF ToSet
  <2> QED
    BY <2>2, <2>6, <2>7 DEF slice
<1> QED
  BY <1>3, <1>4

\* However the batches of clients and exchange overlap, a known symbol falls in
\* the slice of exactly one stream of each priority, and no stream is without a
\* symbol (Controller creates the streams, Shared lists the symbols).
THEOREM EverySymbolHasAStream == Spec => []EverySymbolHasItsStream
BY HasItsStream, TypeCorrect, ListedAlways, PTL

-----------------------------------------------------------------------------
(* Whether a name is listed twice *)

\* No two of the known symbols are spellings of one name.
SymbolsListedOnce ==
  \A s, t \in all_symbols : normalized_symbol[s] = normalized_symbol[t] => s = t

AllNormalized == \A s \in all_symbols : normalized_symbol[s] = s

\* If clients subscribe by names in lower case, as the exchange info is kept, no
\* name is listed twice.  Controller takes a client's spelling as it comes
\* (controller.cpp: operator()(Event<Subscribe>)), so without that it may be: the
\* assumption is what keeps two streams, or one stream twice, off one name.
THEOREM LowerCaseListsOnce ==
  ASSUME \A s \in ClientSymbols : normalized_symbol[s] = s
  PROVE  Spec => []SymbolsListedOnce
<1>1. Init => AllNormalized
  BY DEF Init, AllNormalized
<1>2. ASSUME NEW wanted, \A s \in wanted : normalized_symbol[s] = s,
             AllNormalized, Learn(wanted)
      PROVE  AllNormalized'
  BY <1>2 DEF Learn, AllNormalized
<1>3. AllNormalized /\ [Next]_vars => AllNormalized'
  <2> SUFFICES ASSUME AllNormalized, [Next]_vars PROVE AllNormalized'
    OBVIOUS
  <2>1. CASE UNCHANGED all_symbols
    BY <2>1 DEF AllNormalized
  <2>2. ASSUME NEW k \in DOMAIN wire, ExchangeInfoError(k) PROVE UNCHANGED all_symbols
    BY <2>2 DEF ExchangeInfoError, shared
  <2>3. ASSUME NEW k \in DOMAIN wire, NEW listed \in SUBSET Listed,
               ExchangeInfoAck(k, listed)
        PROVE  AllNormalized'
    <3>1. \A s \in Normalized(listed \ Discarded) : normalized_symbol[s] = s
      BY SubscriptionAssumption DEF Normalized
    <3>2. UNCHANGED all_symbols \/ Learn(Normalized(listed \ Discarded))
      BY <2>3 DEF ExchangeInfoAck, shared
    <3> QED
      BY <1>2, <2>1, <3>1, <3>2
  <2>4. ASSUME NEW wanted \in SUBSET ClientSymbols, Subscribe(wanted)
        PROVE  AllNormalized'
    <3>1. Learn(wanted) /\ \A s \in wanted : normalized_symbol[s] = s
      BY <2>4 DEF Subscribe
    <3> QED
      BY <1>2, <3>1
  <2>5. CASE RestConnected \/ RestDisconnected \/ UNCHANGED vars
    BY <2>1, <2>5 DEF RestConnected, RestDisconnected, vars, shared
  <2>6. ASSUME NEW p, NEW i, Ready(p, i) \/ Disconnected(p, i) \/ Timer(p, i)
        PROVE  UNCHANGED all_symbols
    BY <2>6 DEF Ready, Disconnected, Timer, shared
  <2> QED
    BY <2>1, <2>2, <2>3, <2>4, <2>5, <2>6 DEF Next, RestAnswered
<1>4. AllNormalized => SymbolsListedOnce
  BY DEF AllNormalized, SymbolsListedOnce
<1> QED
  BY <1>1, <1>3, <1>4, PTL DEF Spec

-----------------------------------------------------------------------------
(* Every symbol of a slice is subscribed to once *)

\* EachOnce, of a sequence of messages.
AskedOnce(r, channel, wanted) ==
  LET on == {j \in DOMAIN r : r[j].channel = channel}
  IN  /\ UNION {ToSet(r[j].symbols) : j \in on} = wanted
      /\ \A j \in on : IsInjective(r[j].symbols)
      /\ \A j, k \in on : j # k => ToSet(r[j].symbols) \cap ToSet(r[k].symbols) = {}

LEMMA EachOnceIsAskedOnce ==
  ASSUME NEW stream, NEW channel, NEW wanted
  PROVE  EachOnce(stream, channel, wanted) <=> AskedOnce(Requested(stream), channel, wanted)
BY DEF EachOnce, AskedOnce, On

LEMMA NothingAsked == \A channel : AskedOnce(<<>>, channel, {})
BY DEF AskedOnce

\* With messages for symbols that were not asked for yet, a channel has those
\* symbols too, still once each.
LEMMA MoreAsked ==
  ASSUME NEW p, NEW k \in DOMAIN Channels(p),
         NEW r \in Seq(MessageType(p)), NEW wanted, AskedOnce(r, Channels(p)[k], wanted),
         NEW slice \in Seq(Symbols), IsInjective(slice), ToSet(slice) \cap wanted = {}
  PROVE  AskedOnce(r \o Messages(p, slice), Channels(p)[k], wanted \cup ToSet(slice))
<1> DEFINE more == Messages(p, slice)
           all == r \o more
           channel == Channels(p)[k]
<1>1. more \in Seq(MessageType(p)) /\ all \in Seq(MessageType(p))
  BY MessagesProperties, ConcatProperties
<1>2. CASE slice = <<>>
  <2>1. more = <<>> /\ ToSet(slice) = {}
    <3>1. more = <<>>
      BY <1>2, MessagesProperties
    <3>2. DOMAIN slice = {}
      BY <1>2
    <3> QED
      BY <3>1, <3>2 DEF ToSet
  <2>2. all = r /\ wanted \cup ToSet(slice) = wanted
    BY <2>1
  <2> QED
    BY <2>2
<1>3. CASE slice # <<>>
  <2>1. /\ Len(r) \in Nat /\ DOMAIN r = 1..Len(r)
        /\ Len(more) \in Nat /\ DOMAIN more = 1..Len(more)
        /\ DOMAIN all = 1..(Len(r) + Len(more))
    <3>1. Len(all) = Len(r) + Len(more)
      BY <1>1, ConcatProperties
    <3> HIDE DEF all, more
    <3> QED
      BY <1>1, <3>1, LenProperties
  <2>2. /\ DOMAIN more = DOMAIN Channels(p)
        /\ \A j \in DOMAIN more :
             more[j].channel = Channels(p)[j] /\ more[j].symbols = slice
    BY <1>3, MessagesProperties
  <2>3. /\ \A j \in DOMAIN r : all[j] = r[j]
        /\ \A j \in DOMAIN more : all[Len(r) + j] = more[j]
    <3>1. \A i \in 1..Len(r) + Len(more) :
            all[i] = IF i <= Len(r) THEN r[i] ELSE more[i - Len(r)]
      BY <1>1, ConcatProperties
    <3> HIDE DEF all, more
    <3> QED
      BY <2>1, <3>1
  <2> DEFINE on(s) == {j \in DOMAIN s : s[j].channel = channel}
             last == Len(r) + k
  <2> HIDE DEF all, more
  <2>4. k \in DOMAIN more /\ \A j \in DOMAIN more : more[j].channel = channel => j = k
    BY <2>2, ChannelsProperties DEF IsInjective
  <2>5. /\ last \in DOMAIN all /\ all[last].symbols = slice
        /\ all[last].channel = channel /\ last \notin DOMAIN r
    BY <2>1, <2>2, <2>3, <2>4
  <2>6. ASSUME NEW j \in DOMAIN all, j \notin DOMAIN r, all[j].channel = channel
        PROVE  j = last
    <3>1. j - Len(r) \in DOMAIN more /\ j = Len(r) + (j - Len(r)) /\ j \in Nat
      BY <2>1, <2>6
    <3>2. all[j] = more[j - Len(r)]
      BY <2>3, <3>1
    <3>3. j - Len(r) = k
      BY <2>4, <2>6, <3>1, <3>2
    <3> QED
      BY <3>1, <3>3
  <2>7. /\ on(all) = on(r) \cup {last}
        /\ \A j \in on(r) : all[j] = r[j] /\ j # last
    <3>1. DOMAIN r \subseteq DOMAIN all
      BY <2>1
    <3> HIDE DEF last
    <3> QED
      BY <2>3, <2>5, <2>6, <3>1
  <2>8. /\ UNION {ToSet(r[j].symbols) : j \in on(r)} = wanted
        /\ \A j \in on(r) : IsInjective(r[j].symbols)
        /\ \A i, j \in on(r) : i # j => ToSet(r[i].symbols) \cap ToSet(r[j].symbols) = {}
    BY DEF AskedOnce
  <2> HIDE DEF on, last, channel
  <2>9. \A j \in on(r) : ToSet(r[j].symbols) \subseteq wanted
    BY <2>8
  <2>10. UNION {ToSet(all[j].symbols) : j \in on(all)} = wanted \cup ToSet(slice)
    <3>1. \A x \in wanted : \E j \in on(all) : x \in ToSet(all[j].symbols)
      BY <2>7, <2>8
    <3>2. \A x \in ToSet(slice) : \E j \in on(all) : x \in ToSet(all[j].symbols)
      BY <2>5, <2>7
    <3>3. \A j \in on(all) : ToSet(all[j].symbols) \subseteq wanted \cup ToSet(slice)
      BY <2>5, <2>7, <2>9
    <3> QED
      BY <3>1, <3>2, <3>3
  <2>11. \A j \in on(all) : IsInjective(all[j].symbols)
    BY <2>5, <2>7, <2>8
  <2>12. \A i, j \in on(all) : i # j => ToSet(all[i].symbols) \cap ToSet(all[j].symbols) = {}
    <3>1. \A j \in on(r) : ToSet(all[j].symbols) \cap ToSet(all[last].symbols) = {}
      BY <2>5, <2>7, <2>9
    <3> QED
      BY <2>7, <2>8, <3>1
  <2> QED
    BY <2>10, <2>11, <2>12 DEF AskedOnce, on, all, more, channel
<1> QED
  BY <1>2, <1>3

\* As the symbols grow, a slice gains just its part of the new ones.
LEMMA SliceGrows ==
  ASSUME NEW S, NEW s \in Seq(S), NEW t \in Seq(S), IsInjective(s \o t),
         NEW i \in Nat \ {0}
  PROVE  LET new == Slice(s \o t, i, Len(s))
         IN  /\ ToSet(Slice(s \o t, i, 0)) = ToSet(Slice(s, i, 0)) \cup ToSet(new)
             /\ ToSet(new) \cap ToSet(Slice(s, i, 0)) = {}
             /\ new \in Seq(S) /\ IsInjective(new)
<1> DEFINE u == s \o t
           first == (i - 1) * MaxSubscriptions
           last == i * MaxSubscriptions
           In(k) == first < k /\ k <= last
<1>1. /\ Len(s) \in Nat /\ DOMAIN s = 1..Len(s)
      /\ u \in Seq(S) /\ Len(u) \in Nat /\ DOMAIN u = 1..Len(u) /\ Len(s) <= Len(u)
      /\ \A k \in DOMAIN s : u[k] = s[k]
  <2>1. /\ Len(s) \in Nat /\ Len(t) \in Nat /\ u \in Seq(S)
        /\ Len(u) = Len(s) + Len(t)
        /\ \A k \in 1..Len(s) + Len(t) :
             u[k] = IF k <= Len(s) THEN s[k] ELSE t[k - Len(s)]
    BY ConcatProperties, LenProperties
  <2> HIDE DEF u
  <2> QED
    BY <2>1, LenProperties
<1>2. first \in Nat /\ last \in Nat
  BY SliceBounds
<1>3. Slice(u, i, Len(s)) \in Seq(S) /\ IsInjective(Slice(u, i, Len(s)))
  BY <1>1, SliceProperties
<1>4. /\ ToSet(Slice(u, i, Len(s))) = {u[k] : k \in {j \in DOMAIN u : Len(s) < j /\ In(j)}}
      /\ ToSet(Slice(u, i, 0)) = {u[k] : k \in {j \in DOMAIN u : 0 < j /\ In(j)}}
      /\ ToSet(Slice(s, i, 0)) = {s[k] : k \in {j \in DOMAIN s : 0 < j /\ In(j)}}
  <2> HIDE DEF u
  <2>1. ToSet(Slice(u, i, Len(s))) = {u[k] : k \in {j \in DOMAIN u : Len(s) < j /\ In(j)}}
    BY <1>1, SliceSet
  <2>2. ToSet(Slice(u, i, 0)) = {u[k] : k \in {j \in DOMAIN u : 0 < j /\ In(j)}}
    BY <1>1, SliceSet
  <2>3. ToSet(Slice(s, i, 0)) = {s[k] : k \in {j \in DOMAIN s : 0 < j /\ In(j)}}
    BY SliceSet
  <2> QED
    BY <2>1, <2>2, <2>3
<1> HIDE DEF u, In
<1>5. {j \in DOMAIN u : 0 < j /\ In(j)} =
        {j \in DOMAIN s : 0 < j /\ In(j)} \cup {j \in DOMAIN u : Len(s) < j /\ In(j)}
  BY <1>1
<1>6. {s[k] : k \in {j \in DOMAIN s : 0 < j /\ In(j)}} =
        {u[k] : k \in {j \in DOMAIN s : 0 < j /\ In(j)}}
  BY <1>1
<1>7. \A j \in {k \in DOMAIN s : 0 < k /\ In(k)}, k \in {k \in DOMAIN u : Len(s) < k /\ In(k)} :
        u[j] # u[k]
  <2>1. \A j \in DOMAIN s, k \in DOMAIN u : Len(s) < k => j # k /\ j \in DOMAIN u
    BY <1>1
  <2>2. IsInjective(u)
    BY DEF u
  <2> QED
    BY <2>1, <2>2 DEF IsInjective
<1> QED
  <2> DEFINE a == {j \in DOMAIN s : 0 < j /\ In(j)}
             b == {j \in DOMAIN u : Len(s) < j /\ In(j)}
  <2>1. /\ ToSet(Slice(u, i, 0)) = {u[k] : k \in a \cup b}
        /\ ToSet(Slice(s, i, 0)) = {u[k] : k \in a}
        /\ ToSet(Slice(u, i, Len(s))) = {u[k] : k \in b}
        /\ \A j \in a, k \in b : u[j] # u[k]
    BY <1>4, <1>5, <1>6, <1>7
  <2> HIDE DEF a, b
  <2>2. /\ ToSet(Slice(u, i, 0)) = ToSet(Slice(s, i, 0)) \cup ToSet(Slice(u, i, Len(s)))
        /\ ToSet(Slice(u, i, Len(s))) \cap ToSet(Slice(s, i, 0)) = {}
    BY <2>1
  <2> QED
    BY <1>3, <2>2 DEF u

\* What a stream has asked for: once it is READY, the given symbols on every
\* channel, once each; before, nothing, not even in its queue.
Asks(stream, p, wanted) ==
  IF stream.status = "READY"
  THEN \A k \in DOMAIN Channels(p) :
         AskedOnce(Requested(stream), Channels(p)[k], wanted)
  ELSE Requested(stream) = <<>>

\* That nothing is queued by a stream that is not READY is what the property
\* needs to be inductive: READY queues the whole slice.
StreamsAskOnce ==
  \A p \in Priorities : \A i \in Streams(p) :
    Asks(market_data[p][i], p, ToSet(Slice(symbols, i, 0)))

LEMMA RequestedType ==
  ASSUME NEW p, NEW stream \in StreamType(p)
  PROVE  /\ Requested(stream) \in Seq(MessageType(p))
         /\ stream.status \in {"UNDEFINED", "READY", "DISCONNECTED"}
BY ConcatProperties DEF Requested, StreamType

\* What is queued is asked for after all the rest.
LEMMA ConcatQueue ==
  ASSUME NEW T, NEW sent \in Seq(T), NEW queue \in Seq(T), NEW more \in Seq(T)
  PROVE  sent \o (queue \o more) = (sent \o queue) \o more
BY Z3

LEMMA RequestedQueued ==
  ASSUME NEW T, NEW old, old.sent \in Seq(T), old.queue \in Seq(T),
         NEW more \in Seq(T), NEW stream,
         stream.sent = old.sent, stream.queue = old.queue \o more
  PROVE  Requested(stream) = Requested(old) \o more
<1>1. PICK sent \in Seq(T), queue \in Seq(T) : sent = old.sent /\ queue = old.queue
  OBVIOUS
<1>2. sent \o (queue \o more) = (sent \o queue) \o more
  BY ONLY sent \in Seq(T), queue \in Seq(T), more \in Seq(T), ConcatQueue
<1> QED
  BY <1>1, <1>2 DEF Requested

\* A stream that asks for more on a connection on which it has asked for some.
LEMMA AsksMore ==
  ASSUME NEW p, NEW old \in StreamType(p), NEW stream \in StreamType(p),
         NEW wanted, NEW slice \in Seq(Symbols),
         \A k \in DOMAIN Channels(p) : AskedOnce(Requested(old), Channels(p)[k], wanted),
         IsInjective(slice), ToSet(slice) \cap wanted = {},
         stream.status = "READY",
         stream.sent = old.sent, stream.queue = old.queue \o Messages(p, slice)
  PROVE  Asks(stream, p, wanted \cup ToSet(slice))
<1>1. /\ old.sent \in Seq(MessageType(p)) /\ old.queue \in Seq(MessageType(p))
      /\ Messages(p, slice) \in Seq(MessageType(p))
  BY MessagesProperties DEF StreamType
<1>2. Requested(stream) = Requested(old) \o Messages(p, slice)
  BY <1>1, RequestedQueued
<1>3. Requested(old) \in Seq(MessageType(p))
  BY RequestedType
<1>4. ASSUME NEW k \in DOMAIN Channels(p)
      PROVE  AskedOnce(Requested(stream), Channels(p)[k], wanted \cup ToSet(slice))
  BY <1>2, <1>3, MoreAsked
<1> QED
  BY <1>4 DEF Asks

LEMMA AskInit == Init => StreamsAskOnce
<1> SUFFICES ASSUME Init PROVE StreamsAskOnce
  OBVIOUS
<1>1. \A p \in Priorities : Streams(p) = {}
  BY DEF Init, Streams
<1> QED
  BY <1>1 DEF StreamsAskOnce

LEMMA AskUpdate ==
  ASSUME TypeOK, SymbolsListed, StreamsAskOnce,
         NEW wanted \in SUBSET Symbols, Learn(wanted)
  PROVE  StreamsAskOnce'
<1> DEFINE new == SetToSeq(wanted \ all_symbols)
<1>1. new \in Seq(Symbols)
  <2>1. IsFiniteSet(wanted \ all_symbols) /\ wanted \ all_symbols \subseteq Symbols
    BY SubscriptionAssumption, FS_Subset
  <2> QED
    BY <2>1, SetToSeqProperties, SeqMonotonic
<1>2. /\ symbols \in Seq(Symbols) /\ Len(symbols) \in Nat
      /\ symbols' = symbols \o new
  BY UpdateType, LenProperties DEF TypeOK
<1> HIDE DEF new
<1>3. PICK s \in Seq(Symbols) : s = symbols'
  BY UpdateType
<1>4. s = symbols \o new /\ IsInjective(s)
  BY <1>2, <1>3, ListedUpdate DEF SymbolsListed
<1> SUFFICES ASSUME NEW p \in Priorities, NEW i \in Streams(p)'
             PROVE  Asks(market_data[p][i]', p, ToSet(Slice(s, i, 0)))
  BY <1>3 DEF StreamsAskOnce
<1>5. market_data[p] \in Seq(StreamType(p))
  BY DEF TypeOK, StreamType
<1> DEFINE grown == Grown(p, s, Len(symbols))
<1>6. /\ market_data'[p] = grown /\ grown \in Seq(StreamType(p))
      /\ i \in 1..Len(grown) /\ Len(grown) \in Nat
  BY <1>3, UpdateType, LenProperties DEF Streams
<1>7. /\ i > Len(market_data[p]) => grown[i] = NewStream
      /\ i <= Len(market_data[p]) /\ market_data[p][i].status # "READY"
           => grown[i] = market_data[p][i]
      /\ i <= Len(market_data[p]) /\ market_data[p][i].status = "READY"
           => grown[i] = Queued(market_data[p][i],
                                Messages(p, Slice(s, i, Len(symbols))))
  BY <1>2, <1>5, <1>6, GrownProperties
<1>8. i \in Nat \ {0} /\ Len(market_data[p]) \in Nat
  BY <1>5, <1>6, LenProperties
<1> HIDE DEF grown
<1>9. Asks(grown[i], p, ToSet(Slice(s, i, 0)))
  <2>1. CASE i > Len(market_data[p])
    <3>1. Requested(NewStream) = <<>> /\ NewStream.status # "READY"
      BY DEF Requested, NewStream
    <3> QED
      BY <1>7, <2>1, <3>1 DEF Asks
  <2>2. CASE i <= Len(market_data[p])
    <3>1. /\ i \in Streams(p)
          /\ market_data[p][i] \in StreamType(p)
          /\ Asks(market_data[p][i], p, ToSet(Slice(symbols, i, 0)))
      BY <1>5, <1>8, <2>2, ElementOfSeq DEF Streams, StreamsAskOnce
    <3>2. CASE market_data[p][i].status # "READY"
      BY <1>7, <2>2, <3>1, <3>2 DEF Asks
    <3>3. CASE market_data[p][i].status = "READY"
      <4> DEFINE slice == Slice(s, i, Len(symbols))
      <4>1. /\ ToSet(Slice(s, i, 0)) = ToSet(Slice(symbols, i, 0)) \cup ToSet(slice)
            /\ ToSet(slice) \cap ToSet(Slice(symbols, i, 0)) = {}
            /\ slice \in Seq(Symbols) /\ IsInjective(slice)
        BY <1>1, <1>2, <1>4, <1>8, SliceGrows
      <4> HIDE DEF slice
      <4>2. Messages(p, slice) \in Seq(MessageType(p))
        BY <4>1, MessagesProperties
      <4>3. /\ grown[i] \in StreamType(p) /\ grown[i].status = "READY"
            /\ grown[i].sent = market_data[p][i].sent
            /\ grown[i].queue = market_data[p][i].queue \o Messages(p, slice)
        <5>1. grown[i] = Queued(market_data[p][i], Messages(p, slice))
          BY <1>7, <2>2, <3>3 DEF slice
        <5>2. PICK stream \in StreamType(p) : stream = market_data[p][i]
          BY <3>1
        <5> QED
          <6>1. stream.status = "READY" /\ grown[i] = Queued(stream, Messages(p, slice))
            BY <3>3, <5>1, <5>2
          <6>2. /\ Queued(stream, Messages(p, slice)) \in StreamType(p)
                /\ Queued(stream, Messages(p, slice)).queue =
                     stream.queue \o Messages(p, slice)
                /\ Queued(stream, Messages(p, slice)).sent = stream.sent
                /\ Queued(stream, Messages(p, slice)).status = stream.status
            BY <4>2, QueuedType
          <6> QED
            BY <5>2, <6>1, <6>2
      <4>4. \A k \in DOMAIN Channels(p) :
              AskedOnce(Requested(market_data[p][i]), Channels(p)[k],
                        ToSet(Slice(symbols, i, 0)))
        BY <3>1, <3>3 DEF Asks
      <4>5. Asks(grown[i], p, ToSet(Slice(symbols, i, 0)) \cup ToSet(slice))
        BY <3>1, <4>1, <4>3, <4>4, AsksMore
      <4> QED
        BY <4>1, <4>5
    <3> QED
      BY <3>2, <3>3
  <2> QED
    BY <1>8, <2>1, <2>2
<1> QED
  BY <1>6, <1>9

LEMMA AskStream ==
  ASSUME TypeOK, SymbolsListed, StreamsAskOnce, NEW p \in Priorities, NEW i,
         Ready(p, i) \/ Disconnected(p, i) \/ Timer(p, i)
  PROVE  StreamsAskOnce'
<1> DEFINE old == market_data[p][i]
           slice == Slice(symbols, i, 0)
<1>1. PICK stream \in StreamType(p) :
        /\ i \in Streams(p)
        /\ Becomes(p, i, stream)
        /\ UNCHANGED <<shared, rest>>
        /\ \/ /\ old.status # "READY" /\ stream.status = "READY"
              /\ stream.sent = old.sent
              /\ stream.queue = old.queue \o Messages(p, slice)
           \/ stream.status # "READY" /\ stream.sent = <<>> /\ stream.queue = <<>>
           \/ stream.status = old.status /\ Requested(stream) = Requested(old)
  BY MarketDataStep
<1> HIDE DEF old, slice
<1>2. /\ \A q \in Priorities : Streams(q)' = Streams(q)
      /\ \A q \in Priorities : \A j \in Streams(q) :
           market_data'[q][j] = IF q = p /\ j = i THEN stream ELSE market_data[q][j]
  <2>1. i \in Streams(p) /\ Becomes(p, i, stream)
    BY <1>1
  <2> QED
    BY <2>1, StreamsType DEF Streams
<1>3. symbols' = symbols
  BY <1>1 DEF shared
<1>4. old \in StreamType(p) /\ Asks(old, p, ToSet(slice))
  <2>1. market_data[p] \in Seq(StreamType(p))
    BY DEF TypeOK, StreamType
  <2> QED
    BY <1>1, <2>1, ElementOfSeq DEF StreamsAskOnce, Streams, old, slice
<1>5. slice \in Seq(Symbols) /\ IsInjective(slice)
  <2>1. i \in Nat \ {0} /\ symbols \in Seq(Symbols)
    BY <1>1, LenProperties DEF Streams, TypeOK
  <2> QED
    BY <2>1, SliceProperties DEF SymbolsListed, slice
<1>6. Asks(stream, p, ToSet(slice))
  <2>1. CASE /\ old.status # "READY" /\ stream.status = "READY"
             /\ stream.sent = old.sent
             /\ stream.queue = old.queue \o Messages(p, slice)
    <3>1. \A k \in DOMAIN Channels(p) : AskedOnce(Requested(old), Channels(p)[k], {})
      BY <1>4, <2>1, NothingAsked DEF Asks
    <3>2. Asks(stream, p, {} \cup ToSet(slice))
      <4>1. ToSet(slice) \cap {} = {}
        OBVIOUS
      <4> QED
        BY <1>4, <1>5, <2>1, <3>1, <4>1, AsksMore
    <3> QED
      BY <3>2
  <2>2. CASE stream.status # "READY" /\ stream.sent = <<>> /\ stream.queue = <<>>
    <3>1. Requested(stream) = <<>>
      BY <2>2 DEF Requested
    <3> QED
      BY <2>2, <3>1 DEF Asks
  <2>3. CASE stream.status = old.status /\ Requested(stream) = Requested(old)
    BY <1>4, <2>3 DEF Asks
  <2> QED
    BY <1>1, <2>1, <2>2, <2>3
<1> QED
  BY <1>1, <1>2, <1>3, <1>6 DEF StreamsAskOnce, slice

LEMMA AskStep ==
  TypeOK /\ SymbolsListed /\ StreamsAskOnce /\ [Next]_vars => StreamsAskOnce'
<1> SUFFICES ASSUME TypeOK, SymbolsListed, StreamsAskOnce, [Next]_vars
             PROVE  StreamsAskOnce'
  OBVIOUS
<1>1. CASE UNCHANGED <<shared, market_data>>
  BY <1>1 DEF shared, StreamsAskOnce, Streams
<1>2. CASE \E wanted \in SUBSET Symbols : Learn(wanted)
  BY <1>2, AskUpdate
<1>3. CASE \E p \in Priorities, i \in Indices :
             Ready(p, i) \/ Disconnected(p, i) \/ Timer(p, i)
  BY <1>3, AskStream
<1> QED
  BY <1>1, <1>2, <1>3, SharedStep

\* Whatever the order in which symbols, connections and timers come, on its
\* present connection a stream asks for each symbol of its slice once on each
\* channel, and for nothing else (market_data.cpp: subscribe, operator()s of
\* Ready, Disconnected and Timer).
THEOREM SlicesAreSubscribedOnce == Spec => []SliceSubscribedOnce
<1>1. Spec => []StreamsAskOnce
  BY AskInit, AskStep, TypeCorrect, ListedAlways, PTL DEF Spec
<1>2. StreamsAskOnce => SliceSubscribedOnce
  BY EachOnceIsAskedOnce DEF StreamsAskOnce, Asks, SliceSubscribedOnce
<1> QED
  BY <1>1, <1>2, PTL

=============================================================================
