-------------------------------- MODULE Depth --------------------------------
(***************************************************************************)
(* The order book and the top of book of one symbol: the depth updates and *)
(* book tickers of gateway::MarketData, received on a primary and on a     *)
(* secondary stream, and the depth snapshots of gateway::Rest, which meet  *)
(* in the Instrument that gateway::Shared keeps for the symbol.            *)
(*                                                                         *)
(* The k-th depth update of the exchange covers the update identifiers     *)
(* 2k - 1 and 2k, on either stream; a snapshot covers all identifiers up   *)
(* to its own, which may lie in the middle of an update.  A book is the    *)
(* set of the identifiers that went into it.                               *)
(*                                                                         *)
(* External: the exchange, and market::mbp::Sequencer, which keeps updates *)
(* until a snapshot fits them, asks for one when it has none, and throws   *)
(* BadState when an update does not follow the one before.  The REST       *)
(* client, as in Subscription: a request may fail at any time, connected   *)
(* or not; a snapshot needs a connection; what is in flight when there is  *)
(* a connection again is dropped by the client or kept.                    *)
(***************************************************************************)
EXTENDS Integers, Sequences, FiniteSets, FiniteSetsExt

CONSTANTS
  Streams,         \* of the two priorities, or the primary one only
  MaxUpdates,      \* bound: depth updates of the exchange
  MaxRequests,     \* bound: snapshots queued or in flight
  MaxLosses,       \* bound: lost connections of the streams
  MaxFaults        \* bound: REST connections, and requests of one, that fail

ASSUME DepthAssumption ==
  /\ Streams # {}
  /\ MaxUpdates \in Nat
  /\ MaxRequests \in Nat
  /\ MaxLosses \in Nat
  /\ MaxFaults \in Nat

VARIABLES
  produced,              \* updates the exchange has sent
  received,              \* by stream, the last update received or missed
  up,                    \* streams with a live connection
  tob_last_update_id,    \* of the Instrument
  mbp_last_update_id,
  sequencer,
  depth_request_queue,   \* requests for the symbol in Shared
  rest_ready,            \* ready() of Rest
  flight,                \* its depth requests, oldest first: the identifier
                         \* of the snapshot, 0 when the exchange has none yet
  dropped,               \* the answer to the latest requests was an error, or
                         \* there was none
  book,                  \* identifiers in the published book
  top,                   \* identifier of the published top of book
  losses, faults

instrument == <<tob_last_update_id, mbp_last_update_id, sequencer>>
requests   == <<depth_request_queue, rest_ready, flight, dropped>>
published  == <<book, top>>
bounds     == <<losses, faults>>
vars       == <<produced, received, up, instrument, requests, published, bounds>>

First(k) == 2 * k - 1
Final(k) == 2 * k
Ids(updates) == UNION {First(k) .. Final(k) : k \in updates}

-----------------------------------------------------------------------------
(* market::mbp::Sequencer *)

\* Synchronized up to last, or with updates kept for a snapshot, held when it
\* came before the update that goes past it; asked is whether it has asked.
Cleared == [synced |-> FALSE, last |-> 0, updates |-> {}, held |-> 0, asked |-> FALSE]

Outcome(out, seq, ids) == [out |-> out, seq |-> seq, ids |-> ids]

Quiet(seq) == Outcome("NOTHING", seq, {})

\* What the updates and the snapshot it has make together.
Resolve(seq) ==
  IF seq.held = 0 \/ seq.updates = {} THEN Quiet(seq)
  ELSE LET last == Final(Max(seq.updates))
       IN  IF seq.held + 1 < First(Min(seq.updates))
             THEN Outcome("REQUEST", [seq EXCEPT !.held = 0, !.asked = TRUE], {})
           ELSE IF seq.held >= last THEN Quiet(seq)
           ELSE Outcome("SNAPSHOT", [Cleared EXCEPT !.synced = TRUE, !.last = last],
                        (1 .. seq.held) \cup Ids(seq.updates))

\* An update; again is whether the sequencer gives up waiting for a snapshot it
\* has asked for.
OnUpdate(seq, k, previous_sequence, again) ==
  LET last == CASE seq.synced -> seq.last
                [] ~ seq.synced /\ seq.updates # {} -> Final(Max(seq.updates))
                [] OTHER -> previous_sequence
      new == Final(k) > last
      kept == IF new THEN [seq EXCEPT !.updates = @ \cup {k}] ELSE seq
  IN  CASE new /\ previous_sequence # last
             -> Outcome("BAD_STATE", seq, {})
        [] new /\ previous_sequence = last /\ seq.synced
             -> Outcome("UPDATE", [seq EXCEPT !.last = Final(k)], Ids({k}))
        [] ~ new /\ seq.synced
             -> Quiet(seq)
        [] OTHER
             -> IF kept.held = 0 /\ (again \/ ~ kept.asked)
                THEN Outcome("REQUEST", [kept EXCEPT !.asked = TRUE], {})
                ELSE Resolve(kept)

OnSnapshot(seq, id) ==
  IF seq.synced THEN Quiet(seq) ELSE Resolve([seq EXCEPT !.held = id])

-----------------------------------------------------------------------------
(* What MarketData and Rest do with the outcome *)

ClearOnly(outcome) ==
  /\ sequencer' = IF outcome.out = "BAD_STATE" THEN Cleared ELSE outcome.seq
  /\ depth_request_queue' = IF outcome.out = "REQUEST" THEN depth_request_queue + 1
                                                       ELSE depth_request_queue

\* request_snapshot, or the handler of BadState, which clears and requests.
Resubscribe(outcome) ==
  /\ sequencer' = IF outcome.out = "BAD_STATE" THEN Cleared ELSE outcome.seq
  /\ depth_request_queue' = IF outcome.out \in {"REQUEST", "BAD_STATE"}
                            THEN depth_request_queue + 1
                            ELSE depth_request_queue

\* w: the requests in flight when the handler is done.
Handle(outcome, w) ==
  /\ Resubscribe(outcome)
  /\ depth_request_queue' + Len(w) <= MaxRequests
  /\ dropped' = (dropped /\ depth_request_queue' = depth_request_queue)
  /\ book' = CASE outcome.out = "SNAPSHOT" -> outcome.ids
               [] outcome.out = "UPDATE" -> book \cup outcome.ids
               [] OTHER -> book

-----------------------------------------------------------------------------
(* MarketData *)

\* Only an older update than the last one is refused.
TobUpdate(update_id) == update_id >= tob_last_update_id

MbpUpdateAll(update_id) == TRUE

MbpUpdate(update_id) == update_id >= mbp_last_update_id

\* A book ticker with an identifier later than the last depth update.
BookTicker(stream) ==
  LET update_id == Final(received[stream]) + 1
  IN  /\ stream \in up
      /\ received[stream] < produced
      /\ TobUpdate(update_id)
      /\ tob_last_update_id' = update_id
      /\ top' = update_id
      /\ UNCHANGED <<produced, received, up, mbp_last_update_id, sequencer,
                     requests, book, bounds>>

PreviousIsLastSeen(k) == mbp_last_update_id

PreviousSequence(k) == First(k) - 1

DepthUpdate(stream) ==
  LET k == received[stream] + 1
  IN  /\ stream \in up
      /\ k <= produced
      /\ received' = [received EXCEPT ![stream] = k]
      /\ IF MbpUpdate(Final(k))
         THEN /\ mbp_last_update_id' = Final(k)
              /\ \E again \in BOOLEAN :
                   Handle(OnUpdate(sequencer, k, PreviousSequence(k), again), flight)
         ELSE UNCHANGED <<mbp_last_update_id, sequencer, depth_request_queue,
                          dropped, book>>
      /\ UNCHANGED <<produced, up, tob_last_update_id, rest_ready, flight, top, bounds>>

\* Neither connection nor reconnection touches the instrument; what was sent in
\* between is missed.
Disconnected(stream) ==
  /\ stream \in up
  /\ losses < MaxLosses
  /\ losses' = losses + 1
  /\ up' = up \ {stream}
  /\ UNCHANGED <<produced, received, instrument, requests, published, faults>>

Ready(stream) ==
  /\ stream \notin up
  /\ up' = up \cup {stream}
  /\ received' = [received EXCEPT ![stream] = produced]
  /\ UNCHANGED <<produced, instrument, requests, published, bounds>>

-----------------------------------------------------------------------------
(* Rest *)

QueuedOffByOne == depth_request_queue >= 0

Queued == depth_request_queue > 0

\* check_request_queue, from the timer.
GetDepth ==
  /\ rest_ready
  /\ Queued
  /\ depth_request_queue' = depth_request_queue - 1
  /\ flight' = Append(flight, 0)
  /\ UNCHANGED <<produced, received, up, instrument, rest_ready, dropped,
                 published, bounds>>

DepthAck ==
  /\ rest_ready
  /\ flight # <<>>
  /\ Head(flight) # 0
  /\ flight' = Tail(flight)
  /\ Handle(OnSnapshot(sequencer, Head(flight)), Tail(flight))
  /\ UNCHANGED <<produced, received, up, tob_last_update_id, mbp_last_update_id,
                 rest_ready, top, bounds>>

\* handle_error: the request is not repeated.
DepthError ==
  /\ flight # <<>>
  /\ rest_ready => faults < MaxFaults
  /\ faults' = IF rest_ready THEN faults + 1 ELSE faults
  /\ flight' = Tail(flight)
  /\ dropped' = TRUE
  /\ UNCHANGED <<produced, received, up, instrument, depth_request_queue,
                 rest_ready, published, losses>>

\* The queue is kept, and what is in flight may be answered late.
RestDisconnected ==
  /\ rest_ready
  /\ faults < MaxFaults
  /\ faults' = faults + 1
  /\ rest_ready' = FALSE
  /\ UNCHANGED <<produced, received, up, instrument, depth_request_queue, flight,
                 dropped, published, losses>>

RestReady ==
  /\ ~ rest_ready
  /\ rest_ready' = TRUE
  /\ flight' \in {<<>>, flight}
  /\ dropped' = (dropped \/ flight' # flight)
  /\ UNCHANGED <<produced, received, up, instrument, depth_request_queue, published,
                 bounds>>

-----------------------------------------------------------------------------
(* The exchange *)

Produce ==
  /\ produced < MaxUpdates
  /\ produced' = produced + 1
  /\ UNCHANGED <<received, up, instrument, requests, published, bounds>>

\* The oldest request without a snapshot; the book of the exchange may be ahead
\* of the updates it has sent.
Serve ==
  /\ \E i \in DOMAIN flight, id \in {Final(produced), Final(produced) + 1} \ {0} :
       /\ flight[i] = 0
       /\ \A j \in 1 .. (i - 1) : flight[j] # 0
       /\ flight' = [flight EXCEPT ![i] = id]
  /\ UNCHANGED <<produced, received, up, instrument, depth_request_queue,
                 rest_ready, dropped, published, bounds>>

-----------------------------------------------------------------------------
Init ==
  /\ produced = 0
  /\ received = [stream \in Streams |-> 0]
  /\ up = {}
  /\ tob_last_update_id = 0
  /\ mbp_last_update_id = 0
  /\ sequencer = Cleared
  /\ depth_request_queue = 0
  /\ rest_ready = FALSE
  /\ flight = <<>>
  /\ dropped = FALSE
  /\ book = {}
  /\ top = 0
  /\ losses = 0
  /\ faults = 0

Next ==
  \/ \E stream \in Streams :
       \/ BookTicker(stream)
       \/ DepthUpdate(stream)
       \/ Disconnected(stream)
       \/ Ready(stream)
  \/ GetDepth
  \/ DepthAck
  \/ DepthError
  \/ RestDisconnected
  \/ RestReady
  \/ Produce
  \/ Serve

Spec == Init /\ [][Next]_vars

-----------------------------------------------------------------------------
(* Properties *)

TypeOK ==
  /\ produced \in Nat
  /\ received \in [Streams -> Nat]
  /\ up \subseteq Streams
  /\ tob_last_update_id \in Nat
  /\ mbp_last_update_id \in Nat
  /\ sequencer \in [synced : BOOLEAN, last : Nat, updates : SUBSET Nat, held : Nat,
                    asked : BOOLEAN]
  /\ depth_request_queue \in Nat
  /\ rest_ready \in BOOLEAN
  /\ flight \in Seq(Nat)
  /\ dropped \in BOOLEAN
  /\ book \subseteq Nat
  /\ top \in Nat
  /\ losses \in Nat
  /\ faults \in Nat

\* Every identifier up to the last one is in the published book, whatever the
\* streams missed, in whichever order they delivered, and however late the
\* snapshot came.
BookHasNoHole == book = 1 .. Cardinality(book)

\* The published book and top of book never lose what they had: not by a stream
\* that lags behind the other, nor by a snapshot asked for long before.
NeverGoesBack == [][book \subseteq book' /\ top <= top']_vars

\* Once updates have been received, a book that is not synchronized has a
\* snapshot, held or asked for, unless the answer was an error.
SnapshotAwaited ==
  mbp_last_update_id # 0 /\ ~ sequencer.synced =>
    \/ sequencer.held # 0
    \/ depth_request_queue > 0
    \/ flight # <<>>
    \/ dropped

=============================================================================
