----------------------------- MODULE DepthProofs -----------------------------
(***************************************************************************)
(* Theorems about Depth, for any number of streams, updates, requests,     *)
(* lost connections and faults.                                            *)
(***************************************************************************)
EXTENDS Depth, FiniteSetTheorems, SequenceTheorems, TLAPS

SequencerType == [synced : BOOLEAN, last : Nat, updates : SUBSET Nat, held : Nat,
                  asked : BOOLEAN]

\* The updates a sequencer keeps follow each other, up to the one that has the
\* last identifier id.
Contiguous(updates, id) ==
  updates # {} =>
    \E a, b \in Nat \ {0} : a <= b /\ updates = a .. b /\ id = Final(b)

\* When synchronized it keeps none, and is so up to that identifier, which the
\* book reaches.
UpTo(seq, id, ids) ==
  seq.synced => seq.updates = {} /\ seq.last = id /\ ids = 1 .. id

Initial(ids, id) == \E n \in 0 .. id : ids = 1 .. n

SequencerFollows ==
  /\ Contiguous(sequencer.updates, mbp_last_update_id)
  /\ UpTo(sequencer, mbp_last_update_id, book)
  /\ Initial(book, mbp_last_update_id)
  /\ top = tob_last_update_id

Awaited ==
  \/ sequencer.held # 0
  \/ depth_request_queue > 0
  \/ flight # <<>>
  \/ dropped

\* A sequencer that has asked for a snapshot awaits one, too.
SnapshotFollows ==
  (mbp_last_update_id # 0 \/ sequencer.asked) /\ ~ sequencer.synced => Awaited

IInv == TypeOK /\ SequencerFollows /\ SnapshotFollows

-----------------------------------------------------------------------------
(* Intervals of updates and of identifiers *)

LEMMA BoundsOfInterval ==
  ASSUME NEW a \in Nat, NEW b \in Nat, a <= b
  PROVE  Max(a .. b) = b /\ Min(a .. b) = a
<1>1. b \in a .. b /\ \A y \in a .. b : b >= y
  OBVIOUS
<1>2. a \in a .. b /\ \A y \in a .. b : a =< y
  OBVIOUS
<1>3. \A x \in a .. b : (\A y \in a .. b : x >= y) => x = b
  BY <1>1
<1>4. \A x \in a .. b : (\A y \in a .. b : x =< y) => x = a
  BY <1>2
<1>5. Max(a .. b) = b
  BY <1>1, <1>3 DEF Max
<1>6. Min(a .. b) = a
  BY <1>2, <1>4 DEF Min
<1> QED
  BY <1>5, <1>6

\* Updates that follow each other have identifiers that do.
LEMMA IdsOfInterval ==
  ASSUME NEW a \in Nat \ {0}, NEW b \in Nat
  PROVE  Ids(a .. b) = First(a) .. Final(b)
<1>1. ASSUME NEW k \in a .. b, NEW x \in First(k) .. Final(k)
      PROVE  x \in First(a) .. Final(b)
  BY <1>1 DEF First, Final
<1>2. ASSUME NEW x \in First(a) .. Final(b)
      PROVE  \E k \in a .. b : x \in First(k) .. Final(k)
  <2> DEFINE k == (x + 1) \div 2
  <2>1. x \in Nat /\ 2 * a - 1 <= x /\ x <= 2 * b
    BY DEF First, Final
  <2>2. k \in Int /\ 2 * k <= x + 1 /\ x <= 2 * k
    BY <2>1
  <2>3. k \in a .. b /\ x \in First(k) .. Final(k)
    <3> HIDE DEF k
    <3> QED
      BY <2>1, <2>2 DEF First, Final
  <2> QED
    BY <2>3
<1>3. \A x : x \in Ids(a .. b) <=> \E k \in a .. b : x \in First(k) .. Final(k)
  BY DEF Ids
<1>4. \A x : x \in Ids(a .. b) <=> x \in First(a) .. Final(b)
  BY <1>1, <1>2, <1>3
<1> QED
  BY <1>4

-----------------------------------------------------------------------------
(* The sequencer *)

NextSequencer(o) == IF o.out = "BAD_STATE" THEN Cleared ELSE o.seq

NextBook(o, ids) ==
  CASE o.out = "SNAPSHOT" -> o.ids
    [] o.out = "UPDATE" -> ids \cup o.ids
    [] OTHER -> ids

\* What an outcome leaves behind, id being the last identifier received.
Follows(o, ids, id) ==
  /\ NextSequencer(o) \in SequencerType
  /\ Contiguous(NextSequencer(o).updates, id)
  /\ UpTo(NextSequencer(o), id, NextBook(o, ids))
  /\ Initial(NextBook(o, ids), id)
  /\ ids \subseteq NextBook(o, ids)

LEMMA QuietFollows ==
  ASSUME NEW seq \in SequencerType, NEW id \in Nat, NEW ids,
         Contiguous(seq.updates, id), UpTo(seq, id, ids), Initial(ids, id)
  PROVE  Follows(Quiet(seq), ids, id)
BY DEF Follows, NextSequencer, NextBook, Quiet, Outcome

LEMMA ResolveFollows ==
  ASSUME NEW seq \in SequencerType, NEW id \in Nat, NEW ids,
         Contiguous(seq.updates, id), ~ seq.synced, Initial(ids, id)
  PROVE  /\ Follows(Resolve(seq), ids, id)
         /\ Resolve(seq).out # "REQUEST" /\ ~ NextSequencer(Resolve(seq)).synced
              => NextSequencer(Resolve(seq)).held = seq.held
         /\ Resolve(seq).out \in {"NOTHING", "REQUEST", "SNAPSHOT"}
<1>1. CASE seq.held = 0 \/ seq.updates = {}
  <2>1. Resolve(seq) = Quiet(seq)
    BY <1>1 DEF Resolve
  <2>2. Follows(Quiet(seq), ids, id)
    BY QuietFollows DEF UpTo
  <2> QED
    BY <2>1, <2>2 DEF Quiet, Outcome, NextSequencer
<1>2. CASE seq.held # 0 /\ seq.updates # {}
  <2>1. PICK a \in Nat \ {0}, b \in Nat \ {0} :
          a <= b /\ seq.updates = a .. b /\ id = Final(b)
    BY <1>2 DEF Contiguous
  <2>2. Max(seq.updates) = b /\ Min(seq.updates) = a
    BY <2>1, BoundsOfInterval
  <2>3. Ids(seq.updates) = First(a) .. Final(b)
    BY <2>1, IdsOfInterval
  <2>4. seq.held \in Nat
    BY DEF SequencerType
  <2>5. CASE seq.held + 1 < First(a)
    <3> DEFINE new == [seq EXCEPT !.held = 0, !.asked = TRUE]
    <3>1. Resolve(seq) = Outcome("REQUEST", new, {})
      BY <1>2, <2>2, <2>5 DEF Resolve
    <3>2. new \in SequencerType /\ new.updates = seq.updates /\ ~ new.synced
      BY DEF SequencerType
    <3>3. /\ Resolve(seq).out = "REQUEST"
          /\ NextSequencer(Resolve(seq)) = new
          /\ NextBook(Resolve(seq), ids) = ids
      BY <3>1 DEF NextSequencer, NextBook, Outcome
    <3> HIDE DEF new
    <3>4. UpTo(new, id, ids)
      BY <3>2 DEF UpTo
    <3>5. Follows(Resolve(seq), ids, id)
      BY <3>2, <3>3, <3>4 DEF Follows
    <3> QED
      BY <3>3, <3>5
  <2>6. CASE ~ (seq.held + 1 < First(a)) /\ seq.held >= Final(b)
    <3>1. Resolve(seq) = Quiet(seq)
      BY <1>2, <2>2, <2>6 DEF Resolve
    <3>2. Follows(Quiet(seq), ids, id)
      BY QuietFollows DEF UpTo
    <3> QED
      BY <3>1, <3>2 DEF Quiet, Outcome, NextSequencer
  <2>7. CASE ~ (seq.held + 1 < First(a)) /\ ~ (seq.held >= Final(b))
    <3> DEFINE new == [Cleared EXCEPT !.synced = TRUE, !.last = Final(b)]
    <3> DEFINE made == (1 .. seq.held) \cup Ids(seq.updates)
    <3>1. Resolve(seq) = Outcome("SNAPSHOT", new, made)
      BY <1>2, <2>2, <2>7 DEF Resolve
    <3>2. new \in SequencerType /\ new.updates = {} /\ new.synced /\ new.last = Final(b)
      BY <2>1 DEF SequencerType, Cleared
    <3>3. made = 1 .. id
      BY <2>1, <2>3, <2>4, <2>7 DEF First, Final
    <3>4. ids \subseteq made /\ Initial(made, id)
      BY <3>3 DEF Initial
    <3>5. /\ Resolve(seq).out = "SNAPSHOT"
          /\ NextSequencer(Resolve(seq)) = new
          /\ NextBook(Resolve(seq), ids) = made
      BY <3>1 DEF NextSequencer, NextBook, Outcome
    <3> HIDE DEF new, made
    <3>6. UpTo(new, id, made) /\ Contiguous(new.updates, id)
      BY <2>1, <3>2, <3>3 DEF UpTo, Contiguous
    <3>7. Follows(Resolve(seq), ids, id)
      BY <3>2, <3>4, <3>5, <3>6 DEF Follows
    <3> QED
      BY <3>2, <3>5, <3>7
  <2> QED
    BY <2>5, <2>6, <2>7
<1> QED
  BY <1>1, <1>2

\* What keeps an update in a sequencer that is not synchronized, and then asks
\* for a snapshot or tries the one it has.
LEMMA KeptFollows ==
  ASSUME NEW kept \in SequencerType, NEW id \in Nat, NEW ids,
         Contiguous(kept.updates, id), ~ kept.synced, Initial(ids, id),
         NEW o,
         \/ o = Outcome("REQUEST", [kept EXCEPT !.asked = TRUE], {})
         \/ o = Resolve(kept)
  PROVE  /\ Follows(o, ids, id)
         /\ o.out # "REQUEST" /\ ~ NextSequencer(o).synced
              => o = Resolve(kept) /\ NextSequencer(o).held = kept.held
<1>1. CASE o = Outcome("REQUEST", [kept EXCEPT !.asked = TRUE], {})
  <2> DEFINE new == [kept EXCEPT !.asked = TRUE]
  <2>1. new \in SequencerType /\ new.updates = kept.updates /\ ~ new.synced
    BY DEF SequencerType
  <2>2. o = Outcome("REQUEST", new, {})
    BY <1>1
  <2> HIDE DEF new
  <2>3. o.out = "REQUEST" /\ NextSequencer(o) = new /\ NextBook(o, ids) = ids
    BY <2>2 DEF Outcome, NextSequencer, NextBook
  <2>4. UpTo(new, id, ids)
    BY <2>1 DEF UpTo
  <2>5. Follows(o, ids, id)
    BY <2>1, <2>3, <2>4 DEF Follows
  <2> QED
    BY <2>3, <2>5
<1>2. CASE o = Resolve(kept)
  BY <1>2, ResolveFollows
<1> QED
  BY <1>1, <1>2

LEMMA BadStateFollows ==
  ASSUME NEW seq, NEW id \in Nat, NEW ids, Initial(ids, id),
         NEW o, o = Outcome("BAD_STATE", seq, {})
  PROVE  Follows(o, ids, id) /\ o.out = "BAD_STATE"
<1>1. o.out = "BAD_STATE" /\ NextSequencer(o) = Cleared /\ NextBook(o, ids) = ids
  BY DEF Outcome, NextSequencer, NextBook
<1>2. Cleared \in SequencerType /\ Cleared.updates = {} /\ ~ Cleared.synced
  BY DEF Cleared, SequencerType
<1>3. UpTo(Cleared, id, ids) /\ Contiguous(Cleared.updates, id)
  BY <1>2 DEF UpTo, Contiguous
<1> QED
  BY <1>1, <1>2, <1>3 DEF Follows

\* An update that is not refused, whichever it is.
LEMMA UpdateFollows ==
  ASSUME NEW seq \in SequencerType, NEW id \in Nat, NEW ids,
         NEW k \in Nat \ {0}, NEW again \in BOOLEAN, Final(k) >= id,
         Contiguous(seq.updates, id), UpTo(seq, id, ids), Initial(ids, id),
         NEW o, o = OnUpdate(seq, k, PreviousSequence(k), again)
  PROVE  /\ Follows(o, ids, Final(k))
         /\ ~ NextSequencer(o).synced =>
              \/ o.out \in {"REQUEST", "BAD_STATE"}
              \/ NextSequencer(o).held # 0
              \/ ~ seq.synced /\ seq.asked /\ seq.held = 0
<1> DEFINE previous == PreviousSequence(k)
<1> DEFINE last == CASE seq.synced -> seq.last
                     [] ~ seq.synced /\ seq.updates # {} -> Final(Max(seq.updates))
                     [] OTHER -> previous
<1> DEFINE new == Final(k) > last
<1> DEFINE kept == IF new THEN [seq EXCEPT !.updates = @ \cup {k}] ELSE seq
<1>a. previous = 2 * k - 2 /\ Final(k) = 2 * k /\ Final(k) \in Nat /\ k \in Nat
  BY DEF PreviousSequence, First, Final
<1>b. Initial(ids, Final(k))
  BY <1>a DEF Initial
<1>1. CASE new /\ previous # last
  <2>1. o = Outcome("BAD_STATE", seq, {})
    BY <1>1 DEF OnUpdate
  <2> QED
    BY <2>1, <1>a, <1>b, BadStateFollows
<1>2. CASE new /\ previous = last /\ seq.synced
  <2> DEFINE next == [seq EXCEPT !.last = Final(k)]
  <2>1. o = Outcome("UPDATE", next, Ids({k}))
    BY <1>2 DEF OnUpdate
  <2>2. next \in SequencerType /\ next.updates = seq.updates /\ next.synced /\ next.last = Final(k)
    BY <1>2, <1>a DEF SequencerType
  <2>3. o.out = "UPDATE" /\ NextSequencer(o) = next /\ NextBook(o, ids) = ids \cup Ids({k})
    BY <2>1 DEF Outcome, NextSequencer, NextBook
  <2>4. last = seq.last /\ seq.last = id /\ ids = 1 .. id
    BY <1>2 DEF UpTo
  <2>5. Ids({k}) = First(k) .. Final(k)
    <3>1. k .. k = {k}
      BY <1>a
    <3> QED
      BY <3>1, <1>a, IdsOfInterval
  <2>6. ids \cup Ids({k}) = 1 .. Final(k)
    BY <1>2, <2>4, <2>5, <1>a DEF First
  <2> HIDE DEF next
  <2>7. UpTo(next, Final(k), ids \cup Ids({k})) /\ Contiguous(next.updates, Final(k))
    BY <1>2, <2>2, <2>6 DEF UpTo, Contiguous
  <2>8. Initial(ids \cup Ids({k}), Final(k))
    <3>1. Final(k) \in 0 .. Final(k)
      BY <1>a
    <3> QED
      BY <2>6, <3>1, Zenon DEF Initial
  <2> QED
    BY <2>2, <2>3, <2>7, <2>8 DEF Follows
<1>3. CASE ~ new /\ seq.synced
  <2>1. o = Quiet(seq)
    BY <1>3 DEF OnUpdate
  <2>2. last = seq.last /\ seq.last = id
    BY <1>3 DEF UpTo
  <2>3. id = Final(k)
    BY <1>3, <2>2, <1>a
  <2>4. Follows(o, ids, Final(k))
    BY <2>1, <2>3, QuietFollows
  <2>5. NextSequencer(o) = seq
    BY <2>1 DEF NextSequencer, Quiet, Outcome
  <2> QED
    BY <1>3, <2>4, <2>5
<1>4. CASE ~ seq.synced /\ ~ (new /\ previous # last)
  <2>1. \/ o = Outcome("REQUEST", [kept EXCEPT !.asked = TRUE], {})
        \/ o = Resolve(kept) /\ ~ (kept.held = 0 /\ (again \/ ~ kept.asked))
    BY <1>4 DEF OnUpdate
  <2>2. kept \in SequencerType /\ kept.held = seq.held /\ ~ kept.synced
    BY <1>4, <1>a DEF SequencerType
  <2>a. kept.asked => seq.asked
    BY DEF SequencerType
  <2>3. Contiguous(kept.updates, Final(k))
    <3>1. CASE seq.updates = {}
      <4>1. last = previous
        BY <3>1, <1>4
      <4>2. new /\ kept.updates = {k}
        BY <3>1, <4>1, <1>a DEF SequencerType
      <4>3. {k} = k .. k
        BY <1>a
      <4> QED
        BY <4>2, <4>3, <1>a DEF Contiguous
    <3>2. CASE seq.updates # {}
      <4>1. PICK a \in Nat \ {0}, b \in Nat \ {0} :
              a <= b /\ seq.updates = a .. b /\ id = Final(b)
        BY <3>2 DEF Contiguous
      <4>2. last = Final(b)
        BY <3>2, <4>1, <1>4, BoundsOfInterval
      <4>3. CASE new
        <5>1. k = b + 1
          BY <1>4, <1>a, <4>2, <4>3 DEF Final
        <5>2. kept.updates = a .. k
          BY <4>1, <4>3, <5>1 DEF SequencerType
        <5> QED
          BY <4>1, <5>1, <5>2 DEF Contiguous
      <4>4. CASE ~ new
        <5>1. kept.updates = a .. b /\ Final(k) = Final(b)
          BY <4>1, <4>2, <4>4, <1>a DEF Final
        <5> QED
          BY <4>1, <5>1 DEF Contiguous
      <4> QED
        BY <4>3, <4>4
    <3> QED
      BY <3>1, <3>2
  <2> HIDE DEF kept
  <2>4. /\ Follows(o, ids, Final(k))
        /\ o.out # "REQUEST" /\ ~ NextSequencer(o).synced
             => o = Resolve(kept) /\ NextSequencer(o).held = kept.held
    BY <1>a, <1>b, <2>1, <2>2, <2>3, KeptFollows
  <2>5. kept.held # 0 \/ (seq.asked /\ seq.held = 0) \/ o.out = "REQUEST"
    <3>1. CASE o = Outcome("REQUEST", [kept EXCEPT !.asked = TRUE], {})
      BY <3>1 DEF Outcome
    <3>2. CASE ~ (kept.held = 0 /\ (again \/ ~ kept.asked))
      <4>1. kept.held # 0 \/ (kept.held = 0 /\ kept.asked)
        BY <3>2, Zenon
      <4> QED
        BY <2>2, <2>a, <4>1, Zenon
    <3> QED
      BY <2>1, <3>1, <3>2
  <2> QED
    BY <1>4, <2>4, <2>5
<1> QED
  BY <1>1, <1>2, <1>3, <1>4

LEMMA SnapshotFollowed ==
  ASSUME NEW seq \in SequencerType, NEW id \in Nat, NEW ids, NEW snapshot \in Nat \ {0},
         Contiguous(seq.updates, id), UpTo(seq, id, ids), Initial(ids, id),
         NEW o, o = OnSnapshot(seq, snapshot)
  PROVE  /\ Follows(o, ids, id)
         /\ ~ NextSequencer(o).synced => o.out = "REQUEST" \/ NextSequencer(o).held # 0
<1>1. CASE seq.synced
  <2>1. o = Quiet(seq)
    BY <1>1 DEF OnSnapshot
  <2>2. NextSequencer(o) = seq
    BY <2>1 DEF NextSequencer, Quiet, Outcome
  <2> QED
    BY <1>1, <2>1, <2>2, QuietFollows
<1>2. CASE ~ seq.synced
  <2> DEFINE holding == [seq EXCEPT !.held = snapshot]
  <2>1. o = Resolve(holding)
    BY <1>2 DEF OnSnapshot
  <2>2. /\ holding \in SequencerType
        /\ holding.updates = seq.updates
        /\ holding.held = snapshot
        /\ ~ holding.synced
    BY <1>2 DEF SequencerType
  <2> HIDE DEF holding
  <2> QED
    BY <2>1, <2>2, ResolveFollows
<1> QED
  BY <1>1, <1>2

-----------------------------------------------------------------------------
(* The steps *)

LEMMA Handled ==
  ASSUME NEW o, NEW w, depth_request_queue \in Nat, dropped \in BOOLEAN, Handle(o, w)
  PROVE  /\ sequencer' = NextSequencer(o)
         /\ book' = NextBook(o, book)
         /\ depth_request_queue' \in Nat
         /\ dropped' \in BOOLEAN
         /\ depth_request_queue > 0 => depth_request_queue' > 0
         /\ o.out \in {"REQUEST", "BAD_STATE"} => depth_request_queue' > 0
         /\ dropped => dropped' \/ depth_request_queue' > 0
<1>1. /\ sequencer' = NextSequencer(o)
      /\ depth_request_queue' = IF o.out \in {"REQUEST", "BAD_STATE"}
                                 THEN depth_request_queue + 1
                                 ELSE depth_request_queue
      /\ dropped' = (dropped /\ depth_request_queue' = depth_request_queue)
  BY DEF Handle, Resubscribe, NextSequencer
<1>2. book' = NextBook(o, book)
  BY DEF Handle, NextBook
<1>3. dropped' \in BOOLEAN
  BY <1>1, Zenon
<1>4. dropped => dropped' \/ depth_request_queue' # depth_request_queue
  BY <1>1, Zenon
<1> QED
  BY <1>1, <1>2, <1>3, <1>4

\* What a step has to show when it handles an outcome.
LEMMA FollowedByInvariant ==
  ASSUME IInv, TypeOK', NEW o, Follows(o, book, mbp_last_update_id'),
         sequencer' = NextSequencer(o), book' = NextBook(o, book),
         UNCHANGED <<tob_last_update_id, top>>,
         ~ sequencer'.synced => Awaited'
  PROVE  IInv' /\ book \subseteq book' /\ top <= top'
<1>1. /\ Contiguous(sequencer'.updates, mbp_last_update_id')
      /\ UpTo(sequencer', mbp_last_update_id', book')
      /\ Initial(book', mbp_last_update_id')
      /\ book \subseteq book'
  BY DEF Follows
<1>2. top' = tob_last_update_id' /\ top <= top'
  BY DEF IInv, TypeOK, SequencerFollows
<1> QED
  BY <1>1, <1>2 DEF IInv, SequencerFollows, SnapshotFollows

\* The other steps leave the instrument and the books alone.
LEMMA FrameInvariant ==
  ASSUME IInv, TypeOK', UNCHANGED <<instrument, published>>, Awaited => Awaited'
  PROVE  IInv' /\ book \subseteq book' /\ top <= top'
<1>1. SequencerFollows' /\ book \subseteq book' /\ top <= top'
  <2>1. /\ sequencer' = sequencer /\ mbp_last_update_id' = mbp_last_update_id
        /\ tob_last_update_id' = tob_last_update_id /\ book' = book /\ top' = top
    BY DEF instrument, published
  <2>2. top <= top
    BY DEF IInv, TypeOK
  <2>3. SequencerFollows'
    BY <2>1 DEF IInv, SequencerFollows
  <2> QED
    BY <2>1, <2>2, <2>3
<1>2. SnapshotFollows'
  BY DEF IInv, SnapshotFollows, instrument
<1> QED
  BY <1>1, <1>2 DEF IInv

LEMMA InitInvariant == Init => IInv
<1> SUFFICES ASSUME Init PROVE IInv
  OBVIOUS
<1>1. Cleared \in SequencerType /\ Cleared.updates = {} /\ ~ Cleared.synced /\ ~ Cleared.asked
  BY DEF Cleared, SequencerType
<1>2. TypeOK
  <2>1. sequencer \in SequencerType
    BY <1>1 DEF Init
  <2>2. received \in [Streams -> Nat] /\ flight \in Seq(Nat) /\ book \subseteq Nat /\ up \subseteq Streams
    BY DEF Init
  <2> QED
    BY <2>1, <2>2 DEF Init, TypeOK, SequencerType
<1>3. SequencerFollows
  <2>1. book = 1 .. 0 /\ 0 \in 0 .. 0
    BY DEF Init
  <2>2. Initial(book, mbp_last_update_id)
    BY <2>1 DEF Init, Initial
  <2> QED
    BY <1>1, <2>2 DEF Init, SequencerFollows, Contiguous, UpTo
<1>4. SnapshotFollows
  BY <1>1 DEF Init, SnapshotFollows
<1> QED
  BY <1>2, <1>3, <1>4 DEF IInv

LEMMA BookTickerStep ==
  ASSUME IInv, NEW stream \in Streams, BookTicker(stream)
  PROVE  IInv' /\ book \subseteq book' /\ top <= top'
<1>1. received[stream] \in Nat
  BY DEF IInv, TypeOK
<1>2. /\ tob_last_update_id' = Final(received[stream]) + 1
      /\ top' = tob_last_update_id'
      /\ tob_last_update_id' >= tob_last_update_id
      /\ tob_last_update_id' \in Nat
  BY <1>1 DEF BookTicker, TobUpdate, Final
<1>3. TypeOK'
  BY <1>2 DEF BookTicker, IInv, TypeOK, requests, bounds
<1>4. SequencerFollows'
  BY <1>2 DEF BookTicker, IInv, SequencerFollows, Contiguous, UpTo, Initial
<1>5. SnapshotFollows'
  BY DEF BookTicker, IInv, SnapshotFollows, Awaited, requests
<1>6. top = tob_last_update_id /\ top \in Nat
  BY DEF IInv, SequencerFollows, TypeOK
<1> QED
  BY <1>2, <1>3, <1>4, <1>5, <1>6 DEF IInv, BookTicker

LEMMA DepthUpdateStep ==
  ASSUME IInv, NEW stream \in Streams, DepthUpdate(stream)
  PROVE  IInv' /\ book \subseteq book' /\ top <= top'
<1> DEFINE k == received[stream] + 1
<1>1. k \in Nat \ {0} /\ Final(k) \in Nat
  BY DEF IInv, TypeOK, Final
<1>2. /\ received' = [received EXCEPT ![stream] = k]
      /\ received' \in [Streams -> Nat]
  BY <1>1 DEF DepthUpdate, IInv, TypeOK
<1> HIDE DEF k
<1>3. CASE MbpUpdate(Final(k))
  <2>1. PICK again \in BOOLEAN :
          Handle(OnUpdate(sequencer, k, PreviousSequence(k), again), flight)
    BY <1>3 DEF DepthUpdate, k
  <2> DEFINE o == OnUpdate(sequencer, k, PreviousSequence(k), again)
  <2>2. mbp_last_update_id' = Final(k) /\ Final(k) >= mbp_last_update_id
    BY <1>3 DEF DepthUpdate, MbpUpdate, k
  <2>3. sequencer \in SequencerType /\ mbp_last_update_id \in Nat
    BY DEF IInv, TypeOK, SequencerType
  <2>4. /\ Follows(o, book, Final(k))
        /\ ~ NextSequencer(o).synced =>
             \/ o.out \in {"REQUEST", "BAD_STATE"}
             \/ NextSequencer(o).held # 0
             \/ ~ sequencer.synced /\ sequencer.asked /\ sequencer.held = 0
    BY <1>1, <2>2, <2>3, UpdateFollows DEF IInv, SequencerFollows
  <2> HIDE DEF o
  <2>5. /\ sequencer' = NextSequencer(o)
        /\ book' = NextBook(o, book)
        /\ depth_request_queue' \in Nat
        /\ dropped' \in BOOLEAN
        /\ depth_request_queue > 0 => depth_request_queue' > 0
        /\ o.out \in {"REQUEST", "BAD_STATE"} => depth_request_queue' > 0
        /\ dropped => dropped' \/ depth_request_queue' > 0
    BY <2>1, Handled DEF IInv, TypeOK, o
  <2>6. TypeOK'
    <3>1. sequencer' \in SequencerType
      BY <2>4, <2>5 DEF Follows
    <3>2. book' \subseteq Nat
      BY <1>1, <2>4, <2>5 DEF Follows, Initial
    <3> QED
      BY <1>1, <1>2, <2>2, <2>5, <3>1, <3>2
         DEF IInv, TypeOK, SequencerType, DepthUpdate, bounds
  <2>7. ~ sequencer'.synced => Awaited'
    <3>1. ~ sequencer.synced /\ sequencer.asked /\ sequencer.held = 0 =>
            depth_request_queue > 0 \/ flight # <<>> \/ dropped
      BY Zenon DEF IInv, SnapshotFollows, Awaited
    <3>2. flight' = flight
      BY DEF DepthUpdate
    <3> QED
      BY <2>4, <2>5, <3>1, <3>2, Zenon DEF Awaited
  <2>8. UNCHANGED <<tob_last_update_id, top>>
    BY DEF DepthUpdate
  <2> QED
    BY <2>2, <2>4, <2>5, <2>6, <2>7, <2>8, FollowedByInvariant
<1>4. CASE ~ MbpUpdate(Final(k))
  <2>1. UNCHANGED <<instrument, published, depth_request_queue, dropped, flight>>
    BY <1>4 DEF DepthUpdate, instrument, published, k
  <2>2. TypeOK'
    BY <1>2, <2>1 DEF IInv, TypeOK, DepthUpdate, instrument, published, bounds
  <2>3. Awaited => Awaited'
    BY <2>1 DEF Awaited, instrument
  <2> QED
    BY <2>1, <2>2, <2>3, FrameInvariant
<1> QED
  BY <1>3, <1>4

LEMMA DepthAckStep ==
  ASSUME IInv, DepthAck
  PROVE  IInv' /\ book \subseteq book' /\ top <= top'
<1> DEFINE o == OnSnapshot(sequencer, Head(flight))
<1>1. Head(flight) \in Nat \ {0} /\ Tail(flight) \in Seq(Nat)
  BY DEF DepthAck, IInv, TypeOK
<1>2. flight' = Tail(flight) /\ Handle(o, Tail(flight))
  BY DEF DepthAck
<1>3. /\ Follows(o, book, mbp_last_update_id)
      /\ ~ NextSequencer(o).synced => o.out = "REQUEST" \/ NextSequencer(o).held # 0
  <2>1. sequencer \in SequencerType /\ mbp_last_update_id \in Nat
    BY DEF IInv, TypeOK, SequencerType
  <2> QED
    BY <1>1, <2>1, SnapshotFollowed DEF IInv, SequencerFollows
<1> HIDE DEF o
<1>4. /\ sequencer' = NextSequencer(o)
      /\ book' = NextBook(o, book)
      /\ depth_request_queue' \in Nat
      /\ dropped' \in BOOLEAN
      /\ o.out \in {"REQUEST", "BAD_STATE"} => depth_request_queue' > 0
  BY <1>2, Handled DEF IInv, TypeOK
<1>5. UNCHANGED <<tob_last_update_id, mbp_last_update_id, top>>
  BY DEF DepthAck
<1>6. TypeOK'
  <2>1. sequencer' \in SequencerType
    BY <1>3, <1>4 DEF Follows
  <2>2. book' \subseteq Nat
    BY <1>3, <1>4 DEF Follows, Initial, IInv, TypeOK
  <2> QED
    BY <1>1, <1>2, <1>4, <2>1, <2>2 DEF IInv, TypeOK, SequencerType, DepthAck, bounds
<1>7. ~ sequencer'.synced => Awaited'
  BY <1>3, <1>4, Zenon DEF Awaited
<1> QED
  BY <1>3, <1>4, <1>5, <1>6, <1>7, FollowedByInvariant

\* The steps that handle no outcome: what they do to the requests.
LEMMA OtherStep ==
  ASSUME IInv, NEW stream \in Streams,
         \/ Disconnected(stream)
         \/ Ready(stream)
         \/ GetDepth
         \/ DepthError
         \/ RestDisconnected
         \/ RestReady
         \/ Produce
         \/ Serve
         \/ UNCHANGED vars
  PROVE  IInv' /\ book \subseteq book' /\ top <= top'
<1> USE DEF IInv, TypeOK
<1>1. CASE Disconnected(stream)
  <2>1. TypeOK'
    BY <1>1 DEF Disconnected, instrument, requests, published
  <2> QED
    BY <1>1, <2>1, FrameInvariant DEF Disconnected, requests, Awaited, instrument
<1>2. CASE Ready(stream)
  <2>1. TypeOK'
    BY <1>2 DEF Ready, instrument, requests, published, bounds
  <2> QED
    BY <1>2, <2>1, FrameInvariant DEF Ready, requests, Awaited, instrument
<1>3. CASE GetDepth
  <2>1. flight' \in Seq(Nat) /\ flight' # <<>>
    BY <1>3 DEF GetDepth
  <2>2. TypeOK'
    BY <1>3, <2>1 DEF GetDepth, Queued, instrument, published, bounds
  <2> QED
    BY <1>3, <2>1, <2>2, FrameInvariant DEF GetDepth, Awaited
<1>4. CASE DepthError
  <2>1. faults' \in Nat /\ flight' \in Seq(Nat)
    BY <1>4 DEF DepthError
  <2>2. TypeOK'
    BY <1>4, <2>1 DEF DepthError, instrument, published
  <2> QED
    BY <1>4, <2>2, FrameInvariant DEF DepthError, Awaited
<1>5. CASE RestDisconnected
  <2>1. TypeOK'
    <3>1. rest_ready' = FALSE /\ faults' = faults + 1
      BY <1>5 DEF RestDisconnected
    <3>2. UNCHANGED <<produced, received, up, instrument, depth_request_queue, flight,
                      dropped, published, losses>>
      BY <1>5 DEF RestDisconnected
    <3>3. rest_ready' \in BOOLEAN
      BY <3>1
    <3>4. faults' \in Nat
      BY <3>1
    <3> QED
      BY <3>2, <3>3, <3>4 DEF instrument, published
  <2> QED
    BY <1>5, <2>1, FrameInvariant DEF RestDisconnected, Awaited, instrument
<1>6. CASE RestReady
  <2>1. flight' \in {<<>>, flight} /\ dropped' \in BOOLEAN
    BY <1>6, Zenon DEF RestReady
  <2>2. flight' \in Seq(Nat)
    <3>1. <<>> \in Seq(Nat) /\ flight \in Seq(Nat)
      OBVIOUS
    <3> QED
      BY <2>1, <3>1, Zenon
  <2>3. rest_ready' \in BOOLEAN
    BY <1>6 DEF RestReady
  <2>4. UNCHANGED <<produced, received, up, instrument, depth_request_queue,
                    published, bounds>>
    BY <1>6 DEF RestReady
  <2>5. TypeOK'
    BY <2>1, <2>2, <2>3, <2>4 DEF instrument, published, bounds
  <2>6. Awaited => Awaited'
    <3>1. dropped \/ flight # <<>> => dropped' \/ flight' # <<>>
      BY <1>6, Zenon DEF RestReady
    <3>2. sequencer' = sequencer /\ depth_request_queue' = depth_request_queue
      BY <2>4 DEF instrument
    <3> QED
      BY <3>1, <3>2, Zenon DEF Awaited
  <2> QED
    BY <2>4, <2>5, <2>6, FrameInvariant
<1>7. CASE Produce
  <2>1. TypeOK'
    BY <1>7 DEF Produce, instrument, requests, published, bounds
  <2> QED
    BY <1>7, <2>1, FrameInvariant DEF Produce, requests, Awaited, instrument
<1>8. CASE Serve
  <2>1. PICK i \in DOMAIN flight, id \in {Final(produced), Final(produced) + 1} \ {0} :
          flight' = [flight EXCEPT ![i] = id]
    BY <1>8 DEF Serve
  <2>2. flight' \in Seq(Nat) /\ flight' # <<>>
    <3>1. id \in Nat
      BY <2>1 DEF Final
    <3>2. flight \in Seq(Nat) /\ i \in DOMAIN flight /\ flight' = [flight EXCEPT ![i] = id]
      BY <2>1
    <3> QED
      BY <3>1, <3>2, ExceptSeq
  <2>3. TypeOK'
    BY <1>8, <2>2 DEF Serve, instrument, published, bounds
  <2> QED
    BY <1>8, <2>2, <2>3, FrameInvariant DEF Serve, Awaited
<1>9. CASE UNCHANGED vars
  <2>1. TypeOK'
    BY <1>9 DEF vars, instrument, requests, published, bounds
  <2> QED
    BY <1>9, <2>1, FrameInvariant DEF vars, requests, Awaited, instrument
<1> QED
  BY <1>1, <1>2, <1>3, <1>4, <1>5, <1>6, <1>7, <1>8, <1>9

LEMMA StepInvariant ==
  ASSUME IInv, [Next]_vars
  PROVE  IInv' /\ book \subseteq book' /\ top <= top'
<1>1. PICK stream : stream \in Streams
  BY DepthAssumption
<1>2. CASE \E s \in Streams : BookTicker(s) \/ DepthUpdate(s)
  BY <1>2, BookTickerStep, DepthUpdateStep
<1>3. CASE \E s \in Streams : Disconnected(s) \/ Ready(s)
  BY <1>3, OtherStep
<1>4. CASE DepthAck
  BY <1>4, DepthAckStep
<1>5. CASE \/ GetDepth
           \/ DepthError
           \/ RestDisconnected
           \/ RestReady
           \/ Produce
           \/ Serve
           \/ UNCHANGED vars
  BY <1>1, <1>5, OtherStep
<1> QED
  BY <1>2, <1>3, <1>4, <1>5 DEF Next

LEMMA AlwaysInvariant == Spec => []IInv
<1>1. Init => IInv
  BY InitInvariant
<1>2. IInv /\ [Next]_vars => IInv'
  BY StepInvariant
<1> QED
  BY <1>1, <1>2, PTL DEF Spec

-----------------------------------------------------------------------------
(* Theorems *)

\* Every variable of Depth keeps its type: the Instrument of shared.hpp, the
\* queue of Rest and what is published.
THEOREM TypeCorrect == Spec => []TypeOK
<1>1. IInv => TypeOK
  BY DEF IInv
<1> QED
  BY <1>1, AlwaysInvariant, PTL

\* The book published by MarketData and Rest has no hole: a sequencer that is
\* synchronized is so up to the last update received, and one that is not keeps
\* an interval of updates which a snapshot must reach.
THEOREM BookIsWhole == Spec => []BookHasNoHole
<1>1. IInv => BookHasNoHole
  <2> SUFFICES ASSUME IInv PROVE BookHasNoHole
    OBVIOUS
  <2>1. PICK n \in Nat : book = 1 .. n
    BY DEF IInv, TypeOK, SequencerFollows, Initial
  <2>2. Cardinality(1 .. n) = n
    BY FS_Interval
  <2> QED
    BY <2>1, <2>2 DEF BookHasNoHole
<1> QED
  BY <1>1, AlwaysInvariant, PTL

\* Unless the answer to it was an error (rest.cpp drops it), a book that is not
\* synchronized has a snapshot, held, queued or requested.
THEOREM SnapshotIsAwaited == Spec => []SnapshotAwaited
<1>1. IInv => SnapshotAwaited
  BY DEF IInv, SnapshotFollows, SnapshotAwaited, Awaited
<1> QED
  BY <1>1, AlwaysInvariant, PTL

\* What was published is never taken back, by whichever of the two streams and
\* however late the snapshot: the last update identifiers of the Instrument
\* are shared, and a book restarts beyond all that it had.
THEOREM BookNeverGoesBack == Spec => NeverGoesBack
<1>1. IInv /\ [Next]_vars => [book \subseteq book' /\ top <= top']_vars
  BY StepInvariant
<1> QED
  BY <1>1, AlwaysInvariant, PTL DEF Spec, NeverGoesBack

=============================================================================
