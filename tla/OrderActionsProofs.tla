-------------------------- MODULE OrderActionsProofs --------------------------
(***************************************************************************)
(* Theorems about OrderActions, for any number of symbols, requests,       *)
(* faults, which lost connections are too.                                 *)
(***************************************************************************)
EXTENDS OrderActions, FiniteSetTheorems, SequenceTheorems, TLAPS

Item == [request : Requests, result : Results \cup {"NONE"}]

\* Results that say the request was not executed.
Refusals == {"CLIENT_ERROR", "FORBIDDEN", "RATE_LIMIT"}

ModeSet == IF portfolio THEN {"PORTFOLIO"} ELSE {"ISOLATED", "CROSS"}

\* Without an answer of the exchange.
Unanswered == {"DISCONNECTED", "NONE"}

\* The creation of an order is sent once, and has its response when off the wire;
\* one that was given up has none of the exchange.
SentOnce ==
  /\ \A i, j \in DOMAIN wire : \A o \in Orders :
       wire[i].request = Create(o) /\ wire[j].request = Create(o) => i = j
  /\ \A o \in Orders : Create(o) \in DOMAIN responses => ~ OnWire(Create(o))
  /\ \A o \in Orders : Create(o) \in orphans =>
       Create(o) \in DOMAIN responses /\ responses[Create(o)].status \in Unanswered

\* The exchange has nothing that was not sent, and the stream knows the symbol
\* of all that was.
SymbolsKnown ==
  /\ \A o \in Orders : orders[o] # "NONE" => Sent(o)
  /\ \A o \in Orders : Sent(o) => o.symbol \in open_orders_symbols /\ o.mode \in ModeSet
  /\ IsFiniteSet(open_orders_symbols)

\* The answers on the wire tell the truth too.
AnswersTellTheTruth ==
  \A i \in DOMAIN wire : \A o \in Orders :
    /\ wire[i].request = Create(o) =>
         /\ wire[i].result = "SUCCESS" => orders[o] # "NONE"
         /\ wire[i].result \in Refusals \cup {"NONE"} => orders[o] = "NONE"
    /\ wire[i].request = Cancel(o) /\ wire[i].result = "SUCCESS" => orders[o] = "DONE"

\* A cancel-all is behind the orders it covers, sent or working.
CoveredBehind ==
  \A o \in covered :
    /\ Sent(o)
    /\ Create(o) \notin orphans
    /\ \A i \in DOMAIN wire : wire[i] = Entry(Create(o)) =>
         \E k \in DOMAIN wire : i < k /\ wire[k] = Entry(CancelAll(o))

TruthInv ==
  /\ TypeOK
  /\ SentOnce
  /\ SymbolsKnown
  /\ AnswersTellTheTruth
  /\ ResponsesTellTheTruth

CoverInv == CoveredBehind /\ CancelAllCovers

IInv == TruthInv /\ CoverInv

-----------------------------------------------------------------------------
(* Requests and the wire *)

LEMMA RequestsDiffer ==
  /\ \A o, p \in Orders : Create(o) = Create(p) => o = p
  /\ \A o, p \in Orders : Cancel(o) = Cancel(p) => o = p
  /\ \A o, p \in Orders : CancelAll(o) = CancelAll(p) => o = p
  /\ \A o, p \in Orders :
       /\ Create(o) # Cancel(p)
       /\ Create(o) # CancelAll(p)
       /\ Cancel(o) # CancelAll(p)
BY DEF Create, Cancel, CancelAll

LEMMA RequestTypes ==
  \A o \in Orders :
    /\ Create(o) \in Requests /\ Create(o).type = "CREATE_ORDER" /\ Create(o).target = o
    /\ Cancel(o) \in Requests /\ Cancel(o).type = "CANCEL_ORDER" /\ Cancel(o).target = o
    /\ CancelAll(o) \in Requests /\ CancelAll(o).type = "CANCEL_ALL" /\ CancelAll(o).target = o
BY DEF Create, Cancel, CancelAll, Requests

LEMMA RequestKinds ==
  \A r \in Requests :
    /\ r.target \in Orders
    /\ \/ r.type = "CREATE_ORDER" /\ r = Create(r.target)
       \/ r.type = "CANCEL_ORDER" /\ r = Cancel(r.target)
       \/ r.type = "CANCEL_ALL" /\ r = CancelAll(r.target)
BY DEF Create, Cancel, CancelAll, Requests

LEMMA Entries ==
  /\ \A r \in Requests : Entry(r) \in Item /\ Entry(r).request = r /\ Entry(r).result = "NONE"
  /\ \A e \in Item, r \in Requests : e = Entry(r) <=> e.request = r /\ e.result = "NONE"
BY DEF Entry, Item, Results

LEMMA WireType ==
  ASSUME TypeOK
  PROVE  /\ wire \in Seq(Item)
         /\ Len(wire) \in Nat
         /\ DOMAIN wire = 1 .. Len(wire)
         /\ \A i \in DOMAIN wire : wire[i] \in Item
         /\ \A i \in DOMAIN wire : wire[i].request \in Requests
         /\ \A i \in DOMAIN wire : wire[i].result \in Results \cup {"NONE"}
         /\ Pending \subseteq Requests
<1>1. wire \in Seq(Item)
  BY DEF TypeOK, Item
<1>2. /\ Len(wire) \in Nat
      /\ DOMAIN wire = 1 .. Len(wire)
      /\ \A i \in DOMAIN wire : wire[i] \in Item
  BY <1>1, LenProperties, ElementOfSeq
<1>3. \A e \in Item : e.request \in Requests /\ e.result \in Results \cup {"NONE"}
  BY DEF Item
<1> QED
  BY <1>1, <1>2, <1>3 DEF Pending

\* Requests are added behind the others.
Added(more) ==
  /\ wire' \in Seq(Item)
  /\ DOMAIN wire \subseteq DOMAIN wire'
  /\ \A i \in DOMAIN wire : wire'[i] = wire[i]
  /\ \A i \in DOMAIN wire' \ DOMAIN wire : \E r \in more : wire'[i] = Entry(r)
  /\ \A i \in DOMAIN wire' \ DOMAIN wire, j \in DOMAIN wire : j < i
  /\ \A r \in more : \E i \in DOMAIN wire' \ DOMAIN wire : wire'[i] = Entry(r)

LEMMA SendAdds ==
  ASSUME TypeOK, NEW r \in Requests, Send(r)
  PROVE  Added({r}) /\ \A i, j \in DOMAIN wire' \ DOMAIN wire : i = j
<1>1. Entry(r) \in Item
  BY Entries
<1>2. wire \in Seq(Item) /\ Len(wire) \in Nat /\ DOMAIN wire = 1 .. Len(wire)
  BY WireType
<1>3. /\ wire' \in Seq(Item)
      /\ Len(wire') = Len(wire) + 1
      /\ \A i \in 1 .. Len(wire) : wire'[i] = wire[i]
      /\ wire'[Len(wire) + 1] = Entry(r)
  BY <1>1, <1>2, AppendProperties DEF Send
<1>4. DOMAIN wire' = 1 .. Len(wire')
  BY <1>3, LenProperties
<1>5. DOMAIN wire' \ DOMAIN wire = {Len(wire) + 1}
  BY <1>2, <1>3, <1>4
<1> QED
  BY <1>2, <1>3, <1>4, <1>5 DEF Added

LEMMA PendingAdded ==
  ASSUME TypeOK, NEW more \in SUBSET Requests, Added(more)
  PROVE  Pending' = Pending \cup more
<1>1. \A r \in more : Entry(r).request = r
  BY Entries
<1> QED
  BY <1>1 DEF Added, Pending

\* A cancel-all is one request for each symbol and margin mode.
LEMMA BatchReaches ==
  ASSUME portfolio \in BOOLEAN,
         NEW symbols, symbols \subseteq Symbols, IsFiniteSet(symbols),
         NEW batch \in Batches(symbols)
  PROVE  LET all == {CancelAll(o) : o \in {x \in Orders : x.symbol \in symbols /\ x.mode \in ModeSet}}
         IN  /\ batch \in Seq(Item)
             /\ \A i \in DOMAIN batch : \E r \in all : batch[i] = Entry(r)
             /\ \A r \in all : \E i \in DOMAIN batch : batch[i] = Entry(r)
<1> DEFINE n == Cardinality(symbols)
           m == Len(ModesInOrder)
           all == {CancelAll(o) : o \in {x \in Orders : x.symbol \in symbols /\ x.mode \in ModeSet}}
<1>1. n \in Nat
  BY FS_CardinalityType
<1>2. /\ m \in {1, 2}
      /\ \A i \in 1 .. m : ModesInOrder[i] \in ModeSet
      /\ \A mode \in ModeSet : \E i \in 1 .. m : ModesInOrder[i] = mode
      /\ ModeSet \subseteq MarginModes
  <2>1. CASE portfolio
    BY <2>1 DEF ModesInOrder, PortfolioModesInOrder, ModeSet, MarginModes
  <2>2. CASE ~ portfolio
    BY <2>2 DEF ModesInOrder, MarginModesInOrder, ModeSet, MarginModes
  <2> QED
    BY <2>1, <2>2
<1>3. PICK p \in [1 .. n -> symbols] :
        /\ \A i, j \in 1 .. n : p[i] = p[j] => i = j
        /\ batch = [i \in 1 .. (n * m) |->
                      Entry(CancelAll([symbol |-> p[((i - 1) \div m) + 1],
                                       mode |-> ModesInOrder[((i - 1) % m) + 1]]))]
  BY DEF Batches
<1> HIDE DEF n, m
<1>4. \A s \in symbols : \E i \in 1 .. n : p[i] = s
  <2>1. p \in Injection(1 .. n, symbols)
    BY <1>3 DEF Injection, IsInjective
  <2>2. Cardinality(1 .. n) = Cardinality(symbols)
    BY <1>1, FS_Interval DEF n
  <2>3. p \in Surjection(1 .. n, symbols)
    BY <2>1, <2>2, FS_Injection
  <2> QED
    BY <2>3 DEF Surjection
<1>5. \A i \in 1 .. (n * m) :
        /\ ((i - 1) \div m) + 1 \in 1 .. n
        /\ ((i - 1) % m) + 1 \in 1 .. m
  <2>1. CASE m = 1
    BY <1>1, <2>1
  <2>2. CASE m = 2
    BY <1>1, <2>2
  <2> QED
    BY <1>2, <2>1, <2>2
<1>6. \A a \in 1 .. n, b \in 1 .. m : \E i \in 1 .. (n * m) :
        ((i - 1) \div m) + 1 = a /\ ((i - 1) % m) + 1 = b
  <2>1. CASE m = 1
    BY <1>1, <2>1
  <2>2. ASSUME m = 2, NEW a \in 1 .. n, NEW b \in 1 .. m
        PROVE  \E i \in 1 .. (n * m) :
                 ((i - 1) \div m) + 1 = a /\ ((i - 1) % m) + 1 = b
    <3> DEFINE k == 2 * (a - 1) + b
    <3>1. k \in 1 .. (n * m) /\ ((k - 1) \div m) + 1 = a /\ ((k - 1) % m) + 1 = b
      BY <1>1, <2>2
    <3> QED
      BY <3>1
  <2> QED
    BY <1>2, <2>1, <2>2
<1>7. \A s \in symbols, mode \in ModeSet :
        [symbol |-> s, mode |-> mode] \in {x \in Orders : x.symbol \in symbols /\ x.mode \in ModeSet}
  BY <1>2 DEF Orders
<1>8. \A i \in 1 .. (n * m) : \E r \in all : batch[i] = Entry(r)
  <2> SUFFICES ASSUME NEW i \in 1 .. (n * m)
               PROVE  \E r \in all : batch[i] = Entry(r)
    OBVIOUS
  <2> DEFINE s == p[((i - 1) \div m) + 1]
             mode == ModesInOrder[((i - 1) % m) + 1]
  <2>1. s \in symbols /\ mode \in ModeSet
    BY <1>2, <1>3, <1>5
  <2>2. batch[i] = Entry(CancelAll([symbol |-> s, mode |-> mode]))
    BY <1>3
  <2> HIDE DEF s, mode
  <2> QED
    BY <1>7, <2>1, <2>2
<1>9. \A r \in all : r \in Requests /\ Entry(r) \in Item
  BY RequestTypes, Entries
<1>10. batch \in Seq(Item) /\ DOMAIN batch = 1 .. (n * m)
  <2>1. n * m \in Nat
    BY <1>1, <1>2
  <2>2. DOMAIN batch = 1 .. (n * m)
    BY <1>3
  <2>3. batch \in [1 .. (n * m) -> Item]
    BY <1>3, <1>8, <1>9
  <2> QED
    BY <2>1, <2>2, <2>3, SeqDef
<1>11. ASSUME NEW r \in all
       PROVE  \E i \in DOMAIN batch : batch[i] = Entry(r)
  <2>1. PICK o \in Orders : o.symbol \in symbols /\ o.mode \in ModeSet /\ r = CancelAll(o)
    BY <1>11
  <2>2. PICK a \in 1 .. n : p[a] = o.symbol
    BY <1>4, <2>1
  <2>3. PICK b \in 1 .. m : ModesInOrder[b] = o.mode
    BY <1>2, <2>1
  <2>4. PICK i \in 1 .. (n * m) : ((i - 1) \div m) + 1 = a /\ ((i - 1) % m) + 1 = b
    BY <1>6, <2>2, <2>3
  <2>5. o = [symbol |-> o.symbol, mode |-> o.mode]
    BY DEF Orders
  <2> QED
    BY <1>3, <1>10, <2>1, <2>2, <2>3, <2>4, <2>5
<1> QED
  BY <1>8, <1>10, <1>11

LEMMA CancelAllOrdersAdds ==
  ASSUME TypeOK, SymbolsKnown, NEW symbols \in SUBSET Symbols, CancelAllOrders(symbols)
  PROVE  Added({CancelAll(o) : o \in
                 {x \in Orders : x.symbol \in open_orders_symbols \cap symbols /\ x.mode \in ModeSet}})
<1> DEFINE known == open_orders_symbols \cap symbols
           all == {CancelAll(o) : o \in {x \in Orders : x.symbol \in known /\ x.mode \in ModeSet}}
<1>1. known \subseteq Symbols /\ IsFiniteSet(known)
  <2>1. known \in SUBSET open_orders_symbols
    OBVIOUS
  <2>2. IsFiniteSet(open_orders_symbols)
    BY DEF SymbolsKnown
  <2> HIDE DEF known
  <2>3. IsFiniteSet(known)
    BY <2>1, <2>2, FS_Subset
  <2> QED
    BY <2>3 DEF known
<1>2. portfolio \in BOOLEAN
  BY DEF TypeOK
<1>3. PICK batch \in Batches(known) : wire' = wire \o batch
  BY DEF CancelAllOrders
<1> HIDE DEF known
<1>4. /\ batch \in Seq(Item)
      /\ \A i \in DOMAIN batch : \E r \in all : batch[i] = Entry(r)
      /\ \A r \in all : \E i \in DOMAIN batch : batch[i] = Entry(r)
  BY <1>1, <1>2, <1>3, BatchReaches
<1>5. wire \in Seq(Item) /\ Len(wire) \in Nat /\ DOMAIN wire = 1 .. Len(wire)
  BY WireType
<1>6. Len(batch) \in Nat /\ DOMAIN batch = 1 .. Len(batch)
  BY <1>4, LenProperties
<1>7. /\ wire' \in Seq(Item)
      /\ Len(wire') = Len(wire) + Len(batch)
      /\ \A i \in 1 .. Len(wire) + Len(batch) :
           wire'[i] = IF i <= Len(wire) THEN wire[i] ELSE batch[i - Len(wire)]
  BY <1>3, <1>4, <1>5, ConcatProperties
<1>8. DOMAIN wire' = 1 .. Len(wire) + Len(batch)
  BY <1>7, LenProperties
<1> HIDE DEF all
<1>9. \A r \in all : \E i \in DOMAIN wire' \ DOMAIN wire : wire'[i] = Entry(r)
  <2> SUFFICES ASSUME NEW r \in all
               PROVE  \E i \in DOMAIN wire' \ DOMAIN wire : wire'[i] = Entry(r)
    OBVIOUS
  <2>1. PICK k \in DOMAIN batch : batch[k] = Entry(r)
    BY <1>4
  <2>2. /\ Len(wire) + k \in DOMAIN wire' \ DOMAIN wire
        /\ wire'[Len(wire) + k] = batch[k]
    BY <1>5, <1>6, <1>7, <1>8
  <2> QED
    BY <2>1, <2>2
<1>10. \A i \in DOMAIN wire' \ DOMAIN wire : \E r \in all : wire'[i] = Entry(r)
  <2> SUFFICES ASSUME NEW i \in DOMAIN wire' \ DOMAIN wire
               PROVE  \E r \in all : wire'[i] = Entry(r)
    OBVIOUS
  <2>1. i - Len(wire) \in DOMAIN batch /\ wire'[i] = batch[i - Len(wire)]
    BY <1>5, <1>6, <1>7, <1>8
  <2> QED
    BY <1>4, <2>1
<1>11. /\ DOMAIN wire \subseteq DOMAIN wire'
       /\ \A i \in DOMAIN wire : wire'[i] = wire[i]
       /\ \A i \in DOMAIN wire' \ DOMAIN wire, j \in DOMAIN wire : j < i
  BY <1>5, <1>6, <1>7, <1>8
<1>12. Added(all)
  BY <1>7, <1>9, <1>10, <1>11 DEF Added
<1> QED
  BY <1>12 DEF all, known

-----------------------------------------------------------------------------
(* Responses and the exchange *)

\* What a response can be made of: a redirection ends the process.
Answers == (Results \ {"REDIRECTION"}) \cup {"NETWORK"}

LEMMA ResponseTypes ==
  \A r \in Requests, result \in Answers : ResponseTo(r, result) \in Responses
BY DEF ResponseTo, OrderResponse, CancelAllResponse, ProcessResponse, Response, Responses,
       Results, Answers

LEMMA ResponseMeaning ==
  \A o \in Orders, result \in Answers :
    /\ ResponseTo(Create(o), result).status = "ACCEPTED" => result = "SUCCESS"
    /\ (/\ ResponseTo(Create(o), result).status = "REJECTED"
        /\ ResponseTo(Create(o), result).error # "UNKNOWN") => result \in Refusals
    /\ ResponseTo(Create(o), "NETWORK").status = "DISCONNECTED"
    /\ ResponseTo(Cancel(o), result).status = "ACCEPTED" => result = "SUCCESS"
<1>1. \A o \in Orders : \A result :
        /\ ResponseTo(Create(o), result) = ProcessResponse(result)
        /\ ResponseTo(Cancel(o), result) = ProcessResponse(result)
  BY RequestTypes DEF ResponseTo, OrderResponse
<1>2. \A result \in Answers :
        /\ ProcessResponse(result).status = "ACCEPTED" => result = "SUCCESS"
        /\ (/\ ProcessResponse(result).status = "REJECTED"
            /\ ProcessResponse(result).error # "UNKNOWN") => result \in Refusals
        /\ ProcessResponse("NETWORK").status = "DISCONNECTED"
  BY DEF ProcessResponse, Response, Results, Answers, Refusals
<1> QED
  BY <1>1, <1>2

\* An order that was executed once is never NONE again, one that is gone stays so.
LEMMA ExecutedMeaning ==
  ASSUME TypeOK, NEW r \in Requests
  PROVE  /\ Executed(r) \in [Orders -> {"NONE", "WORKING", "DONE"}]
         /\ \A o \in Orders : orders[o] # "NONE" => Executed(r)[o] # "NONE"
         /\ \A o \in Orders : orders[o] = "DONE" => Executed(r)[o] = "DONE"
         /\ \A o \in Orders : Executed(r)[o] # "NONE" => orders[o] # "NONE" \/ r = Create(o)
         /\ \A o \in Orders : Executed(r)[o] = "WORKING" => orders[o] = "WORKING" \/ r = Create(o)
         /\ \A o \in Orders : r = Create(o) => Executed(r)[o] # "NONE"
         /\ \A o \in Orders : r = CancelAll(o) => Executed(r)[o] # "WORKING"
         /\ \A o \in Orders : r = Cancel(o) /\ Affected(r) # {} => Executed(r)[o] = "DONE"
<1>1. orders \in [Orders -> {"NONE", "WORKING", "DONE"}]
  BY DEF TypeOK
<1>2. r.target \in Orders
  BY RequestKinds
<1>3. CASE r.type = "CREATE_ORDER"
  <2>1. r = Create(r.target)
    BY <1>3, RequestKinds
  <2>2. Affected(r) = {o \in {r.target} : orders[o] = "NONE"}
    BY <1>3 DEF Affected
  <2>3. Executed(r) = [o \in Orders |-> IF o = r.target /\ orders[o] = "NONE" THEN "WORKING" ELSE orders[o]]
    BY <1>3, <2>2 DEF Executed
  <2>4. \A o \in Orders : r # Cancel(o) /\ r # CancelAll(o) /\ (r = Create(o) => o = r.target)
    BY <1>2, <2>1, RequestsDiffer
  <2> QED
    BY <1>1, <1>2, <2>1, <2>3, <2>4
<1>4. CASE r.type # "CREATE_ORDER"
  <2>1. Affected(r) = {o \in {r.target} : orders[o] = "WORKING"}
    BY <1>4 DEF Affected
  <2>2. Executed(r) = [o \in Orders |-> IF o = r.target /\ orders[o] = "WORKING" THEN "DONE" ELSE orders[o]]
    BY <1>4, <2>1 DEF Executed
  <2>3. \A o \in Orders : r # Create(o) /\ (r = Cancel(o) => o = r.target) /\ (r = CancelAll(o) => o = r.target)
    BY <1>4, RequestTypes
  <2> QED
    BY <1>1, <1>2, <2>1, <2>2, <2>3
<1> QED
  BY <1>3, <1>4

-----------------------------------------------------------------------------
(* Steps that add requests, or none *)

SameResponses ==
  \A o \in Orders : \A r \in {Create(o), Cancel(o)} :
    /\ r \in DOMAIN responses' <=> r \in DOMAIN responses
    /\ r \in DOMAIN responses => responses'[r] = responses[r]

LEMMA AddedTruth ==
  ASSUME TruthInv, NEW more \in SUBSET Requests, Added(more), SameResponses,
         \A i, j \in DOMAIN wire' \ DOMAIN wire : \A o \in Orders :
           wire'[i].request = Create(o) /\ wire'[j].request = Create(o) => i = j,
         \A o \in Orders : Create(o) \in more => Fresh(Create(o)),
         UNCHANGED <<orders, orphans>>
  PROVE  SentOnce' /\ AnswersTellTheTruth' /\ ResponsesTellTheTruth'
<1>1. Pending' = Pending \cup more
  BY PendingAdded DEF TruthInv
<1>2. \A r \in more : Entry(r).request = r /\ Entry(r).result = "NONE"
  BY Entries
<1>3. \A i \in DOMAIN wire' \ DOMAIN wire : wire'[i].request \in more /\ wire'[i].result = "NONE"
  BY <1>2 DEF Added
<1>4. \A i \in DOMAIN wire : i \in DOMAIN wire' /\ wire'[i] = wire[i] /\ wire[i].request \in Pending
  BY DEF Added, Pending
<1>5. \A o \in Orders : Create(o) \in more =>
        Create(o) \notin Pending /\ Create(o) \notin DOMAIN responses
  BY DEF Fresh, OnWire
<1>6. SentOnce'
  <2>1. \A i, j \in DOMAIN wire' : \A o \in Orders :
          wire'[i].request = Create(o) /\ wire'[j].request = Create(o) => i = j
    BY <1>3, <1>4, <1>5 DEF TruthInv, SentOnce
  <2>2. \A o \in Orders : Create(o) \in DOMAIN responses' => Create(o) \notin Pending'
    BY <1>1, <1>5 DEF SameResponses, TruthInv, SentOnce, OnWire
  <2>3. \A o \in Orders : Create(o) \in orphans' =>
          Create(o) \in DOMAIN responses' /\ responses'[Create(o)].status \in Unanswered
    BY DEF SameResponses, TruthInv, SentOnce
  <2> QED
    BY <2>1, <2>2, <2>3 DEF SentOnce, OnWire
<1>7. AnswersTellTheTruth'
  <2>1. \A o \in Orders : Create(o) \in more => orders[o] = "NONE"
    BY <1>5 DEF TruthInv, SymbolsKnown, Sent, OnWire
  <2>2. ASSUME NEW i \in DOMAIN wire', NEW o \in Orders
        PROVE  /\ wire'[i].request = Create(o) =>
                    /\ wire'[i].result = "SUCCESS" => orders[o] # "NONE"
                    /\ wire'[i].result \in Refusals \cup {"NONE"} => orders[o] = "NONE"
               /\ wire'[i].request = Cancel(o) /\ wire'[i].result = "SUCCESS" => orders[o] = "DONE"
    <3>1. CASE i \in DOMAIN wire
      BY <1>4, <3>1 DEF TruthInv, AnswersTellTheTruth
    <3>2. CASE i \notin DOMAIN wire
      BY <1>3, <2>1, <3>2
    <3> QED
      BY <3>1, <3>2
  <2> QED
    BY <2>2 DEF AnswersTellTheTruth
<1>8. ResponsesTellTheTruth'
  BY DEF SameResponses, TruthInv, ResponsesTellTheTruth
<1> QED
  BY <1>6, <1>7, <1>8

LEMMA AddedSymbols ==
  ASSUME TruthInv, NEW more \in SUBSET Requests, Added(more), SameResponses,
         \A o \in Orders : Create(o) \in more => o.symbol \in open_orders_symbols' /\ o.mode \in ModeSet,
         open_orders_symbols \subseteq open_orders_symbols', IsFiniteSet(open_orders_symbols'),
         UNCHANGED <<portfolio, orders>>
  PROVE  SymbolsKnown'
<1>1. Pending' = Pending \cup more
  BY PendingAdded DEF TruthInv
<1>2. ModeSet' = ModeSet
  BY DEF ModeSet
<1>3. \A o \in Orders : Sent(o)' <=> Sent(o) \/ Create(o) \in more
  BY <1>1 DEF SameResponses, Sent, OnWire
<1> QED
  BY <1>2, <1>3 DEF TruthInv, SymbolsKnown

LEMMA AddedCovers ==
  ASSUME IInv, NEW more \in SUBSET Requests, Added(more), SameResponses,
         \A o \in Orders : Create(o) \in more => Fresh(Create(o)),
         covered' \subseteq Orders,
         \A o \in covered' \ covered : Sent(o) /\ Create(o) \notin orphans /\ CancelAll(o) \in more,
         UNCHANGED <<orders, orphans>>
  PROVE  CoverInv'
<1>1. Pending' = Pending \cup more
  BY PendingAdded DEF IInv, TruthInv
<1>2. \A i \in DOMAIN wire : i \in DOMAIN wire' /\ wire'[i] = wire[i]
  BY DEF Added
<1>3. \A o \in Orders : Sent(o) => Sent(o)' /\ Create(o) \notin more
  BY <1>1 DEF SameResponses, Sent, OnWire, Fresh
<1>4. \A i \in DOMAIN wire' \ DOMAIN wire : \A o \in Orders : Sent(o) => wire'[i] # Entry(Create(o))
  <2> SUFFICES ASSUME NEW i \in DOMAIN wire' \ DOMAIN wire, NEW o \in Orders, Sent(o),
                      wire'[i] = Entry(Create(o))
               PROVE  FALSE
    OBVIOUS
  <2>1. PICK r \in more : wire'[i] = Entry(r)
    BY DEF Added
  <2>2. Entry(r).request = r /\ Entry(Create(o)).request = Create(o)
    BY RequestTypes, Entries
  <2>3. r = Create(o)
    BY <2>1, <2>2
  <2> QED
    BY <1>3, <2>3
<1>5. ASSUME NEW o \in covered'
      PROVE  /\ Sent(o)' /\ Create(o) \notin orphans'
             /\ \A i \in DOMAIN wire' : wire'[i] = Entry(Create(o)) =>
                  \E k \in DOMAIN wire' : i < k /\ wire'[k] = Entry(CancelAll(o))
             /\ orders'[o] = "WORKING" => \E i \in DOMAIN wire' : wire'[i] = Entry(CancelAll(o))
  <2>1. CASE o \in covered
    BY <1>2, <1>3, <1>4, <2>1 DEF IInv, CoverInv, CoveredBehind, CancelAllCovers
  <2>2. CASE o \notin covered
    <3>1. Sent(o) /\ Create(o) \notin orphans /\ CancelAll(o) \in more /\ o \in Orders
      BY <2>2
    <3>2. PICK k \in DOMAIN wire' \ DOMAIN wire : wire'[k] = Entry(CancelAll(o))
      BY <3>1 DEF Added
    <3>3. \A i \in DOMAIN wire' : wire'[i] = Entry(Create(o)) => i < k
      BY <1>4, <3>1 DEF Added
    <3> QED
      BY <1>3, <3>1, <3>2, <3>3
  <2> QED
    BY <2>1, <2>2
<1> QED
  BY <1>5 DEF CoverInv, CoveredBehind, CancelAllCovers

-----------------------------------------------------------------------------
(* The initial state, the client, and steps that touch neither wire nor      *)
(* responses                                                                 *)

LEMMA InitInv == Init => IInv
<1> SUFFICES ASSUME Init
             PROVE  IInv
  OBVIOUS
<1>1. wire \in Seq(Item) /\ DOMAIN wire = {}
  BY EmptySeq, LenProperties DEF Init
<1>2. TypeOK
  BY <1>1 DEF Init, TypeOK, Item
<1>3. Pending = {} /\ DOMAIN responses = {}
  BY <1>1 DEF Init, Pending
<1>4. IsFiniteSet(open_orders_symbols)
  BY FS_EmptySet DEF Init
<1>5. \A o \in Orders : orders[o] = "NONE" /\ Create(o) \notin orphans /\ o \notin covered
  BY DEF Init
<1>6. \A o \in Orders : ~ Sent(o)
  BY <1>3 DEF Sent, OnWire
<1>7. SentOnce /\ AnswersTellTheTruth
  BY <1>1, <1>3, <1>5 DEF SentOnce, AnswersTellTheTruth
<1>8. SymbolsKnown
  BY <1>4, <1>5, <1>6 DEF SymbolsKnown
<1>9. covered = {}
  BY DEF Init
<1>10. CoverInv
  BY <1>9 DEF CoverInv, CoveredBehind, CancelAllCovers
<1>11. \A o \in Orders : Create(o) \notin DOMAIN responses /\ Cancel(o) \notin DOMAIN responses
  BY <1>3
<1>12. ResponsesTellTheTruth
  BY <1>11 DEF ResponsesTellTheTruth
<1> QED
  BY <1>2, <1>7, <1>8, <1>10, <1>12 DEF IInv, TruthInv

LEMMA NothingAdded ==
  ASSUME TypeOK, UNCHANGED wire
  PROVE  Added({})
BY WireType DEF Added

\* The part of TypeOK about these steps that is not a Boolean.
LEMMA AddedTypes ==
  ASSUME TypeOK, NEW more, Added(more),
         portfolio' \in BOOLEAN, alive' \in BOOLEAN,
         ready' \in BOOLEAN, suspended' \in BOOLEAN, faults' \in Nat,
         open_orders_symbols' \subseteq Symbols,
         DOMAIN responses' \subseteq DOMAIN responses,
         \A r \in DOMAIN responses' : responses'[r] = responses[r],
         covered' \subseteq Orders, cancel_alls' \in Nat,
         UNCHANGED exchange
  PROVE  TypeOK'
<1>1. wire' \in Seq(Item)
  BY DEF Added
<1> QED
  BY <1>1 DEF TypeOK, Item, exchange

LEMMA NewOrderInv ==
  ASSUME IInv, NEW o \in Orders, NewOrder(o), o.mode \in ModeSet
  PROVE  IInv'
<1>1. /\ Fresh(Create(o))
      /\ open_orders_symbols' = open_orders_symbols \cup {o.symbol}
      /\ Send(Create(o)) \/ UNCHANGED wire
      /\ UNCHANGED <<portfolio, alive, ready, suspended, responses, covered, orders, orphans,
                     cancel_alls, faults>>
  BY DEF NewOrder, client, exchange, bounds
<1>2. TypeOK /\ TruthInv /\ SymbolsKnown
  BY DEF IInv, TruthInv
<1>3. PICK more \in SUBSET {Create(o)} :
        Added(more) /\ \A i, j \in DOMAIN wire' \ DOMAIN wire : i = j
  <2>1. CASE Send(Create(o))
    BY <1>2, <2>1, SendAdds, RequestTypes
  <2>2. CASE UNCHANGED wire
    BY <1>2, <2>2, NothingAdded
  <2> QED
    BY <1>1, <2>1, <2>2
<1>4. more \in SUBSET Requests
  BY RequestTypes
<1>5. SameResponses
  BY <1>1 DEF SameResponses
<1>6. \A p \in Orders : Create(p) \in more => p = o
  BY RequestsDiffer
<1>7. open_orders_symbols' \subseteq Symbols /\ IsFiniteSet(open_orders_symbols')
  <2>1. o.symbol \in Symbols
    BY DEF Orders
  <2>2. IsFiniteSet(open_orders_symbols) /\ open_orders_symbols \subseteq Symbols
    BY <1>2 DEF SymbolsKnown, TypeOK
  <2>3. IsFiniteSet(open_orders_symbols \cup {o.symbol})
    BY <2>2, FS_AddElement
  <2> QED
    BY <1>1, <2>1, <2>2, <2>3
<1>8. TypeOK'
  <2>1. /\ portfolio \in BOOLEAN /\ alive \in BOOLEAN
        /\ ready \in BOOLEAN /\ suspended \in BOOLEAN
        /\ covered \subseteq Orders /\ cancel_alls \in Nat /\ faults \in Nat
    BY <1>2 DEF TypeOK
  <2> QED
    BY <1>1, <1>2, <1>3, <1>7, <2>1, AddedTypes DEF exchange
<1>9. SentOnce' /\ AnswersTellTheTruth' /\ ResponsesTellTheTruth'
  BY <1>1, <1>2, <1>3, <1>4, <1>5, <1>6, AddedTruth
<1>10. SymbolsKnown'
  BY <1>1, <1>2, <1>3, <1>4, <1>5, <1>6, <1>7, AddedSymbols
<1>11. CoverInv'
  <2>1. covered' = covered /\ covered \subseteq Orders
    BY <1>1, <1>2 DEF TypeOK
  <2> QED
    BY <1>1, <1>3, <1>4, <1>5, <1>6, <2>1, AddedCovers
<1> QED
  BY <1>8, <1>9, <1>10, <1>11 DEF IInv, TruthInv

\* A step that sends at most the cancellation of one order.
LEMMA CancelOrQuietInv ==
  ASSUME IInv, NEW o \in Orders, Send(Cancel(o)) \/ UNCHANGED wire,
         portfolio' = portfolio, alive' \in BOOLEAN, ready' \in BOOLEAN,
         suspended' \in BOOLEAN, faults' \in Nat,
         UNCHANGED <<open_orders_symbols, responses, covered, orders, orphans,
                     cancel_alls>>
  PROVE  IInv'
<1>1. TypeOK /\ TruthInv /\ SymbolsKnown
  BY DEF IInv, TruthInv
<1>2. PICK more \in SUBSET {Cancel(o)} : Added(more)
  <2>1. CASE Send(Cancel(o))
    BY <1>1, <2>1, SendAdds, RequestTypes
  <2>2. CASE UNCHANGED wire
    BY <1>1, <2>2, NothingAdded
  <2> QED
    BY <2>1, <2>2
<1>3. more \in SUBSET Requests
  BY RequestTypes
<1>4. SameResponses
  BY DEF SameResponses
<1>5. \A p \in Orders : Create(p) \notin more
  BY RequestsDiffer
<1>6. \A i \in DOMAIN wire' \ DOMAIN wire : wire'[i].request \in more
  <2>1. \A r \in more : Entry(r).request = r
    BY <1>3, Entries
  <2> QED
    BY <1>2, <2>1 DEF Added
<1>7. TypeOK'
  <2>1. /\ portfolio \in BOOLEAN /\ covered \subseteq Orders /\ cancel_alls \in Nat
        /\ open_orders_symbols \subseteq Symbols
    BY <1>1 DEF TypeOK
  <2> QED
    BY <1>1, <1>2, <2>1, AddedTypes DEF exchange
<1>8. SentOnce' /\ AnswersTellTheTruth' /\ ResponsesTellTheTruth'
  BY <1>1, <1>2, <1>3, <1>4, <1>5, <1>6, AddedTruth
<1>9. SymbolsKnown'
  <2>1. IsFiniteSet(open_orders_symbols)
    BY <1>1 DEF SymbolsKnown
  <2> QED
    BY <1>1, <1>2, <1>3, <1>4, <1>5, <2>1, AddedSymbols
<1>10. CoverInv'
  <2>1. covered \subseteq Orders
    BY <1>1 DEF TypeOK
  <2> QED
    BY <1>2, <1>3, <1>4, <1>5, <2>1, AddedCovers
<1> QED
  BY <1>7, <1>8, <1>9, <1>10 DEF IInv, TruthInv

LEMMA CancelAllOrdersInv ==
  ASSUME IInv, NEW symbols \in SUBSET Symbols, CancelAllOrders(symbols)
  PROVE  IInv'
<1> DEFINE reached == {x \in Orders : x.symbol \in open_orders_symbols \cap symbols /\ x.mode \in ModeSet}
           more == {CancelAll(o) : o \in reached}
<1>1. /\ responses' = [r \in {x \in DOMAIN responses : x.type # "CANCEL_ALL"} |-> responses[r]]
      /\ covered' = covered \cup Known(symbols)
      /\ cancel_alls' = cancel_alls + 1
      /\ UNCHANGED <<portfolio, alive, ready, suspended, open_orders_symbols, orders, orphans,
                     faults>>
  BY DEF CancelAllOrders, exchange
<1>2. TypeOK /\ TruthInv /\ SymbolsKnown
  BY DEF IInv, TruthInv
<1>3. Added(more)
  BY <1>2, CancelAllOrdersAdds
<1>4. Known(symbols) \subseteq reached
  BY <1>2 DEF Known, SymbolsKnown
<1> HIDE DEF reached
<1>5. reached \subseteq Orders
  BY DEF reached
<1>6. more \in SUBSET Requests
  BY <1>5, RequestTypes
<1>7. \A p \in Orders : Create(p) \notin more
  BY <1>5, RequestsDiffer
<1>8. SameResponses
  <2>1. \A o \in Orders : Create(o).type # "CANCEL_ALL" /\ Cancel(o).type # "CANCEL_ALL"
    BY RequestTypes
  <2> QED
    BY <1>1, <2>1 DEF SameResponses
<1> HIDE DEF more
<1>9. \A i \in DOMAIN wire' \ DOMAIN wire : wire'[i].request \in more
  <2>1. \A r \in more : Entry(r).request = r
    BY <1>6, Entries
  <2> QED
    BY <1>3, <2>1 DEF Added
<1>10. covered' \subseteq Orders
  BY <1>1, <1>2, <1>4, <1>5 DEF TypeOK
<1>11. TypeOK'
  <2>1. /\ portfolio' \in BOOLEAN /\ alive' \in BOOLEAN
        /\ ready' \in BOOLEAN /\ suspended' \in BOOLEAN
        /\ open_orders_symbols' \subseteq Symbols /\ faults' \in Nat
    BY <1>1, <1>2 DEF TypeOK
  <2>2. cancel_alls' \in Nat
    BY <1>1, <1>2 DEF TypeOK
  <2>3. /\ DOMAIN responses' \subseteq DOMAIN responses
        /\ \A r \in DOMAIN responses' : responses'[r] = responses[r]
    BY <1>1
  <2>4. UNCHANGED exchange
    BY <1>1 DEF exchange
  <2> QED
    BY <1>2, <1>3, <1>10, <2>1, <2>2, <2>3, <2>4, AddedTypes
<1>12. SentOnce' /\ AnswersTellTheTruth' /\ ResponsesTellTheTruth'
  BY <1>1, <1>2, <1>3, <1>6, <1>7, <1>8, <1>9, AddedTruth
<1>13. SymbolsKnown'
  <2>1. IsFiniteSet(open_orders_symbols)
    BY <1>2 DEF SymbolsKnown
  <2> QED
    BY <1>1, <1>2, <1>3, <1>6, <1>7, <1>8, <2>1, AddedSymbols
<1>14. CoverInv'
  <2>1. \A o \in covered' \ covered : Sent(o) /\ Create(o) \notin orphans /\ CancelAll(o) \in more
    BY <1>1, <1>4 DEF Known, more
  <2> QED
    BY <1>1, <1>3, <1>6, <1>7, <1>8, <1>10, <2>1, AddedCovers
<1> QED
  BY <1>11, <1>12, <1>13, <1>14 DEF IInv, TruthInv

-----------------------------------------------------------------------------
(* The exchange *)

\* Orders after a request r that may have been executed.
LEMMA MaybeExecuted ==
  ASSUME TypeOK, NEW r \in Requests, orders' \in {orders, Executed(r)}
  PROVE  /\ orders' \in [Orders -> {"NONE", "WORKING", "DONE"}]
         /\ \A o \in Orders : orders[o] # "NONE" => orders'[o] # "NONE"
         /\ \A o \in Orders : orders[o] = "DONE" => orders'[o] = "DONE"
         /\ \A o \in Orders : orders'[o] # "NONE" => orders[o] # "NONE" \/ r = Create(o)
         /\ \A o \in Orders : orders'[o] = "WORKING" => orders[o] = "WORKING" \/ r = Create(o)
<1>1. CASE orders' = orders
  BY <1>1 DEF TypeOK
<1>2. CASE orders' = Executed(r)
  BY <1>2, ExecutedMeaning
<1> QED
  BY <1>1, <1>2

LEMMA ProcessInv ==
  ASSUME IInv, NEW i \in DOMAIN wire, NEW result \in Results, Process(i, result)
  PROVE  IInv'
<1> DEFINE r == wire[i].request
<1>1. PICK executed \in BOOLEAN :
        /\ result \in {"SUCCESS", "MALFORMED"} => executed
        /\ result \in Refusals => ~ executed
        /\ orders' = IF executed THEN Executed(r) ELSE orders
        /\ covered' = IF r.type = "CANCEL_ALL" /\ ~ executed THEN covered \ {r.target} ELSE covered
  <2>1. PICK executed \in CASE result \in {"SUCCESS", "MALFORMED"} -> {TRUE}
                              [] result \in {"SERVER_ERROR", "UNEXPECTED"} -> BOOLEAN
                              [] OTHER -> {FALSE} :
          /\ orders' = IF executed THEN Executed(r) ELSE orders
          /\ covered' = IF r.type = "CANCEL_ALL" /\ ~ executed THEN covered \ {r.target} ELSE covered
    BY DEF Process
  <2>2. /\ executed \in BOOLEAN
        /\ result \in {"SUCCESS", "MALFORMED"} => executed
        /\ result \in Refusals => ~ executed
    BY DEF Refusals
  <2> QED
    BY <2>1, <2>2
<1>2. /\ wire[i].result = "NONE"
      /\ \A j \in 1 .. (i - 1) : wire[j].result # "NONE"
      /\ r.type # "CANCEL_ALL" /\ result = "SUCCESS" => Affected(r) # {}
      /\ wire' = [wire EXCEPT ![i].result = result]
      /\ faults' \in {faults, faults + 1}
      /\ UNCHANGED <<portfolio, alive, ready, suspended, open_orders_symbols, responses,
                     orphans, cancel_alls>>
  BY DEF Process
<1>3. TypeOK
  BY DEF IInv, TruthInv
<1>4. /\ wire \in Seq(Item) /\ DOMAIN wire = 1 .. Len(wire) /\ Len(wire) \in Nat
      /\ \A j \in DOMAIN wire : wire[j] \in Item
      /\ r \in Requests
  BY <1>3, WireType
<1>5. /\ wire' \in Seq(Item)
      /\ DOMAIN wire' = DOMAIN wire
      /\ wire'[i].request = r /\ wire'[i].result = result
      /\ \A j \in DOMAIN wire : j # i => wire'[j] = wire[j]
      /\ \A j \in DOMAIN wire : wire'[j].request = wire[j].request
  <2> DEFINE e == [wire[i] EXCEPT !.result = result]
  <2>1. e \in Item /\ e.request = r /\ e.result = result
    BY <1>4 DEF Item
  <2>2. wire' = [wire EXCEPT ![i] = e]
    BY <1>2
  <2> HIDE DEF e
  <2>3. /\ wire' \in Seq(Item) /\ Len(wire') = Len(wire)
        /\ \A j \in 1 .. Len(wire) : wire'[j] = IF j = i THEN e ELSE wire[j]
    BY <1>4, <2>1, <2>2, ExceptSeq
  <2>4. DOMAIN wire' = 1 .. Len(wire')
    BY <2>3, LenProperties
  <2> QED
    BY <1>4, <2>1, <2>3, <2>4
<1> HIDE DEF r
<1>6. Pending' = Pending /\ r \in Pending
  BY <1>5 DEF Pending, r
<1>7. orders' \in {orders, Executed(r)}
  BY <1>1
<1>8. /\ orders' \in [Orders -> {"NONE", "WORKING", "DONE"}]
      /\ \A o \in Orders : orders[o] # "NONE" => orders'[o] # "NONE"
      /\ \A o \in Orders : orders[o] = "DONE" => orders'[o] = "DONE"
      /\ \A o \in Orders : orders'[o] # "NONE" => orders[o] # "NONE" \/ r = Create(o)
      /\ \A o \in Orders : orders'[o] = "WORKING" => orders[o] = "WORKING" \/ r = Create(o)
  BY <1>3, <1>4, <1>7, MaybeExecuted
<1>9. covered' \subseteq covered
  BY <1>1
<1>10. TypeOK'
  <2>1. faults' \in Nat
    BY <1>2, <1>3 DEF TypeOK
  <2> QED
    BY <1>2, <1>3, <1>5, <1>8, <1>9, <2>1 DEF TypeOK, Item
<1>11. SentOnce'
  <2>1. SentOnce
    BY DEF IInv, TruthInv
  <2>2. \A j, k \in DOMAIN wire' : \A o \in Orders :
          wire'[j].request = Create(o) /\ wire'[k].request = Create(o) => j = k
    BY <1>5, <2>1 DEF SentOnce
  <2> QED
    BY <1>2, <1>6, <2>1, <2>2 DEF SentOnce, OnWire
<1>12. SymbolsKnown'
  <2>1. SymbolsKnown
    BY DEF IInv, TruthInv
  <2>2. \A o \in Orders : Sent(o)' <=> Sent(o)
    BY <1>2, <1>6 DEF Sent, OnWire
  <2>3. ModeSet' = ModeSet
    BY <1>2 DEF ModeSet
  <2>4. \A o \in Orders : r = Create(o) => Sent(o)
    BY <1>6 DEF Sent, OnWire
  <2> QED
    BY <1>2, <1>8, <2>1, <2>2, <2>3, <2>4 DEF SymbolsKnown
<1>13. AnswersTellTheTruth'
  <2>1. AnswersTellTheTruth /\ SentOnce
    BY DEF IInv, TruthInv
  <2>2. ASSUME NEW j \in DOMAIN wire, NEW o \in Orders, j # i
        PROVE  /\ wire'[j].request = Create(o) =>
                    /\ wire'[j].result = "SUCCESS" => orders'[o] # "NONE"
                    /\ wire'[j].result \in Refusals \cup {"NONE"} => orders'[o] = "NONE"
               /\ wire'[j].request = Cancel(o) /\ wire'[j].result = "SUCCESS" => orders'[o] = "DONE"
    <3>1. wire'[j] = wire[j]
      BY <1>5, <2>2
    <3>2. wire[j].request = Create(o) => r # Create(o)
      BY <2>1, <2>2 DEF SentOnce, r
    <3> QED
      BY <1>8, <2>1, <3>1, <3>2 DEF AnswersTellTheTruth
  <2>3. ASSUME NEW o \in Orders
        PROVE  /\ r = Create(o) =>
                    /\ result = "SUCCESS" => orders'[o] # "NONE"
                    /\ result \in Refusals \cup {"NONE"} => orders'[o] = "NONE"
               /\ r = Cancel(o) /\ result = "SUCCESS" => orders'[o] = "DONE"
    <3>1. result # "NONE"
      BY DEF Results
    <3>2. r = Create(o) => orders[o] = "NONE"
      BY <1>2, <2>1 DEF AnswersTellTheTruth, r
    <3>3. result = "SUCCESS" => orders' = Executed(r)
      BY <1>1
    <3>4. result \in Refusals => orders' = orders
      BY <1>1
    <3>5. r = Create(o) => Executed(r)[o] # "NONE"
      BY <1>3, <1>4, ExecutedMeaning
    <3>6. r = Cancel(o) /\ result = "SUCCESS" => Executed(r)[o] = "DONE"
      <4>1. r = Cancel(o) => r.type # "CANCEL_ALL"
        BY RequestTypes
      <4> QED
        BY <1>2, <1>3, <1>4, <4>1, ExecutedMeaning
    <3> QED
      BY <3>1, <3>2, <3>3, <3>4, <3>5, <3>6
  <2> QED
    BY <1>5, <2>2, <2>3 DEF AnswersTellTheTruth
<1>14. ResponsesTellTheTruth'
  <2>1. \A o \in Orders : r = Create(o) => Create(o) \notin DOMAIN responses
    BY <1>6 DEF IInv, TruthInv, SentOnce, OnWire
  <2>2. ResponsesTellTheTruth
    BY DEF IInv, TruthInv
  <2> QED
    BY <1>2, <1>8, <2>1, <2>2 DEF ResponsesTellTheTruth
<1>15. CoverInv'
  <2>1. CoveredBehind /\ CancelAllCovers
    BY DEF IInv, CoverInv
  <2>2. ASSUME NEW o \in covered'
        PROVE  /\ Sent(o)' /\ Create(o) \notin orphans'
               /\ \A j \in DOMAIN wire' : wire'[j] = Entry(Create(o)) =>
                    \E k \in DOMAIN wire' : j < k /\ wire'[k] = Entry(CancelAll(o))
               /\ orders'[o] = "WORKING" => \E k \in DOMAIN wire' : wire'[k] = Entry(CancelAll(o))
    <3>1. o \in covered /\ o \in Orders
      BY <1>3, <1>9 DEF TypeOK
    <3>2. Sent(o)' /\ Create(o) \notin orphans'
      BY <1>2, <1>6, <2>1, <3>1 DEF CoveredBehind, Sent, OnWire
    <3>3. /\ Create(o) \in Requests /\ CancelAll(o) \in Requests
          /\ result # "NONE" /\ wire'[i] \in Item
      BY <1>4, <1>5, <3>1, RequestTypes, LenProperties, ElementOfSeq DEF Results
    <3>4. wire[i] = Entry(r)
      BY <1>2, <1>4, Entries DEF r
    \* A request that is still unprocessed was so before, and is behind i.
    <3>5. \A j \in DOMAIN wire' : \A q \in {Create(o), CancelAll(o)} :
            wire'[j] = Entry(q) => wire[j] = Entry(q) /\ i < j
      <4> SUFFICES ASSUME NEW j \in DOMAIN wire', NEW q \in {Create(o), CancelAll(o)},
                          wire'[j] = Entry(q)
                   PROVE  wire[j] = Entry(q) /\ i < j
        OBVIOUS
      <4>1. wire'[j].result = "NONE"
        BY <3>3, Entries
      <4>2. j # i
        BY <1>5, <3>3, <4>1
      <4>3. wire[j] = wire'[j] /\ wire[j].result = "NONE"
        BY <1>5, <4>1, <4>2
      <4>4. j \notin 1 .. (i - 1)
        BY <1>2, <4>3
      <4> QED
        BY <1>4, <1>5, <4>2, <4>3, <4>4
    <3>6. CASE r = CancelAll(o)
      <4>1. executed
        BY <1>1, <3>1, <3>6, RequestTypes
      <4>2. orders'[o] # "WORKING"
        BY <1>1, <1>3, <1>4, <3>1, <3>6, <4>1, ExecutedMeaning
      <4>3. ASSUME NEW j \in DOMAIN wire', wire'[j] = Entry(Create(o))
            PROVE  \E k \in DOMAIN wire' : j < k /\ wire'[k] = Entry(CancelAll(o))
        <5>1. wire[j] = Entry(Create(o)) /\ i < j
          BY <3>5, <4>3
        <5>2. PICK k \in DOMAIN wire : j < k /\ wire[k] = Entry(CancelAll(o))
          BY <1>5, <2>1, <3>1, <5>1 DEF CoveredBehind
        <5>3. k # i
          BY <1>4, <1>5, <5>1, <5>2
        <5> QED
          BY <1>5, <5>2, <5>3
      <4> QED
        BY <3>2, <4>2, <4>3
    <3>7. CASE r # CancelAll(o)
      \* The cancel-all is not the request that was processed.
      <4>1. \A k \in DOMAIN wire : wire[k] = Entry(CancelAll(o)) =>
              k \in DOMAIN wire' /\ wire'[k] = Entry(CancelAll(o))
        <5>1. wire[i] # Entry(CancelAll(o))
          BY <3>3, <3>7, Entries DEF r
        <5> QED
          BY <1>5, <5>1
      <4>2. \A j \in DOMAIN wire' : wire'[j] = Entry(Create(o)) =>
              \E k \in DOMAIN wire' : j < k /\ wire'[k] = Entry(CancelAll(o))
        BY <1>5, <2>1, <3>1, <3>5, <4>1 DEF CoveredBehind
      <4>3. orders'[o] = "WORKING" => \E k \in DOMAIN wire' : wire'[k] = Entry(CancelAll(o))
        <5>1. CASE orders[o] = "WORKING"
          BY <2>1, <3>1, <4>1, <5>1 DEF CancelAllCovers
        <5>2. CASE r = Create(o)
          <6>1. \E k \in DOMAIN wire : wire[k] = Entry(CancelAll(o))
            BY <2>1, <3>1, <3>4, <5>2 DEF CoveredBehind
          <6> QED
            BY <4>1, <6>1
        <5> QED
          BY <1>8, <3>1, <5>1, <5>2
      <4> QED
        BY <3>2, <4>2, <4>3
    <3> QED
      BY <3>6, <3>7
  <2> QED
    BY <2>2 DEF CoverInv, CoveredBehind, CancelAllCovers
<1> QED
  BY <1>10, <1>11, <1>12, <1>13, <1>14, <1>15 DEF IInv, TruthInv

LEMMA ProcessOrphanInv ==
  ASSUME IInv, NEW r \in orphans, ProcessOrphan(r)
  PROVE  IInv'
<1>1. /\ orphans' = orphans \ {r}
      /\ orders' \in {orders, Executed(r)}
      /\ UNCHANGED <<portfolio, alive, ready, suspended, open_orders_symbols, wire, responses,
                     covered, cancel_alls, faults>>
  BY DEF ProcessOrphan, client, bounds
<1>2. TypeOK /\ SentOnce /\ SymbolsKnown /\ AnswersTellTheTruth /\ ResponsesTellTheTruth
  BY DEF IInv, TruthInv
<1>3. r \in Requests
  BY <1>2 DEF TypeOK
<1>4. /\ orders' \in [Orders -> {"NONE", "WORKING", "DONE"}]
      /\ \A o \in Orders : orders[o] # "NONE" => orders'[o] # "NONE"
      /\ \A o \in Orders : orders[o] = "DONE" => orders'[o] = "DONE"
      /\ \A o \in Orders : orders'[o] # "NONE" => orders[o] # "NONE" \/ r = Create(o)
      /\ \A o \in Orders : orders'[o] = "WORKING" => orders[o] = "WORKING" \/ r = Create(o)
  BY <1>1, <1>2, <1>3, MaybeExecuted
<1>5. Pending' = Pending
  BY <1>1 DEF Pending
<1>6. \A o \in Orders : r = Create(o) =>
        /\ Create(o) \in DOMAIN responses
        /\ responses[Create(o)].status \in Unanswered
        /\ Create(o) \notin Pending
        /\ o \notin covered
  BY <1>2 DEF SentOnce, OnWire, IInv, CoverInv, CoveredBehind
<1>7. TypeOK'
  BY <1>1, <1>2, <1>4 DEF TypeOK
<1>8. SentOnce'
  BY <1>1, <1>2, <1>5 DEF SentOnce, OnWire
<1>9. SymbolsKnown'
  BY <1>1, <1>2, <1>4, <1>5, <1>6 DEF SymbolsKnown, Sent, OnWire, ModeSet
<1>10. AnswersTellTheTruth'
  <2>1. \A i \in DOMAIN wire : wire[i].request \in Pending
    BY DEF Pending
  <2> QED
    BY <1>1, <1>2, <1>4, <1>6, <2>1 DEF AnswersTellTheTruth
<1>11. ResponsesTellTheTruth'
  BY <1>1, <1>2, <1>4, <1>6 DEF ResponsesTellTheTruth
<1>12. CoverInv'
  <2>1. covered \subseteq Orders
    BY <1>2 DEF TypeOK
  <2> QED
    BY <1>1, <1>4, <1>5, <1>6, <2>1
    DEF IInv, CoverInv, CoveredBehind, CancelAllCovers, Sent, OnWire
<1> QED
  BY <1>7, <1>8, <1>9, <1>10, <1>11, <1>12 DEF IInv, TruthInv

-----------------------------------------------------------------------------
(* Responses *)

\* The k-th request is taken off the wire: where the others stood, and stand.
Before(k, i) == IF i < k THEN i ELSE i + 1
After(k, i) == IF i < k THEN i ELSE i - 1

LEMMA Taken ==
  ASSUME TypeOK, SentOnce, NEW k \in DOMAIN wire, wire' = RemoveAt(wire, k)
  PROVE  /\ wire' \in Seq(Item)
         /\ \A i \in DOMAIN wire' : /\ i \in Int /\ Before(k, i) \in DOMAIN wire
                                   /\ Before(k, i) # k
                                   /\ wire'[i] = wire[Before(k, i)]
         /\ \A i \in DOMAIN wire : i # k =>
              After(k, i) \in DOMAIN wire' /\ wire'[After(k, i)] = wire[i]
         /\ Pending \subseteq Pending' \cup {wire[k].request}
         /\ Pending' \subseteq Pending
         /\ \A o \in Orders : wire[k].request = Create(o) => Create(o) \notin Pending'
<1> DEFINE head == SubSeq(wire, 1, k - 1)
           tail == SubSeq(wire, k + 1, Len(wire))
<1>1. /\ wire \in Seq(Item) /\ Len(wire) \in Nat /\ DOMAIN wire = 1 .. Len(wire)
  BY WireType
<1>2. /\ head \in Seq(Item) /\ Len(head) = k - 1
      /\ \A i \in 1 .. (k - 1) : head[i] = wire[i]
      /\ tail \in Seq(Item) /\ Len(tail) = Len(wire) - k
      /\ \A i \in 1 .. (Len(wire) - k) : tail[i] = wire[k + i]
  BY <1>1, SubSeqProperties
<1> HIDE DEF head, tail
<1>3. /\ wire' \in Seq(Item) /\ Len(wire') = Len(wire) - 1
      /\ \A i \in 1 .. (Len(wire) - 1) :
           wire'[i] = IF i <= k - 1 THEN head[i] ELSE tail[i - (k - 1)]
  <2>1. wire' = head \o tail
    BY DEF RemoveAt, head, tail
  <2>2. /\ head \o tail \in Seq(Item)
        /\ Len(head \o tail) = Len(head) + Len(tail)
        /\ \A i \in 1 .. Len(head) + Len(tail) :
             (head \o tail)[i] = IF i <= Len(head) THEN head[i] ELSE tail[i - Len(head)]
    BY <1>2, ConcatProperties
  <2> QED
    BY <1>1, <1>2, <2>1, <2>2
<1>4. DOMAIN wire' = 1 .. (Len(wire) - 1)
  BY <1>3, LenProperties
<1>5. ASSUME NEW i \in DOMAIN wire'
      PROVE  /\ i \in Int /\ Before(k, i) \in DOMAIN wire /\ Before(k, i) # k
             /\ wire'[i] = wire[Before(k, i)]
  <2> i \in 1 .. (Len(wire) - 1) /\ k \in 1 .. Len(wire)
    BY <1>1, <1>4
  <2> wire'[i] = IF i <= k - 1 THEN head[i] ELSE tail[i - (k - 1)]
    BY <1>3
  <2>1. CASE i < k
    <3>1. i \in 1 .. (k - 1) /\ i <= k - 1 /\ i \in 1 .. Len(wire) /\ i # k
      BY <1>1, <2>1
    <3>2. wire'[i] = wire[i]
      BY <1>2, <3>1
    <3> QED
      BY <1>1, <2>1, <3>1, <3>2 DEF Before
  <2>2. CASE ~ (i < k)
    <3>1. /\ i - (k - 1) \in 1 .. (Len(wire) - k)
          /\ ~ (i <= k - 1)
          /\ k + (i - (k - 1)) = i + 1
      BY <1>1, <2>2
    <3>2. wire'[i] = tail[i - (k - 1)]
      BY <3>1
    <3>3. wire'[i] = wire[i + 1]
      BY <1>2, <3>1, <3>2
    <3> QED
      BY <1>1, <2>2, <3>3 DEF Before
  <2> QED
    BY <2>1, <2>2
<1>6. ASSUME NEW i \in DOMAIN wire, i # k
      PROVE  After(k, i) \in DOMAIN wire' /\ wire'[After(k, i)] = wire[i]
  <2>1. After(k, i) \in DOMAIN wire' /\ Before(k, After(k, i)) = i
    BY <1>1, <1>4, <1>6 DEF Before, After
  <2> QED
    BY <1>5, <2>1
<1>7. Pending \subseteq Pending' \cup {wire[k].request} /\ Pending' \subseteq Pending
  BY <1>5, <1>6 DEF Pending
<1>8. ASSUME NEW o \in Orders, NEW i \in DOMAIN wire',
             wire[k].request = Create(o), wire'[i].request = Create(o)
      PROVE  FALSE
  BY <1>5, <1>8 DEF SentOnce
<1> QED
  BY <1>3, <1>5, <1>6, <1>7, <1>8 DEF Pending

\* A request is answered, by the exchange or by a NetworkError: in that case the
\* exchange may still have it.
LEMMA AnsweredInv ==
  ASSUME IInv, NEW k \in DOMAIN wire, NEW result \in Answers, Answered(k, result),
         result # "NETWORK" => wire[k].result = result,
         orphans' \subseteq orphans \cup {wire[k].request},
         result # "NETWORK" => orphans' = orphans,
         covered' \subseteq covered,
         \A o \in covered' : wire[k] # Entry(CancelAll(o)) /\ Create(o) \notin orphans',
         portfolio' = portfolio, alive' \in BOOLEAN, ready' \in BOOLEAN,
         suspended' \in BOOLEAN, faults' \in Nat,
         UNCHANGED <<open_orders_symbols, orders, cancel_alls>>
  PROVE  IInv'
<1> DEFINE r == wire[k].request
<1>1. UNCHANGED <<portfolio, open_orders_symbols, orders, cancel_alls>>
  OBVIOUS
<1>3. TypeOK /\ SentOnce /\ SymbolsKnown /\ AnswersTellTheTruth /\ ResponsesTellTheTruth
  BY DEF IInv, TruthInv
<1>2. /\ wire' \in Seq(Item)
      /\ r \in Requests
      /\ \A i \in DOMAIN wire' : /\ i \in Int /\ Before(k, i) \in DOMAIN wire
                                /\ Before(k, i) # k
                                /\ wire'[i] = wire[Before(k, i)]
      /\ \A i \in DOMAIN wire : i # k =>
           After(k, i) \in DOMAIN wire' /\ wire'[After(k, i)] = wire[i]
      /\ Pending \subseteq Pending' \cup {r}
      /\ Pending' \subseteq Pending
      /\ \A o \in Orders : r = Create(o) => Create(o) \notin Pending'
      /\ responses' = Respond(r, ResponseTo(r, result))
  <2>1. /\ wire' = RemoveAt(wire, k)
        /\ responses' = Respond(r, ResponseTo(r, result))
    BY DEF Answered
  <2>2. r \in Requests
    BY <1>3, WireType
  <2> HIDE DEF r
  <2> QED
    BY <1>3, <2>1, <2>2, Taken DEF r
<1>4. r \in Pending
  BY <1>2 DEF Pending
<1>5. DOMAIN wire \subseteq Int /\ DOMAIN wire' \subseteq Int
  BY <1>2, <1>3, WireType
<1>6. \A o \in Orders :
        /\ r = Create(o) =>
             /\ result = "SUCCESS" => orders[o] # "NONE"
             /\ result \in Refusals => orders[o] = "NONE" /\ orphans' = orphans
        /\ r = Cancel(o) /\ result = "SUCCESS" => orders[o] = "DONE"
  BY <1>3 DEF AnswersTellTheTruth, Refusals
<1> HIDE DEF r
<1>7. /\ DOMAIN responses' = DOMAIN responses \cup {r}
      /\ responses'[r] = ResponseTo(r, result)
      /\ \A x \in DOMAIN responses : x # r => responses'[x] = responses[x]
  BY <1>2 DEF Respond
<1>8. ResponseTo(r, result) \in Responses
  BY <1>2, ResponseTypes
<1>10. TypeOK'
  <2>1. \A x \in DOMAIN responses' : responses'[x] \in Responses
    BY <1>3, <1>7, <1>8 DEF TypeOK
  <2>2. DOMAIN responses' \subseteq Requests
    BY <1>2, <1>3, <1>7 DEF TypeOK
  <2>3. portfolio' \in BOOLEAN /\ alive' \in BOOLEAN /\ ready' \in BOOLEAN
    BY <1>3, Zenon DEF TypeOK
  <2>4. /\ open_orders_symbols' \subseteq Symbols
        /\ wire' \in Seq([request : Requests, result : Results \cup {"NONE"}])
        /\ covered' \subseteq Orders
        /\ orders' \in [Orders -> {"NONE", "WORKING", "DONE"}]
        /\ orphans' \subseteq Requests
        /\ cancel_alls' \in Nat
        /\ faults' \in Nat
    BY <1>1, <1>2, <1>3 DEF TypeOK, Item, r
  <2> QED
    BY <2>1, <2>2, <2>3, <2>4 DEF TypeOK
<1>11. \A o \in Orders : Sent(o)' <=> Sent(o)
  BY <1>2, <1>4, <1>7 DEF Sent, OnWire
<1>12. SentOnce'
  <2>1. \A i, j \in DOMAIN wire' : \A o \in Orders :
          wire'[i].request = Create(o) /\ wire'[j].request = Create(o) => i = j
    <3> SUFFICES ASSUME NEW i \in DOMAIN wire', NEW j \in DOMAIN wire', NEW o \in Orders,
                        wire'[i].request = Create(o), wire'[j].request = Create(o)
                 PROVE  i = j
      OBVIOUS
    <3>1. Before(k, i) = Before(k, j)
      BY <1>2, <1>3 DEF SentOnce
    <3> QED
      BY <1>2, <1>5, <3>1 DEF Before
  <2>2. \A o \in Orders : Create(o) \in DOMAIN responses' => Create(o) \notin Pending'
    BY <1>2, <1>3, <1>7 DEF SentOnce, OnWire
  <2>3. ASSUME NEW o \in Orders, Create(o) \in orphans'
        PROVE  Create(o) \in DOMAIN responses' /\ responses'[Create(o)].status \in Unanswered
    <3>1. CASE Create(o) \in orphans
      BY <1>3, <1>4, <1>7, <3>1 DEF SentOnce, OnWire
    <3>2. CASE Create(o) \notin orphans
      <4>1. Create(o) = r /\ result = "NETWORK"
        BY <2>3, <3>2 DEF r
      <4> QED
        BY <1>7, <4>1, ResponseMeaning DEF Unanswered, Answers
    <3> QED
      BY <3>1, <3>2
  <2> QED
    BY <2>1, <2>2, <2>3 DEF SentOnce, OnWire
<1>13. SymbolsKnown'
  BY <1>1, <1>3, <1>11 DEF SymbolsKnown, ModeSet
<1>14. AnswersTellTheTruth'
  BY <1>1, <1>2, <1>3 DEF AnswersTellTheTruth
<1>15. ResponsesTellTheTruth'
  <2> SUFFICES ASSUME NEW o \in Orders
               PROVE  /\ Create(o) \in DOMAIN responses' =>
                           /\ responses'[Create(o)].status = "ACCEPTED" => orders[o] # "NONE"
                           /\ (/\ responses'[Create(o)].status = "REJECTED"
                               /\ responses'[Create(o)].error # "UNKNOWN")
                                => orders[o] = "NONE" /\ Create(o) \notin orphans'
                      /\ Cancel(o) \in DOMAIN responses' /\ responses'[Cancel(o)].status = "ACCEPTED"
                           => orders[o] = "DONE"
    BY <1>1 DEF ResponsesTellTheTruth
  <2>1. /\ r = Create(o) => Create(o) \notin orphans
        /\ r # Create(o) /\ Create(o) \in orphans' => Create(o) \in orphans
    BY <1>3, <1>4 DEF SentOnce, OnWire, r
  <2>2. CASE r = Create(o)
    <3>1. Cancel(o) # r
      BY <2>2, RequestsDiffer
    <3>2. /\ ResponseTo(r, result).status = "ACCEPTED" => result = "SUCCESS"
          /\ (/\ ResponseTo(r, result).status = "REJECTED"
              /\ ResponseTo(r, result).error # "UNKNOWN") => result \in Refusals
      BY <1>2, <2>2, ResponseMeaning
    <3> QED
      BY <1>3, <1>6, <1>7, <2>1, <2>2, <3>1, <3>2 DEF ResponsesTellTheTruth
  <2>3. CASE r = Cancel(o)
    <3>1. Create(o) # r
      BY <2>3, RequestsDiffer
    <3>2. ResponseTo(r, result).status = "ACCEPTED" => result = "SUCCESS"
      BY <1>2, <2>3, ResponseMeaning
    <3> QED
      BY <1>3, <1>6, <1>7, <2>1, <2>3, <3>1, <3>2 DEF ResponsesTellTheTruth
  <2>4. CASE r # Create(o) /\ r # Cancel(o)
    BY <1>3, <1>7, <2>1, <2>4 DEF ResponsesTellTheTruth
  <2> QED
    BY <2>2, <2>3, <2>4
<1>16. CoverInv'
  <2>1. CoveredBehind /\ CancelAllCovers /\ covered \subseteq Orders
    BY <1>3 DEF IInv, CoverInv, TypeOK
  <2>2. ASSUME NEW o \in covered'
        PROVE  /\ Sent(o)' /\ Create(o) \notin orphans'
               /\ \A i \in DOMAIN wire' : wire'[i] = Entry(Create(o)) =>
                    \E j \in DOMAIN wire' : i < j /\ wire'[j] = Entry(CancelAll(o))
               /\ orders[o] = "WORKING" => \E j \in DOMAIN wire' : wire'[j] = Entry(CancelAll(o))
    <3>1. /\ o \in covered /\ o \in Orders
          /\ wire[k] # Entry(CancelAll(o)) /\ Create(o) \notin orphans'
      BY <2>1, <2>2
    <3>2. ASSUME NEW i \in DOMAIN wire', wire'[i] = Entry(Create(o))
          PROVE  \E j \in DOMAIN wire' : i < j /\ wire'[j] = Entry(CancelAll(o))
      <4>1. Before(k, i) \in DOMAIN wire /\ wire[Before(k, i)] = Entry(Create(o))
        BY <1>2, <3>2
      <4>2. PICK j \in DOMAIN wire : Before(k, i) < j /\ wire[j] = Entry(CancelAll(o))
        BY <2>1, <3>1, <4>1 DEF CoveredBehind
      <4>3. j # k
        BY <3>1, <4>2
      <4>4. After(k, j) \in DOMAIN wire' /\ wire'[After(k, j)] = Entry(CancelAll(o))
        BY <1>2, <4>2, <4>3
      <4>5. i < After(k, j)
        BY <1>5, <4>2, <4>3 DEF Before, After
      <4> QED
        BY <4>4, <4>5
    <3>3. orders[o] = "WORKING" => \E j \in DOMAIN wire' : wire'[j] = Entry(CancelAll(o))
      BY <1>2, <2>1, <3>1 DEF CancelAllCovers
    <3>4. Sent(o)'
      BY <1>11, <2>1, <3>1 DEF CoveredBehind
    <3> QED
      BY <3>1, <3>2, <3>3, <3>4
  <2> QED
    BY <1>1, <2>2 DEF CoverInv, CoveredBehind, CancelAllCovers
<1> QED
  BY <1>10, <1>12, <1>13, <1>14, <1>15, <1>16 DEF IInv, TruthInv

LEMMA AcknowledgeInv ==
  ASSUME IInv, NEW type, Acknowledge(type)
  PROVE  IInv'
<1>1. /\ wire # <<>> /\ wire[1].result # "NONE" /\ ~ Fatal(wire[1].result)
      /\ Answered(1, wire[1].result)
      /\ UNCHANGED <<portfolio, alive, ready, open_orders_symbols, covered, orders, orphans,
                     cancel_alls, faults>>
  BY DEF Acknowledge, exchange, bounds
<1>2. TypeOK
  BY DEF IInv, TruthInv
<1>3. 1 \in DOMAIN wire
  <2>1. wire \in Seq(Item) /\ Len(wire) \in Nat /\ DOMAIN wire = 1 .. Len(wire)
    BY <1>2, WireType
  <2>2. Len(wire) # 0
    BY <1>1, <2>1, EmptySeq
  <2> QED
    BY <2>1, <2>2
<1>4. wire[1].result \in Answers
  BY <1>1, <1>2, <1>3, WireType DEF Fatal, Answers
<1>5. \A o \in covered : wire[1] # Entry(CancelAll(o)) /\ Create(o) \notin orphans
  <2>1. \A q \in Requests : Entry(q).result = "NONE"
    BY Entries
  <2>2. covered \subseteq Orders
    BY <1>2 DEF TypeOK
  <2> QED
    BY <1>1, <2>1, <2>2, RequestTypes DEF IInv, CoverInv, CoveredBehind
<1>6. suspended' \in BOOLEAN
  <2>1. PICK suspends \in MaySuspend(wire[1].result) : suspended' = (suspended \/ suspends)
    BY DEF Acknowledge
  <2> QED
    BY <2>1, Zenon
<1>7. /\ alive' \in BOOLEAN /\ ready' \in BOOLEAN /\ portfolio' = portfolio
  BY <1>1, <1>2, Zenon DEF TypeOK
<1>8. faults' \in Nat
  BY <1>1, <1>2 DEF TypeOK
<1>9. wire[1].result # "NETWORK"
  BY <1>2, <1>3, WireType DEF Results
<1> QED
  BY <1>1, <1>3, <1>4, <1>5, <1>6, <1>7, <1>8, <1>9, AnsweredInv

LEMMA NetworkErrorInv ==
  ASSUME IInv, NEW k \in DOMAIN wire, NetworkError(k)
  PROVE  IInv'
<1> DEFINE r == wire[k].request
<1>1. /\ Answered(k, "NETWORK")
      /\ faults' \in {faults, faults + 1}
      /\ UNCHANGED <<portfolio, alive, ready, suspended, open_orders_symbols, orders,
                     cancel_alls>>
  BY DEF NetworkError
<1>2. TypeOK /\ CoveredBehind
  BY DEF IInv, TruthInv, CoverInv
<1>3. PICK held \in SUBSET {x \in {r} : wire[k].result = "NONE"} :
        /\ orphans' = orphans \cup held
        /\ covered' = IF r.type = "CANCEL_ALL" \/ Create(r.target) \in held
                      THEN covered \ {r.target} ELSE covered
  BY DEF NetworkError
<1>4. \A o \in covered' : wire[k] # Entry(CancelAll(o)) /\ Create(o) \notin orphans'
  <2> SUFFICES ASSUME NEW o \in covered'
               PROVE  wire[k] # Entry(CancelAll(o)) /\ Create(o) \notin orphans'
    OBVIOUS
  <2>1. o \in covered /\ o \in Orders
    BY <1>2, <1>3 DEF TypeOK
  <2>2. wire[k] # Entry(CancelAll(o))
    <3>1. wire[k] = Entry(CancelAll(o)) => r = CancelAll(o)
      BY <2>1, RequestTypes, Entries
    <3> QED
      BY <1>3, <2>1, <3>1, RequestTypes
  <2>3. Create(o) \notin held
    <3>1. Create(o) \in held => r = Create(o)
      OBVIOUS
    <3> QED
      BY <1>3, <2>1, <3>1, RequestTypes
  <2> QED
    BY <1>2, <1>3, <2>1, <2>2, <2>3 DEF CoveredBehind
<1>5. /\ alive' \in BOOLEAN /\ ready' \in BOOLEAN /\ suspended' \in BOOLEAN
      /\ portfolio' = portfolio
  BY <1>1, <1>2, Zenon DEF TypeOK
<1>6. faults' \in Nat
  BY <1>1, <1>2 DEF TypeOK
<1>7. /\ orphans' \subseteq orphans \cup {r}
      /\ covered' \subseteq covered
      /\ "NETWORK" \in Answers
  BY <1>3 DEF Answers
<1> HIDE DEF r
<1> QED
  BY <1>1, <1>4, <1>5, <1>6, <1>7, AnsweredInv DEF r

\* What was on the wire when there is a connection again is dropped.
LEMMA DropWireInv ==
  ASSUME IInv, Ready, DropWire
  PROVE  IInv'
<1> DEFINE none == Response("NONE", "NONE")
<1>1. /\ ready' = TRUE
      /\ wire' = <<>>
      /\ responses' = [r \in DOMAIN responses \cup Pending |->
                         IF r \in Pending THEN none ELSE responses[r]]
      /\ orphans' \subseteq orphans \cup Unprocessed
      /\ covered' = {}
      /\ UNCHANGED <<portfolio, alive, suspended, open_orders_symbols, orders, cancel_alls,
                     faults>>
  BY DEF Ready, DropWire, bounds
<1>2. TypeOK /\ SentOnce /\ SymbolsKnown /\ ResponsesTellTheTruth
  BY DEF IInv, TruthInv
<1>3. wire' \in Seq(Item) /\ DOMAIN wire' = {}
  BY <1>1, EmptySeq, LenProperties
<1>4. Pending' = {} /\ Pending \subseteq Requests /\ Unprocessed \subseteq Pending
  BY <1>2, <1>3, WireType DEF Pending, Unprocessed
<1>5. none \in Responses /\ none.status = "NONE"
  BY DEF Response, Responses
<1> HIDE DEF none
<1>8. TypeOK'
  <2>1. \A r \in DOMAIN responses' : responses'[r] \in Responses
    BY <1>1, <1>2, <1>5 DEF TypeOK
  <2>2. DOMAIN responses' \subseteq Requests /\ orphans' \subseteq Requests
    BY <1>1, <1>2, <1>4 DEF TypeOK
  <2>3. ready' \in BOOLEAN
    BY <1>1
  <2>4. portfolio' \in BOOLEAN /\ alive' \in BOOLEAN /\ suspended' \in BOOLEAN
    BY <1>1, <1>2, Zenon DEF TypeOK
  <2>5. /\ open_orders_symbols' \subseteq Symbols
        /\ orders' \in [Orders -> {"NONE", "WORKING", "DONE"}]
        /\ cancel_alls' \in Nat /\ faults' \in Nat
    BY <1>1, <1>2 DEF TypeOK
  <2>6. covered' \subseteq Orders
    BY <1>1
  <2>7. wire' \in Seq([request : Requests, result : Results \cup {"NONE"}])
    BY <1>3 DEF Item
  <2> QED
    BY <2>1, <2>2, <2>3, <2>4, <2>5, <2>6, <2>7 DEF TypeOK
<1>9. SentOnce'
  <2>1. \A o \in Orders : Create(o) \in orphans' =>
          Create(o) \in DOMAIN responses' /\ responses'[Create(o)].status \in Unanswered
    BY <1>1, <1>2, <1>4, <1>5 DEF SentOnce, Unanswered
  <2> QED
    BY <1>3, <1>4, <2>1 DEF SentOnce, OnWire
<1>10. SymbolsKnown'
  <2>1. \A o \in Orders : Sent(o)' <=> Sent(o)
    BY <1>1, <1>4 DEF Sent, OnWire
  <2> QED
    BY <1>1, <1>2, <2>1 DEF SymbolsKnown, ModeSet
<1>11. AnswersTellTheTruth'
  BY <1>3 DEF AnswersTellTheTruth
<1>12. ResponsesTellTheTruth'
  <2> SUFFICES ASSUME NEW o \in Orders
               PROVE  /\ Create(o) \in DOMAIN responses' =>
                           /\ responses'[Create(o)].status = "ACCEPTED" => orders[o] # "NONE"
                           /\ (/\ responses'[Create(o)].status = "REJECTED"
                               /\ responses'[Create(o)].error # "UNKNOWN")
                                => orders[o] = "NONE" /\ Create(o) \notin orphans'
                      /\ Cancel(o) \in DOMAIN responses' /\ responses'[Cancel(o)].status = "ACCEPTED"
                           => orders[o] = "DONE"
    BY <1>1 DEF ResponsesTellTheTruth
  <2>1. Create(o) \in Pending => responses'[Create(o)].status = "NONE"
    BY <1>1, <1>5
  <2>2. Cancel(o) \in Pending => responses'[Cancel(o)].status # "ACCEPTED"
    BY <1>1, <1>5
  <2>3. \A r \in DOMAIN responses' \ Pending : r \in DOMAIN responses /\ responses'[r] = responses[r]
    BY <1>1
  <2>4. Create(o) \notin Pending => (Create(o) \in orphans' => Create(o) \in orphans)
    BY <1>1, <1>4
  <2> QED
    BY <1>2, <2>1, <2>2, <2>3, <2>4 DEF ResponsesTellTheTruth
<1>13. CoverInv'
  BY <1>1 DEF CoverInv, CoveredBehind, CancelAllCovers
<1> QED
  BY <1>8, <1>9, <1>10, <1>11, <1>12, <1>13 DEF IInv, TruthInv

-----------------------------------------------------------------------------
(* Theorems *)

LEMMA OrdersExist == \E o \in Orders : TRUE
<1>1. PICK s : s \in Symbols
  BY OrderActionsAssumption
<1>2. [symbol |-> s, mode |-> "CROSS"] \in Orders
  BY <1>1 DEF Orders, MarginModes
<1> QED
  BY <1>2

LEMMA NextInv ==
  ASSUME IInv, Next
  PROVE  IInv'
<1>1. ASSUME NEW o \in Orders, MarginNewOrder(o) \/ PortfolioNewOrder(o)
      PROVE  IInv'
  <2>1. NewOrder(o) /\ o.mode \in ModeSet
    BY <1>1 DEF MarginNewOrder, PortfolioNewOrder, ModeSet
  <2> QED
    BY <2>1, NewOrderInv
<1>2. ASSUME NEW o \in Orders, MarginCancelOrder(o) \/ PortfolioCancelOrder(o)
      PROVE  IInv'
  <2>1. /\ Send(Cancel(o))
        /\ UNCHANGED <<portfolio, alive, ready, suspended, open_orders_symbols, responses, covered,
                       orders, orphans, cancel_alls, faults>>
    BY <1>2 DEF MarginCancelOrder, PortfolioCancelOrder, CancelOrder, client, exchange, bounds
  <2>2. ready' \in BOOLEAN /\ suspended' \in BOOLEAN /\ alive' \in BOOLEAN
    BY <2>1, Zenon DEF IInv, TruthInv, TypeOK
  <2>3. faults' \in Nat
    BY <2>1 DEF IInv, TruthInv, TypeOK
  <2> QED
    BY <2>1, <2>2, <2>3, CancelOrQuietInv
<1>3. ASSUME NEW symbols \in {Symbols} \cup {{s} : s \in Symbols}, CancelAllOrders(symbols)
      PROVE  IInv'
  BY <1>3, CancelAllOrdersInv
<1>4. CASE ClientActs
  BY <1>1, <1>2, <1>3, <1>4 DEF ClientActs
<1>5. CASE ExchangeProcesses
  BY <1>5, ProcessInv DEF ExchangeProcesses
<1>6. CASE \E r \in orphans : ProcessOrphan(r)
  BY <1>6, ProcessOrphanInv
<1>7. CASE ResponseArrives
  BY <1>7, AcknowledgeInv
  DEF ResponseArrives, MarginNewOrderAck, PortfolioNewOrderAck, MarginCancelOrderAck,
      PortfolioCancelOrderAck, MarginCancelAllOpenOrdersAck, PortfolioCancelAllOpenOrdersAck
<1>8. CASE \E k \in DOMAIN wire : NetworkError(k)
  BY <1>8, NetworkErrorInv
<1>9. CASE Terminate \/ Disconnected \/ SuspensionExpires \/ (Ready /\ KeepWire)
  <2>1. PICK o \in Orders : TRUE
    BY OrdersExist
  <2>2. UNCHANGED <<portfolio, open_orders_symbols, wire, responses, covered, orders, orphans,
                    cancel_alls>>
    BY <1>9 DEF Terminate, Disconnected, SuspensionExpires, Ready, KeepWire, client,
                exchange, bounds
  <2>3. /\ ready' \in {ready, TRUE, FALSE} /\ suspended' \in {suspended, FALSE}
        /\ alive' \in {alive, FALSE}
    BY <1>9, Zenon DEF Terminate, Disconnected, SuspensionExpires, Ready
  <2>4. ready' \in BOOLEAN /\ suspended' \in BOOLEAN /\ alive' \in BOOLEAN
    BY <2>3, Zenon DEF IInv, TruthInv, TypeOK
  <2>5. faults' \in Nat
    <3>1. faults' \in {faults, faults + 1}
      BY <1>9 DEF Terminate, Disconnected, SuspensionExpires, Ready, bounds
    <3> QED
      BY <3>1 DEF IInv, TruthInv, TypeOK
  <2> QED
    BY <2>1, <2>2, <2>4, <2>5, CancelOrQuietInv
<1>10. CASE Ready /\ DropWire
  BY <1>10, DropWireInv
<1>11. Ready => KeepWire \/ DropWire
  BY DEF Ready
<1> QED
  BY <1>4, <1>5, <1>6, <1>7, <1>8, <1>9, <1>10, <1>11 DEF Next

LEMMA StutterInv ==
  ASSUME IInv, UNCHANGED vars
  PROVE  IInv'
<1>1. /\ UNCHANGED <<open_orders_symbols, wire, responses, covered, orders, orphans>>
      /\ UNCHANGED <<cancel_alls, faults>>
  BY DEF vars, client, exchange, bounds
<1>2. portfolio' = portfolio /\ alive' = alive /\ ready' = ready /\ suspended' = suspended
  BY Zenon DEF vars
<1>3. PICK o \in Orders : TRUE
  BY OrdersExist
<1>4. ready' \in BOOLEAN /\ suspended' \in BOOLEAN /\ alive' \in BOOLEAN
  BY <1>2, Zenon DEF IInv, TruthInv, TypeOK
<1>5. faults' \in Nat
  BY <1>1 DEF IInv, TruthInv, TypeOK
<1> QED
  BY <1>1, <1>2, <1>3, <1>4, <1>5, CancelOrQuietInv

LEMMA Invariance == Spec => []IInv
<1>1. IInv /\ [Next]_vars => IInv'
  BY NextInv, StutterInv
<1> QED
  BY <1>1, InitInv, PTL DEF Spec

\* Variables keep their types, whatever is sent, answered, lost or left behind
\* by a connection.
THEOREM TypeCorrect == Spec => []TypeOK
<1>1. IInv => TypeOK
  BY DEF IInv, TruthInv
<1> QED
  BY <1>1, Invariance, PTL

\* What process_response tells the client of an order is so: the exchange has
\* what was ACCEPTED, has not and will not have what was REJECTED for a reason,
\* and an order whose cancellation was ACCEPTED is gone.
THEOREM TheClientIsToldTheTruth == Spec => []ResponsesTellTheTruth
<1>1. IInv => ResponsesTellTheTruth
  BY DEF IInv, TruthInv
<1> QED
  BY <1>1, Invariance, PTL

\* A cancel-all, one request for each of open_orders_symbols_ and margin mode,
\* reaches every order that was sent before it.
THEOREM CancelAllReachesAll == Spec => []CancelAllCovers
<1>1. IInv => CancelAllCovers
  BY DEF IInv, CoverInv
<1> QED
  BY <1>1, Invariance, PTL

=============================================================================
