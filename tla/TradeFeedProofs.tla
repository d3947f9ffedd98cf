-------------------------- MODULE TradeFeedProofs --------------------------
(***************************************************************************)
(* Theorems about the trade feed, for any readers, trades, messages and    *)
(* bounds: the variables keep their types, every call is where its caller  *)
(* believes it to be, and the check for duplicates never finds one; the    *)
(* feed keeps the log that TradeLog describes, loses no trade while        *)
(* nothing fails, and leaves no more gaps than its failures explain.       *)
(***************************************************************************)
EXTENDS TradeFeedImplementsLog, AsyncRedbProofs, FiniteSetTheorems

-----------------------------------------------------------------------------
(* The tables.  `n` is the number of indices handed out.                   *)

GoodRows(n) == {row \in Rows : row.id[1] = row.index /\ row.index <= n}

DbOK(d) ==
  /\ DOMAIN d = {"trades_meta", "trades", "trade_ids"}
  /\ d.trades_meta \in [{"total"} -> Indices]
  /\ DOMAIN d.trades \subseteq Indices
  /\ \A i \in DOMAIN d.trades : d.trades[i] \in Rows
  /\ \A x \in DOMAIN d.trade_ids :
       x \in Ids /\ x[1] <= Total(d) /\ d.trade_ids[x] = x[1]

ReplyOK(request, reply) == reply = Err \/ IsFeedReply(request, reply)

ReplyFits(call) == call.at = "replied" => ReplyOK(call.request, call.reply)

LEMMA TotalOf ==
  ASSUME NEW d, DbOK(d)
  PROVE  Total(d) = d.trades_meta["total"] /\ Total(d) \in Indices
BY DEF DbOK, Total

LEMMA OpenOK == DbOK(Open(EmptyDb)) /\ \A d : DbOK(d) => Open(d) = d
<1>1. DbOK(Open(EmptyDb))
  <2> DEFINE meta == Inserted(<<>>, "total", 0)
             d == [EmptyDb EXCEPT !.trades_meta = meta]
  <2>1. Open(EmptyDb) = d BY DEF Open, EmptyDb, WithTotal
  <2>2. meta \in [{"total"} -> Indices]
    BY FeedAssumption DEF Inserted, Indices
  <2> HIDE DEF meta
  <2>3. /\ DOMAIN d = {"trades_meta", "trades", "trade_ids"}
        /\ d.trades_meta = meta
        /\ DOMAIN d.trades = {} /\ DOMAIN d.trade_ids = {}
    BY DEF EmptyDb
  <2> HIDE DEF d
  <2> QED BY <2>1, <2>2, <2>3 DEF DbOK
<1>2. \A d : DbOK(d) => Open(d) = d BY DEF DbOK, Open
<1> QED BY <1>1, <1>2

LEMMA LeastNatural ==
  ASSUME NEW S \in SUBSET Nat, S # {}
  PROVE  Min(S) \in S /\ \A i \in S : Min(S) <= i
BY LeastNumber DEF Min

(* A page has rows only.                                                   *)
LEMMA PageOK ==
  ASSUME NEW d, DbOK(d), NEW start \in Nat, NEW limit \in Nat
  PROVE  Page(d, start, limit) \in Seq(Rows)
<1> DEFINE missing == {k \in 0 .. limit - 1 : start + k \notin DOMAIN d.trades}
           size == IF missing = {} THEN limit ELSE Min(missing)
           page == [k \in 1 .. size |-> d.trades[start + k - 1]]
<1>1. missing \in SUBSET Nat OBVIOUS
<1>2. size \in Nat /\ \A k \in 0 .. size - 1 : start + k \in DOMAIN d.trades
  <2>1. CASE missing = {} BY <2>1
  <2>2. CASE missing # {}
    <3>1. Min(missing) \in missing /\ \A i \in missing : Min(missing) <= i
      BY <1>1, <2>2, LeastNatural
    <3> QED BY <2>2, <3>1
  <2> QED BY <2>1, <2>2
<1> HIDE DEF size
<1>3. \A k \in 1 .. size : d.trades[start + k - 1] \in Rows
  <2> SUFFICES ASSUME NEW k \in 1 .. size
               PROVE  d.trades[start + k - 1] \in Rows
    OBVIOUS
  <2>1. k - 1 \in 0 .. size - 1 /\ start + (k - 1) = start + k - 1
    BY <1>2
  <2> QED BY <1>2, <2>1 DEF DbOK
<1>4. page \in Seq(Rows) BY <1>2, <1>3
<1> QED BY <1>4 DEF Page, size

(* What each request leaves of the tables, and what it replies.            *)

LEMMA CountOK ==
  ASSUME NEW d, DbOK(d), Total(d) + 1 \in Indices
  PROVE  LET result == Handled(d, NextTradeCounter)
         IN /\ DbOK(result.db) /\ Total(result.db) = Total(d) + 1
            /\ result.db.trade_ids = d.trade_ids
            /\ result.db.trades = d.trades
            /\ result.value = Total(d) + 1
<1> DEFINE n == Total(d) + 1
           meta == Inserted(d.trades_meta, "total", n)
           new == [d EXCEPT !.trades_meta = meta]
<1>1. Handled(d, NextTradeCounter) = Result(new, n)
  BY DEF Handled, NextTradeCounter, Count, WithTotal
<1>2. Total(d) \in Indices /\ Total(d) <= n
  BY TotalOf, FeedAssumption DEF Indices
<1> HIDE DEF n
<1>3. meta \in [{"total"} -> Indices] /\ meta["total"] = n
  BY DEF n, DbOK, Inserted
<1> HIDE DEF meta
<1>4. /\ DOMAIN new = {"trades_meta", "trades", "trade_ids"}
      /\ new.trades_meta = meta
      /\ new.trades = d.trades /\ new.trade_ids = d.trade_ids
  BY DEF DbOK
<1> HIDE DEF new
<1>5. Total(new) = n BY <1>3, <1>4 DEF Total
<1>6. \A x \in DOMAIN d.trade_ids : x[1] <= n
  BY <1>2 DEF DbOK, Ids, Indices, n
<1>7. DbOK(new) BY <1>3, <1>4, <1>5, <1>6 DEF DbOK
<1> QED BY <1>1, <1>4, <1>5, <1>7 DEF Result, n

LEMMA StoreIdOK ==
  ASSUME NEW d, DbOK(d), NEW x \in Ids, x[1] <= Total(d)
  PROVE  LET result == Handled(d, StoreIdWithIndex(x, x[1]))
         IN /\ DbOK(result.db) /\ Total(result.db) = Total(d)
            /\ DOMAIN result.db.trade_ids = DOMAIN d.trade_ids \cup {x}
            /\ result.db.trades = d.trades
            /\ result.value = <<>>
<1> DEFINE ids == Inserted(d.trade_ids, x, x[1])
           new == [d EXCEPT !.trade_ids = ids]
<1>1. Handled(d, StoreIdWithIndex(x, x[1])) = Result(new, <<>>)
  BY DEF Handled, StoreIdWithIndex, StoreId
<1>2. /\ DOMAIN ids = DOMAIN d.trade_ids \cup {x}
      /\ \A y \in DOMAIN ids : y \in Ids /\ y[1] <= Total(d) /\ ids[y] = y[1]
  BY DEF DbOK, Inserted
<1> HIDE DEF ids
<1>3. /\ DOMAIN new = {"trades_meta", "trades", "trade_ids"}
      /\ new.trades_meta = d.trades_meta
      /\ new.trades = d.trades /\ new.trade_ids = ids
  BY DEF DbOK
<1> HIDE DEF new
<1>4. Total(new) = Total(d) BY <1>3 DEF Total
<1>5. DbOK(new) BY <1>2, <1>3, <1>4 DEF DbOK
<1> QED BY <1>1, <1>2, <1>3, <1>4, <1>5 DEF Result

LEMMA StoreBatchOK ==
  ASSUME NEW d, DbOK(d), NEW batch \in Seq(GoodRows(Total(d)))
  PROVE  LET result == Handled(d, StoreTradeBatch(batch))
         IN /\ DbOK(result.db) /\ Total(result.db) = Total(d)
            /\ result.value \in Nat
<1> DEFINE Of(i)   == CHOOSE k \in DOMAIN batch : batch[k].index = i
           With(x) == CHOOSE k \in DOMAIN batch : batch[k].id = x
           rows == [i \in {batch[k].index : k \in DOMAIN batch}
                      |-> batch[Of(i)]]
           ids  == [x \in {batch[k].id : k \in DOMAIN batch}
                      |-> batch[With(x)].index]
           all_rows == InsertedAll(d.trades, rows)
           all_ids  == InsertedAll(d.trade_ids, ids)
           new == [d EXCEPT !.trades = all_rows, !.trade_ids = all_ids]
<1>1. Handled(d, StoreTradeBatch(batch)) = Result(new, Len(batch))
  BY DEF Handled, StoreTradeBatch, StoreBatch
<1>2. \A k \in DOMAIN batch : batch[k] \in GoodRows(Total(d)) OBVIOUS
<1>3. \A k \in DOMAIN batch :
        /\ batch[k] \in Rows /\ batch[k].index \in Indices
        /\ batch[k].id \in Ids /\ batch[k].id[1] = batch[k].index
        /\ batch[k].index <= Total(d)
  BY <1>2 DEF GoodRows, Rows
<1>4. DOMAIN rows \subseteq Indices /\ \A i \in DOMAIN rows : rows[i] \in Rows
  BY <1>3
<1>5. \A x \in DOMAIN ids : x \in Ids /\ x[1] <= Total(d) /\ ids[x] = x[1]
  BY <1>3
<1> HIDE DEF rows, ids
<1>6. /\ DOMAIN all_rows \subseteq Indices
      /\ \A i \in DOMAIN all_rows : all_rows[i] \in Rows
  BY <1>4 DEF DbOK, InsertedAll
<1>7. \A x \in DOMAIN all_ids :
        x \in Ids /\ x[1] <= Total(d) /\ all_ids[x] = x[1]
  BY <1>5 DEF DbOK, InsertedAll
<1> HIDE DEF all_rows, all_ids
<1>8. /\ DOMAIN new = {"trades_meta", "trades", "trade_ids"}
      /\ new.trades_meta = d.trades_meta
      /\ new.trades = all_rows /\ new.trade_ids = all_ids
  BY DEF DbOK
<1> HIDE DEF new
<1>9. Total(new) = Total(d) BY <1>8 DEF Total
<1>10. DbOK(new) BY <1>6, <1>7, <1>8, <1>9 DEF DbOK
<1>11. Len(batch) \in Nat OBVIOUS
<1> QED BY <1>1, <1>9, <1>10, <1>11 DEF Result

(* The requests of readers change nothing.                                 *)
ReaderRequests ==
  {TotalTradesCount}
    \cup [do : {"Range"}, start : StartIndices, limit : 0 .. MaxBatchSize]

LEMMA ReaderRequestOK ==
  ASSUME NEW d, DbOK(d), NEW request \in ReaderRequests
  PROVE  /\ Handled(d, request).db = d
         /\ ReplyOK(request, Ok(Handled(d, request).value))
<1>1. CASE request = TotalTradesCount
  <2>1. request.do = "Count" BY <1>1 DEF TotalTradesCount
  <2>2. Handled(d, request) = Result(d, Total(d)) BY <2>1 DEF Handled
  <2>3. Total(d) \in Indices BY TotalOf
  <2>4. IsFeedReply(request, Ok(Total(d)))
    BY <2>1, <2>3 DEF IsFeedReply, Ok
  <2> QED BY <2>2, <2>4 DEF Result, ReplyOK
<1>2. CASE request \in [do : {"Range"}, start : StartIndices,
                        limit : 0 .. MaxBatchSize]
  <2> DEFINE page == Page(d, request.start, request.limit)
  <2>1. request.do = "Range" BY <1>2
  <2>2. Handled(d, request) = Result(d, page) BY <2>1 DEF Handled
  <2>3. request.start \in Nat /\ request.limit \in Nat
    <3>1. request.start \in StartIndices /\ request.limit \in 0 .. MaxBatchSize
      BY <1>2
    <3>2. StartIndices \subseteq Nat /\ MaxBatchSize \in Nat
      BY FeedAssumption
    <3>3. request.start \in Nat BY <3>1, <3>2
    <3>4. request.limit \in Nat BY <3>1, <3>2
    <3> QED BY <3>3, <3>4
  <2>4. page \in Seq(Rows) BY <2>3, PageOK
  <2> HIDE DEF page
  <2>5. IsFeedReply(request, Ok(page)) BY <2>1, <2>4 DEF IsFeedReply, Ok
  <2> QED BY <2>2, <2>5 DEF Result, ReplyOK
<1> QED BY <1>1, <1>2 DEF ReaderRequests

-----------------------------------------------------------------------------
(* The feed.  Of `n` indices handed out, the trades in `todo` get the next *)
(* ones; there are no more of them than trades delivered, and while a      *)
(* trade's id is not stored, its index is above that of every id stored.   *)

Waits(call, request) == call.at # "none" /\ call.request = request

Fresh(ids, n) == \A x \in ids : x[1] < n

FeedTyped(f, n, k) ==
  f \in [at : {"connecting", "reading", "next_counter", "check_id",
               "store_id", "store_batch", "publish"},
         redis : BOOLEAN, todo : Seq(1 .. k),
         index : Indices, batch : Seq(GoodRows(n))]

FeedFits(f, call, n, ids, k) ==
  \/ /\ f.at \in {"connecting", "reading", "publish"} /\ call = NoCall
     /\ n <= k /\ (f.at = "publish" => f.batch # <<>>)
  \/ /\ f.at = "next_counter" /\ f.todo # <<>> /\ Waits(call, NextTradeCounter)
     /\ \/ ~(call.at = "replied" /\ call.reply.ok) /\ n + Len(f.todo) <= k
        \/ /\ call.at = "replied" /\ call.reply = Ok(n)
           /\ Fresh(ids, n) /\ n + Len(f.todo) - 1 <= k
  \/ /\ f.at = "check_id" /\ f.todo # <<>>
     /\ f.index = n /\ Fresh(ids, n) /\ n + Len(f.todo) - 1 <= k
     /\ \E x \in Ids : x[1] = n /\ Waits(call, CheckIdExists(x))
     /\ call.at = "replied" => call.reply \in {Err, Ok(FALSE)}
  \/ /\ f.at = "store_id" /\ f.todo # <<>>
     /\ f.index = n /\ n + Len(f.todo) - 1 <= k
     /\ \E x \in Ids : x[1] = n /\ Waits(call, StoreIdWithIndex(x, n))
  \/ /\ f.at = "store_batch" /\ f.batch # <<>> /\ n <= k
     /\ Waits(call, StoreTradeBatch(f.batch))

FeedOK ==
  /\ FeedTyped(feed, Total(db), Len(delivered))
  /\ FeedFits(feed, calls["feed"], Total(db), DOMAIN db.trade_ids,
              Len(delivered))

ReadersOK ==
  \A r \in Readers : calls[r].at # "none" => calls[r].request \in ReaderRequests

RepliesOK == \A c \in Callers : ReplyFits(calls[c])

(* Only readers hang up.                                                   *)
OrphansOK ==
  \A i \in DOMAIN Pipeline :
    Pipeline[i].from = Nobody => Pipeline[i].request \in ReaderRequests

HistoryOK ==
  /\ delivered \in Seq(Trades) /\ Len(delivered) <= MaxDelivered
  /\ published \in Seq(Indices)
  /\ faults \in 0 .. MaxFaults /\ redis_lost \in BOOLEAN

IInv ==
  /\ RedbInv(FeedRequests) /\ DbOK(db) /\ FeedOK
  /\ ReadersOK /\ RepliesOK /\ OrphansOK /\ HistoryOK

LEMMA IInvInit == ASSUME Init PROVE IInv
<1>1. RedbInv(FeedRequests) /\ Pipeline = <<>> BY InitialInv DEF Init
<1>2. DbOK(db) /\ Total(db) = 0
  <2>1. DbOK(db) BY OpenOK DEF Init
  <2>2. Total(Open(EmptyDb)) = 0
    BY DEF Open, EmptyDb, WithTotal, Total, Inserted
  <2> QED BY <2>1, <2>2 DEF Init
<1>3. delivered = <<>> /\ Len(delivered) = 0 BY DEF Init
<1>4. calls = [c \in Callers |-> NoCall] BY DEF Init, RedbInit
<1>5. FeedOK
  BY <1>2, <1>3, <1>4, FeedAssumption
  DEF Init, FeedOK, FeedTyped, FeedFits, FeedAt, Indices
<1>6. ReadersOK /\ RepliesOK
  BY <1>4, FeedAssumption DEF ReadersOK, RepliesOK, ReplyFits, NoCall
<1>7. OrphansOK BY <1>1 DEF OrphansOK
<1>8. HistoryOK
  <2>1. MaxDelivered \in Nat /\ MaxFaults \in Nat BY FeedAssumption
  <2>2. delivered \in Seq(Trades) /\ published \in Seq(Indices) BY DEF Init
  <2>3. faults = 0 /\ redis_lost = FALSE BY DEF Init
  <2>4. faults \in 0 .. MaxFaults BY <2>1, <2>3
  <2>5. redis_lost \in BOOLEAN BY <2>3
  <2>6. Len(delivered) <= MaxDelivered BY <1>3, <2>1
  <2> QED BY <2>2, <2>4, <2>5, <2>6 DEF HistoryOK
<1> QED BY <1>1, <1>2, <1>5, <1>6, <1>7, <1>8 DEF IInv

LEMMA ReaderRequestsIn == ReaderRequests \subseteq FeedRequests
BY DEF ReaderRequests, FeedRequests

(* What stays is written once: an action of `c` that leaves the tables, the *)
(* deliveries and the entries alone.                                       *)
LEMMA OthersStay ==
  ASSUME IInv, NEW c \in Callers, NEW v, OnlyCall(c, v), ReplyFits(v),
         c = "feed" \/ (v.at # "none" => v.request \in ReaderRequests)
  PROVE  RepliesOK' /\ ReadersOK'
<1>1. ASSUME NEW d \in Callers PROVE ReplyFits(calls'[d])
  BY DEF OnlyCall, IInv, RepliesOK
<1>2. ASSUME NEW r \in Readers
      PROVE  calls'[r].at # "none" => calls'[r].request \in ReaderRequests
  BY FeedAssumption DEF OnlyCall, IInv, ReadersOK
<1> QED BY <1>1, <1>2 DEF RepliesOK, ReadersOK

LEMMA ReaderMoves ==
  ASSUME IInv, NEW r \in Readers, NEW v, OnlyCall(r, v), ReplyFits(v),
         v.at # "none" => v.request \in ReaderRequests,
         RedbInv(FeedRequests)', OrphansOK',
         UNCHANGED <<db, feed, delivered, published, faults, redis_lost>>
  PROVE  IInv'
<1>1. r \in Callers /\ r # "feed" /\ "feed" \in Callers BY FeedAssumption
<1>2. RepliesOK' /\ ReadersOK' BY <1>1, OthersStay
<1>3. calls'["feed"] = calls["feed"] BY <1>1 DEF OnlyCall
<1>4. FeedOK' BY <1>3 DEF IInv, FeedOK
<1>5. HistoryOK' BY DEF IInv, HistoryOK
<1>6. DbOK(db)' BY DEF IInv
<1> QED BY <1>2, <1>4, <1>5, <1>6 DEF IInv

LEMMA PipelineStays ==
  ASSUME IInv, Pipeline' = Pipeline
  PROVE  OrphansOK'
BY DEF IInv, OrphansOK

(* A page is never larger than MAX_BATCH_SIZE.                             *)
LEMMA RequestsOfReaders ==
  ASSUME NEW r \in Readers, get_trades_count(r) \/ get_trades(r)
  PROVE  \E request \in ReaderRequests : Run(r, request)
<1>1. CASE get_trades_count(r)
  BY <1>1 DEF get_trades_count, ReaderRequests
<1>2. CASE get_trades(r)
  <2>1. PICK start \in StartIndices, requested \in Limits :
          Run(r, TradesByRange(start, PageLimit(requested)))
    BY <1>2 DEF get_trades
  <2>2. PageLimit(requested) \in 0 .. MaxBatchSize
    <3>1. requested \in Nat /\ MaxBatchSize \in Nat BY FeedAssumption
    <3>2. {requested, MaxBatchSize} \in SUBSET Nat BY <3>1
    <3> DEFINE least == Min({requested, MaxBatchSize})
    <3>3. /\ least \in {requested, MaxBatchSize}
          /\ \A i \in {requested, MaxBatchSize} : least <= i
      BY <3>2, LeastNatural
    <3> HIDE DEF least
    <3>4. least \in 0 .. MaxBatchSize BY <3>1, <3>3
    <3> QED BY <3>4 DEF PageLimit, least
  <2> QED BY <2>1, <2>2 DEF ReaderRequests, TradesByRange
<1> QED BY <1>1, <1>2

LEMMA ReaderAsks ==
  ASSUME IInv, NEW r \in Readers, get_trades_count(r) \/ get_trades(r)
  PROVE  IInv'
<1>1. PICK request \in ReaderRequests : Run(r, request)
  BY RequestsOfReaders
<1> DEFINE v == [at |-> "sending", request |-> request]
<1>2. r \in Callers /\ request \in FeedRequests
  BY FeedAssumption, ReaderRequestsIn
<1>3. RedbInv(FeedRequests)' /\ Pipeline' = Pipeline /\ OnlyCall(r, v)
  BY <1>1, <1>2, RunInv DEF IInv
<1>4. ReplyFits(v) /\ v.request \in ReaderRequests BY DEF ReplyFits
<1>5. UNCHANGED <<db, feed, delivered, published, faults, redis_lost>>
  BY DEF get_trades_count, get_trades
<1> HIDE DEF v
<1> QED BY <1>3, <1>4, <1>5, PipelineStays, ReaderMoves

LEMMA RespondInv == ASSUME IInv, NEW r \in Readers, Respond(r) PROVE IInv'
<1>1. r \in Callers BY FeedAssumption
<1>2. RedbInv(FeedRequests)' /\ Pipeline' = Pipeline /\ OnlyCall(r, NoCall)
  BY <1>1, FinishInv DEF IInv, Respond
<1>3. ReplyFits(NoCall) /\ NoCall.at = "none" BY DEF ReplyFits, NoCall
<1>4. UNCHANGED <<db, feed, delivered, published, faults, redis_lost>>
  BY DEF Respond
<1> QED BY <1>2, <1>3, <1>4, PipelineStays, ReaderMoves

LEMMA DisconnectInv ==
  ASSUME IInv, NEW r \in Readers, Disconnect(r)
  PROVE  IInv'
<1>1. r \in Callers /\ r # Nobody BY FeedAssumption, RedbAssumption
<1>2. /\ RedbInv(FeedRequests)' /\ Pipeline' = Disowned(Pipeline, r)
      /\ OnlyCall(r, NoCall)
  BY <1>1, HangupInv DEF IInv, Disconnect
<1>3. ReplyFits(NoCall) /\ NoCall.at = "none" BY DEF ReplyFits, NoCall
<1>4. UNCHANGED <<db, feed, delivered, published, faults, redis_lost>>
  BY DEF Disconnect
<1>5. OrphansOK'
  <2> DEFINE p == Pipeline
             q == Disowned(p, r)
  <2>1. p \in Seq(Entries(FeedRequests)) BY PipelineShape DEF IInv, RedbInv
  <2>2. /\ DOMAIN q = DOMAIN p
        /\ \A i \in DOMAIN p :
             /\ q[i].request = p[i].request
             /\ q[i].from = IF p[i].from = r THEN Nobody ELSE p[i].from
    BY <1>1, <2>1, DisownedPlaces
  <2>3. \A i \in DOMAIN p :
          p[i].from = r => /\ calls[r].at # "none"
                           /\ p[i].request = calls[r].request
    <3> SUFFICES ASSUME NEW i \in DOMAIN p, p[i].from = r
                 PROVE  calls[r].at # "none" /\ p[i].request = calls[r].request
      OBVIOUS
    <3>1. OnItsWay(p, r, calls[r]) BY <1>1 DEF IInv, RedbInv, CallsInFlight
    <3>2. i \in Places(p, r) BY DEF Places
    <3> QED BY <3>1, <3>2 DEF OnItsWay
  <2>4. \A i \in DOMAIN p :
          p[i].from = Nobody => p[i].request \in ReaderRequests
    BY DEF IInv, OrphansOK
  <2> HIDE DEF p, q
  <2>5. \A i \in DOMAIN q :
          q[i].from = Nobody => q[i].request \in ReaderRequests
    BY <1>1, <2>2, <2>3, <2>4 DEF IInv, ReadersOK
  <2> QED BY <1>2, <2>5 DEF OrphansOK, p, q
<1> QED BY <1>2, <1>3, <1>4, <1>5, ReaderMoves

-----------------------------------------------------------------------------
(* The worker.                                                             *)

(* The call of the feed goes on, and is not answered but with an error.    *)
LEMMA CallGoesOn ==
  ASSUME NEW f, NEW call, NEW n, NEW ids, NEW k, FeedFits(f, call, n, ids, k),
         call.at \in {"sending", "awaiting"}, NEW v, v.at # "none",
         v.request = call.request, v.at = "replied" => v.reply = Err
  PROVE  FeedFits(f, v, n, ids, k)
<1>1. call # NoCall /\ call.at # "none" /\ call.at # "replied" BY DEF NoCall
<1>2. \A request : Waits(call, request) => Waits(v, request) BY DEF Waits
<1>3. v.at = "replied" => v.reply = Err /\ ~v.reply.ok BY DEF Err
<1>4. CASE f.at = "next_counter" BY <1>1, <1>2, <1>3, <1>4 DEF FeedFits
<1>5. CASE f.at = "check_id" BY <1>1, <1>2, <1>3, <1>5 DEF FeedFits
<1>6. CASE f.at \in {"store_id", "store_batch"}
  BY <1>1, <1>2, <1>6 DEF FeedFits
<1> QED BY <1>1, <1>4, <1>5, <1>6 DEF FeedFits

LEMMA SendStepInv ==
  ASSUME IInv, NEW c \in Callers, Send(c),
         UNCHANGED <<db, feed, delivered, published, faults, redis_lost>>
  PROVE  IInv'
<1> DEFINE v == [at |-> "awaiting", request |-> calls[c].request]
<1>1. /\ RedbInv(FeedRequests)' /\ calls[c].at = "sending" /\ OnlyCall(c, v)
      /\ Pipeline' = Append(Pipeline, Entry(c, calls[c].request))
  BY SendInv DEF IInv
<1>2. v.at = "awaiting" /\ v.request = calls[c].request /\ ReplyFits(v)
  BY DEF ReplyFits
<1> HIDE DEF v
<1>3. c = "feed" \/ v.request \in ReaderRequests
  BY <1>1, <1>2, FeedAssumption DEF IInv, ReadersOK
<1>4. RepliesOK' /\ ReadersOK' BY <1>1, <1>2, <1>3, OthersStay
<1>5. FeedOK'
  <2>1. CASE c = "feed"
    <3>1. calls'["feed"] = v BY <1>1, <2>1 DEF OnlyCall
    <3>2. FeedFits(feed, v, Total(db), DOMAIN db.trade_ids, Len(delivered))
      BY <1>1, <1>2, <2>1, CallGoesOn DEF IInv, FeedOK
    <3> QED BY <3>1, <3>2 DEF IInv, FeedOK
  <2>2. CASE c # "feed"
    <3>1. calls'["feed"] = calls["feed"]
      BY <1>1, <2>2, FeedAssumption DEF OnlyCall
    <3> QED BY <3>1 DEF IInv, FeedOK
  <2> QED BY <2>1, <2>2
<1>6. OrphansOK'
  <2> DEFINE p == Pipeline
             e == Entry(c, calls[c].request)
             q == Append(p, e)
  <2>1. p \in Seq(Entries(FeedRequests)) BY PipelineShape DEF IInv, RedbInv
  <2>2. e.from # Nobody BY RedbAssumption DEF Entry
  <2> HIDE DEF e, p
  <2>3. \A i \in DOMAIN q : (i \in DOMAIN p /\ q[i] = p[i]) \/ q[i] = e
    BY <2>1
  <2> HIDE DEF q
  <2>4. \A i \in DOMAIN p :
          p[i].from = Nobody => p[i].request \in ReaderRequests
    BY DEF IInv, OrphansOK, p
  <2>5. \A i \in DOMAIN q :
          q[i].from = Nobody => q[i].request \in ReaderRequests
    BY <2>2, <2>3, <2>4
  <2> QED BY <1>1, <2>5 DEF OrphansOK, p, q, e
<1>7. HistoryOK' /\ DbOK(db)' BY DEF IInv, HistoryOK
<1> QED BY <1>1, <1>4, <1>5, <1>6, <1>7 DEF IInv

LEMMA RedbStepInv == ASSUME IInv, RedbStep PROVE IInv'
<1>1. UNCHANGED <<db, feed, delivered, published, faults, redis_lost>>
  BY DEF RedbStep
<1>2. CASE WorkerRecv
  <2>1. RedbInv(FeedRequests)' /\ Pipeline' = Pipeline /\ calls' = calls
    BY <1>2, RecvInv DEF IInv
  <2>2. FeedOK' /\ ReadersOK' /\ RepliesOK'
    BY <1>1, <2>1 DEF IInv, FeedOK, ReadersOK, RepliesOK
  <2>3. HistoryOK' /\ DbOK(db)' BY <1>1 DEF IInv, HistoryOK
  <2> QED BY <2>1, <2>2, <2>3, PipelineStays DEF IInv
<1>3. ASSUME NEW c \in Callers, Send(c) PROVE IInv'
  BY <1>1, <1>3, SendStepInv
<1> QED BY <1>2, <1>3 DEF RedbStep

(* Whose request the worker holds, and which one it is.                    *)
LEMMA HeldRequest ==
  ASSUME IInv, worker # <<>>
  PROVE  \/ /\ worker[1].from = "feed" /\ calls["feed"].at = "awaiting"
            /\ worker[1].request = calls["feed"].request
         \/ worker[1].from # "feed" /\ worker[1].request \in ReaderRequests
<1> DEFINE c == worker[1].from
<1>1. /\ Pipeline[1] = worker[1] /\ 1 \in DOMAIN Pipeline
      /\ c \in Callers \cup {Nobody}
      /\ c # Nobody => /\ calls[c].at = "awaiting"
                       /\ calls[c].request = worker[1].request
  BY AnsweredCall DEF IInv
<1>2. "feed" \in Callers /\ "feed" # Nobody BY FeedAssumption, RedbAssumption
<1>3. CASE c = Nobody BY <1>1, <1>2, <1>3 DEF IInv, OrphansOK
<1>4. CASE c \in Readers
  BY <1>1, <1>4, FeedAssumption, RedbAssumption DEF IInv, ReadersOK
<1>5. CASE c = "feed" BY <1>1, <1>2, <1>5
<1> QED BY <1>1, <1>3, <1>4, <1>5, FeedAssumption

LEMMA FeedCallAfter ==
  ASSUME IInv, NEW reply, Reply(reply)
  PROVE  calls'["feed"] = IF worker[1].from = "feed"
                          THEN RepliedCall(worker[1].request, reply)
                          ELSE calls["feed"]
<1>1. "feed" \in Callers /\ "feed" # Nobody
  BY FeedAssumption, RedbAssumption
<1> QED BY <1>1, ReplyInv DEF IInv, OnlyCall

LEMMA WorkerInv ==
  ASSUME IInv, NEW reply, Reply(reply), ReplyOK(worker[1].request, reply),
         DbOK(db)', HistoryOK', FeedOK'
  PROVE  IInv'
<1> DEFINE c == worker[1].from
           v == RepliedCall(worker[1].request, reply)
<1>1. /\ RedbInv(FeedRequests)' /\ worker # <<>> /\ Pipeline' = Tail(Pipeline)
      /\ c = Nobody => calls' = calls
      /\ c # Nobody => OnlyCall(c, v)
  BY ReplyInv DEF IInv
<1>2. /\ Pipeline \in Seq(Entries(FeedRequests)) /\ Pipeline # <<>>
      /\ c # Nobody => c \in Callers
  BY <1>1, AnsweredCall DEF IInv
<1>3. v.at = "replied" /\ v.request = worker[1].request /\ ReplyFits(v)
  BY DEF ReplyFits, RepliedCall
<1>4. c = "feed" \/ v.request \in ReaderRequests BY <1>1, <1>3, HeldRequest
<1> HIDE DEF v, c
<1>5. RepliesOK' /\ ReadersOK'
  <2>1. CASE c = Nobody BY <1>1, <2>1 DEF IInv, RepliesOK, ReadersOK
  <2>2. CASE c # Nobody BY <1>1, <1>2, <1>3, <1>4, <2>2, OthersStay
  <2> QED BY <2>1, <2>2
<1>6. OrphansOK'
  <2> DEFINE p == Pipeline
             q == Tail(p)
  <2>1. \A i \in DOMAIN q : i + 1 \in DOMAIN p /\ q[i] = p[i + 1]
    BY <1>2, TailPlaces
  <2>2. \A i \in DOMAIN p :
          p[i].from = Nobody => p[i].request \in ReaderRequests
    BY DEF IInv, OrphansOK
  <2> HIDE DEF p, q
  <2>3. \A i \in DOMAIN q :
          q[i].from = Nobody => q[i].request \in ReaderRequests
    BY <2>1, <2>2
  <2> QED BY <1>1, <2>3 DEF OrphansOK, p, q
<1> QED BY <1>1, <1>5, <1>6 DEF IInv

(* What the worker answers to the feed.                                    *)
FeedAnswered(result) ==
  /\ DbOK(result.db) /\ ReplyOK(worker[1].request, Ok(result.value))
  /\ FeedTyped(feed, Total(result.db), Len(delivered))
  /\ FeedFits(feed, RepliedCall(worker[1].request, Ok(result.value)),
              Total(result.db), DOMAIN result.db.trade_ids, Len(delivered))

LEMMA Numbers ==
  ASSUME IInv
  PROVE  /\ Len(delivered) \in Nat /\ MaxDelivered \in Nat
         /\ Len(delivered) <= MaxDelivered
         /\ Total(db) \in Nat /\ Total(db) \in Indices
         /\ feed.todo \in Seq(1 .. Len(delivered)) /\ Len(feed.todo) \in Nat
         /\ feed.todo # <<>> => Len(feed.todo) >= 1
         /\ feed.index \in Indices
         /\ feed.batch \in Seq(GoodRows(Total(db)))
<1>1. Len(delivered) \in Nat BY DEF IInv, HistoryOK
<1>2. MaxDelivered \in Nat /\ Len(delivered) <= MaxDelivered
  BY FeedAssumption DEF IInv, HistoryOK
<1>3. Total(db) \in Indices BY TotalOf DEF IInv
<1>4. Total(db) \in Nat BY <1>2, <1>3 DEF Indices
<1>5. /\ feed.todo \in Seq(1 .. Len(delivered)) /\ feed.index \in Indices
      /\ feed.batch \in Seq(GoodRows(Total(db)))
  BY DEF IInv, FeedOK, FeedTyped
<1>6. Len(feed.todo) \in Nat /\ (feed.todo # <<>> => Len(feed.todo) >= 1)
  BY <1>5
<1> QED BY <1>1, <1>2, <1>3, <1>4, <1>5, <1>6

(* Rows of indices up to `n` are rows of indices up to a greater one.      *)
LEMMA FeedTypedGrows ==
  ASSUME NEW f, NEW n \in Nat, NEW m \in Nat, n <= m,
         NEW k \in Nat, FeedTyped(f, n, k)
  PROVE  FeedTyped(f, m, k)
<1>1. GoodRows(n) \subseteq GoodRows(m)
  <2> SUFFICES ASSUME NEW row \in GoodRows(n) PROVE row \in GoodRows(m)
    OBVIOUS
  <2>1. row \in Rows /\ row.id[1] = row.index /\ row.index <= n
    BY DEF GoodRows
  <2>2. row.index \in Indices BY <2>1 DEF Rows
  <2>3. row.index \in Nat BY <2>2, FeedAssumption DEF Indices
  <2>4. row.index <= m BY <2>1, <2>3
  <2> QED BY <2>1, <2>4 DEF GoodRows
<1> DEFINE small == GoodRows(n)
           large == GoodRows(m)
<1> HIDE DEF small, large
<1>2. Seq(small) \subseteq Seq(large) BY <1>1 DEF small, large
<1> QED BY <1>2 DEF FeedTyped, small, large

LEMMA CounterAnswered ==
  ASSUME IInv, feed.at = "next_counter", calls["feed"].at = "awaiting",
         worker[1].request = calls["feed"].request
  PROVE  FeedAnswered(Handled(db, worker[1].request))
<1> DEFINE n == Total(db)
           k == Len(delivered)
           result == Handled(db, NextTradeCounter)
           v == RepliedCall(NextTradeCounter, Ok(n + 1))
<1>1. /\ feed.todo # <<>> /\ n + Len(feed.todo) <= k
      /\ calls["feed"].request = NextTradeCounter
  BY DEF IInv, FeedOK, FeedFits, Waits
<1>2. /\ n \in Nat /\ n + 1 \in Nat /\ n + 1 \in Indices /\ n <= n + 1
      /\ k \in Nat /\ n + 1 + Len(feed.todo) - 1 <= k
  BY <1>1, Numbers DEF Indices
<1>3. /\ DbOK(result.db) /\ Total(result.db) = n + 1
      /\ result.db.trade_ids = db.trade_ids /\ result.value = n + 1
  BY <1>2, CountOK DEF IInv
<1>4. FeedTyped(feed, n + 1, k)
  BY <1>2, FeedTypedGrows DEF IInv, FeedOK
<1>5. Fresh(DOMAIN db.trade_ids, n + 1)
  <2> SUFFICES ASSUME NEW x \in DOMAIN db.trade_ids PROVE x[1] < n + 1
    BY DEF Fresh
  <2>1. x \in Ids /\ x[1] <= n BY DEF IInv, DbOK
  <2>2. x[1] \in Indices BY <2>1 DEF Ids
  <2>3. x[1] \in Nat BY <2>2, FeedAssumption DEF Indices
  <2> QED BY <1>2, <2>1, <2>3
<1>6. /\ v.at = "replied" /\ v.reply = Ok(n + 1)
      /\ Waits(v, NextTradeCounter)
  BY DEF RepliedCall, Waits
<1>7. ReplyOK(NextTradeCounter, Ok(n + 1))
  <2>1. n + 1 \in Indices \ {0} BY <1>2
  <2>2. NextTradeCounter.do = "NextTradeCounter" BY DEF NextTradeCounter
  <2> QED BY <2>1, <2>2 DEF ReplyOK, IsFeedReply, Ok
<1> HIDE DEF v, k, n, result
<1>8. FeedFits(feed, v, n + 1, DOMAIN db.trade_ids, k)
  BY <1>1, <1>2, <1>5, <1>6 DEF FeedFits
<1>9. worker[1].request = NextTradeCounter BY <1>1
<1> QED BY <1>3, <1>4, <1>7, <1>8, <1>9 DEF FeedAnswered, v, result, k

LEMMA CheckAnswered ==
  ASSUME IInv, feed.at = "check_id", calls["feed"].at = "awaiting",
         worker[1].request = calls["feed"].request
  PROVE  FeedAnswered(Handled(db, worker[1].request))
<1> DEFINE n == Total(db)
           k == Len(delivered)
           ids == DOMAIN db.trade_ids
<1>1. /\ feed.todo # <<>> /\ feed.index = n /\ Fresh(ids, n)
      /\ n + Len(feed.todo) - 1 <= k
      /\ \E x \in Ids : x[1] = n /\ Waits(calls["feed"], CheckIdExists(x))
  BY DEF IInv, FeedOK, FeedFits
<1>2. PICK x \in Ids : x[1] = n /\ Waits(calls["feed"], CheckIdExists(x))
  BY <1>1
<1> DEFINE request == CheckIdExists(x)
           v == RepliedCall(request, Ok(FALSE))
<1>3. worker[1].request = request BY <1>2 DEF Waits
<1>4. x \notin ids
  <2>1. n \in Nat BY Numbers
  <2> QED BY <1>1, <1>2, <2>1 DEF Fresh
<1>5. Handled(db, request) = Result(db, FALSE)
  <2>1. Handled(db, request) = Result(db, x \in ids)
    BY DEF Handled, CheckIdExists
  <2>2. (x \in ids) = FALSE BY <1>4
  <2> QED BY <2>1, <2>2
<1>6. /\ v.at = "replied" /\ v.reply = Ok(FALSE) /\ Waits(v, request)
  BY DEF RepliedCall, Waits
<1>7. ReplyOK(request, Ok(FALSE))
  BY DEF ReplyOK, IsFeedReply, Ok, CheckIdExists
<1> HIDE DEF v, n, k, ids
<1>8. FeedFits(feed, v, n, ids, k)
  BY <1>1, <1>2, <1>6 DEF FeedFits
<1>9. DbOK(db) /\ FeedTyped(feed, n, k) BY DEF IInv, FeedOK, n, k
<1> HIDE DEF request
<1>10. Result(db, FALSE).db = db /\ Result(db, FALSE).value = FALSE
  BY DEF Result
<1> QED BY <1>3, <1>5, <1>7, <1>8, <1>9, <1>10 DEF FeedAnswered, v, n, k, ids

LEMMA StoreIdAnswered ==
  ASSUME IInv, feed.at = "store_id", calls["feed"].at = "awaiting",
         worker[1].request = calls["feed"].request
  PROVE  FeedAnswered(Handled(db, worker[1].request))
<1> DEFINE n == Total(db)
           k == Len(delivered)
<1>1. /\ feed.todo # <<>> /\ feed.index = n /\ n + Len(feed.todo) - 1 <= k
      /\ \E x \in Ids :
           x[1] = n /\ Waits(calls["feed"], StoreIdWithIndex(x, n))
  BY DEF IInv, FeedOK, FeedFits
<1>2. PICK x \in Ids :
        x[1] = n /\ Waits(calls["feed"], StoreIdWithIndex(x, n))
  BY <1>1
<1> DEFINE request == StoreIdWithIndex(x, n)
           result == Handled(db, request)
           ids == DOMAIN result.db.trade_ids
           v == RepliedCall(request, Ok(result.value))
<1>3. worker[1].request = request BY <1>2 DEF Waits
<1>4. x[1] <= Total(db)
  <2>1. n \in Nat BY Numbers
  <2> QED BY <1>2, <2>1
<1>5. DbOK(result.db) /\ Total(result.db) = n /\ result.value = <<>>
  BY <1>2, <1>4, StoreIdOK DEF IInv
<1>6. v.at = "replied" /\ Waits(v, request) BY DEF RepliedCall, Waits
<1>7. ReplyOK(request, Ok(<<>>))
  BY DEF ReplyOK, IsFeedReply, Ok, StoreIdWithIndex
<1>8. FeedTyped(feed, n, k) BY DEF IInv, FeedOK
<1> HIDE DEF v, n, k, ids, result
<1>9. FeedFits(feed, v, n, ids, k) BY <1>1, <1>2, <1>6 DEF FeedFits
<1> HIDE DEF request
<1> QED BY <1>3, <1>5, <1>7, <1>8, <1>9 DEF FeedAnswered, v, k, ids, result

LEMMA StoreBatchAnswered ==
  ASSUME IInv, feed.at = "store_batch", calls["feed"].at = "awaiting",
         worker[1].request = calls["feed"].request
  PROVE  FeedAnswered(Handled(db, worker[1].request))
<1> DEFINE n == Total(db)
           k == Len(delivered)
           request == StoreTradeBatch(feed.batch)
           result == Handled(db, request)
           ids == DOMAIN result.db.trade_ids
           v == RepliedCall(request, Ok(result.value))
<1>1. /\ feed.batch # <<>> /\ n <= k /\ Waits(calls["feed"], request)
  BY DEF IInv, FeedOK, FeedFits
<1>2. worker[1].request = request BY <1>1 DEF Waits
<1>3. feed.batch \in Seq(GoodRows(Total(db))) BY Numbers
<1>4. DbOK(result.db) /\ Total(result.db) = n /\ result.value \in Nat
  BY <1>3, StoreBatchOK DEF IInv
<1>5. v.at = "replied" /\ Waits(v, request) BY DEF RepliedCall, Waits
<1>6. FeedTyped(feed, n, k) BY DEF IInv, FeedOK
<1> HIDE DEF n, k, ids, result
<1>7. ReplyOK(request, Ok(result.value))
  <2>1. request.do = "StoreTradeBatch" BY DEF StoreTradeBatch
  <2> HIDE DEF request
  <2> QED BY <1>4, <2>1 DEF ReplyOK, IsFeedReply, Ok
<1> HIDE DEF v
<1>8. FeedFits(feed, v, n, ids, k) BY <1>1, <1>5 DEF FeedFits
<1> HIDE DEF request
<1> QED BY <1>2, <1>4, <1>6, <1>7, <1>8 DEF FeedAnswered, v, k, ids, result

LEMMA WorkerHandleInv == ASSUME IInv, WorkerHandle PROVE IInv'
<1> DEFINE request == worker[1].request
           result == Handled(db, request)
<1>1. /\ worker # <<>> /\ db' = result.db /\ Reply(Ok(result.value))
      /\ UNCHANGED <<feed, delivered, published, faults, redis_lost>>
  BY DEF WorkerHandle
<1>2. HistoryOK' BY <1>1 DEF IInv, HistoryOK
<1>3. CASE /\ worker[1].from = "feed" /\ calls["feed"].at = "awaiting"
           /\ request = calls["feed"].request
  <2>1. feed.at \in {"next_counter", "check_id", "store_id", "store_batch"}
    BY <1>3 DEF IInv, FeedOK, FeedFits, NoCall
  <2>2. FeedAnswered(result)
    BY <1>3, <2>1, CounterAnswered, CheckAnswered, StoreIdAnswered,
       StoreBatchAnswered
  <2>3. calls'["feed"] = RepliedCall(request, Ok(result.value))
    <3> HIDE DEF result
    <3> QED BY <1>1, <1>3, FeedCallAfter
  <2> HIDE DEF result
  <2>4. FeedOK' BY <1>1, <2>2, <2>3 DEF FeedOK, FeedAnswered
  <2> QED BY <1>1, <1>2, <2>2, <2>4, WorkerInv DEF FeedAnswered
<1>4. CASE worker[1].from # "feed" /\ request \in ReaderRequests
  <2>1. result.db = db /\ ReplyOK(request, Ok(result.value))
    BY <1>4, ReaderRequestOK DEF IInv
  <2> HIDE DEF result
  <2>2. calls'["feed"] = calls["feed"] BY <1>1, <1>4, FeedCallAfter
  <2>3. FeedOK' /\ DbOK(db)' BY <1>1, <2>1, <2>2 DEF IInv, FeedOK
  <2> QED BY <1>1, <1>2, <2>1, <2>3, WorkerInv
<1> QED BY <1>1, <1>3, <1>4, HeldRequest

LEMMA WorkerFailsInv == ASSUME IInv, WorkerFails PROVE IInv'
<1> DEFINE request == worker[1].request
           v == RepliedCall(request, Err)
<1>1. /\ worker # <<>> /\ Reply(Err) /\ db' = db
      /\ UNCHANGED <<feed, delivered, published, redis_lost>>
      /\ faults < MaxFaults /\ faults' = faults + 1
  BY DEF WorkerFails, Reply
<1>2. HistoryOK'
  <2>1. MaxFaults \in Nat BY FeedAssumption
  <2>2. faults' \in 0 .. MaxFaults BY <1>1, <2>1 DEF IInv, HistoryOK
  <2> QED BY <1>1, <2>2 DEF IInv, HistoryOK
<1>3. FeedOK'
  <2>1. CASE /\ worker[1].from = "feed" /\ calls["feed"].at = "awaiting"
             /\ request = calls["feed"].request
    <3>1. calls'["feed"] = v BY <1>1, <2>1, FeedCallAfter
    <3>2. v.at = "replied" /\ v.request = request /\ v.reply = Err
      BY DEF RepliedCall
    <3> HIDE DEF v
    <3>3. FeedFits(feed, v, Total(db), DOMAIN db.trade_ids, Len(delivered))
      BY <2>1, <3>2, CallGoesOn DEF IInv, FeedOK
    <3> QED BY <1>1, <3>1, <3>3 DEF IInv, FeedOK
  <2>2. CASE worker[1].from # "feed"
    <3>1. calls'["feed"] = calls["feed"] BY <1>1, <2>2, FeedCallAfter
    <3> QED BY <1>1, <3>1 DEF IInv, FeedOK
  <2> QED BY <1>1, <2>1, <2>2, HeldRequest
<1>4. DbOK(db)' /\ ReplyOK(request, Err) BY <1>1 DEF IInv, ReplyOK
<1> QED BY <1>1, <1>2, <1>3, <1>4, WorkerInv

-----------------------------------------------------------------------------
(* The feed.                                                               *)

(* The feed goes on with another call, or with none.                       *)
LEMMA FeedMoves ==
  ASSUME IInv, NEW v, OnlyCall("feed", v), ReplyFits(v),
         RedbInv(FeedRequests)', Pipeline' = Pipeline, db' = db, HistoryOK',
         FeedTyped(feed', Total(db), Len(delivered')),
         FeedFits(feed', v, Total(db), DOMAIN db.trade_ids, Len(delivered'))
  PROVE  IInv'
<1>1. "feed" \in Callers BY FeedAssumption
<1>2. RepliesOK' /\ ReadersOK' BY <1>1, OthersStay
<1>3. OrphansOK' BY PipelineStays
<1>4. calls'["feed"] = v BY DEF OnlyCall
<1>5. FeedOK' BY <1>4 DEF FeedOK
<1>6. DbOK(db)' BY DEF IInv
<1> QED BY <1>2, <1>3, <1>5, <1>6 DEF IInv

LEMMA FeedAsks ==
  ASSUME IInv, NEW request \in FeedRequests, Run("feed", request),
         db' = db, HistoryOK',
         FeedTyped(feed', Total(db), Len(delivered')),
         \A v : v.at = "sending" /\ v.request = request =>
                  FeedFits(feed', v, Total(db), DOMAIN db.trade_ids,
                           Len(delivered'))
  PROVE  IInv'
<1> DEFINE v == [at |-> "sending", request |-> request]
<1>1. "feed" \in Callers BY FeedAssumption
<1>2. RedbInv(FeedRequests)' /\ Pipeline' = Pipeline /\ OnlyCall("feed", v)
  BY <1>1, RunInv DEF IInv
<1>3. v.at = "sending" /\ v.request = request /\ ReplyFits(v) BY DEF ReplyFits
<1> HIDE DEF v
<1> QED BY <1>2, <1>3, FeedMoves

LEMMA FeedRests ==
  ASSUME IInv, Finish("feed"), db' = db, HistoryOK',
         FeedTyped(feed', Total(db), Len(delivered')),
         feed'.at \in {"connecting", "reading", "publish"},
         Total(db) <= Len(delivered'),
         feed'.at = "publish" => feed'.batch # <<>>
  PROVE  IInv'
<1>1. "feed" \in Callers BY FeedAssumption
<1>2. RedbInv(FeedRequests)' /\ Pipeline' = Pipeline
      /\ OnlyCall("feed", NoCall)
  BY <1>1, FinishInv DEF IInv
<1>3. ReplyFits(NoCall) BY DEF ReplyFits, NoCall
<1>4. FeedFits(feed', NoCall, Total(db), DOMAIN db.trade_ids, Len(delivered'))
  BY DEF FeedFits
<1> QED BY <1>2, <1>3, <1>4, FeedMoves

(* A step of the feed that is not about the database.                      *)
LEMMA FeedAlone ==
  ASSUME IInv, UNCHANGED redb, db' = db, HistoryOK',
         feed.at \in {"connecting", "reading", "publish"},
         FeedTyped(feed', Total(db), Len(delivered)),
         feed'.at \in {"connecting", "reading", "publish"},
         feed'.at = "publish" => feed'.batch # <<>>,
         delivered' = delivered
  PROVE  IInv'
<1>1. RedbInv(FeedRequests)' /\ Pipeline' = Pipeline /\ calls' = calls
  BY DEF IInv, redb, RedbInv, RedbShape, CallsInFlight, Pipeline
<1>2. calls["feed"] = NoCall /\ Total(db) <= Len(delivered)
  BY DEF IInv, FeedOK, FeedFits
<1>3. FeedOK' BY <1>1, <1>2 DEF FeedOK, FeedFits
<1>4. RepliesOK' /\ ReadersOK' BY <1>1 DEF IInv, RepliesOK, ReadersOK
<1>5. DbOK(db)' BY DEF IInv
<1> QED BY <1>1, <1>3, <1>4, <1>5, PipelineStays DEF IInv

LEMMA AtRest ==
  ASSUME NEW place \in {"connecting", "reading"}, NEW redis \in BOOLEAN,
         NEW n, NEW k
  PROVE  /\ FeedTyped(FeedAt(place, redis), n, k)
         /\ FeedAt(place, redis).at = place
<1>1. 0 \in Indices BY FeedAssumption DEF Indices
<1> QED BY <1>1 DEF FeedTyped, FeedAt

LEMMA SocketInv ==
  ASSUME IInv, Connect \/ Disconnected \/ ReadOther
  PROVE  IInv'
<1>1. /\ feed.at \in {"connecting", "reading"}
      /\ \E redis \in BOOLEAN, place \in {"connecting", "reading"} :
           feed' = FeedAt(place, redis)
      /\ UNCHANGED redb /\ db' = db
      /\ UNCHANGED <<delivered, published, faults, redis_lost>>
  BY DEF Connect, Disconnected, ReadOther
<1>2. HistoryOK' BY <1>1 DEF IInv, HistoryOK
<1>3. FeedTyped(feed', Total(db), Len(delivered))
      /\ feed'.at \in {"connecting", "reading"}
  BY <1>1, AtRest
<1> QED BY <1>1, <1>2, <1>3, FeedAlone

LEMMA LoopInv ==
  ASSUME IInv, NEW todo \in Seq(1 .. Len(delivered')),
         NEW batch \in Seq(GoodRows(Total(db))), NEW redis \in BOOLEAN,
         Len(delivered') \in Nat, Total(db) + Len(todo) <= Len(delivered'),
         Loop(todo, batch, redis), db' = db, HistoryOK'
  PROVE  IInv'
<1> DEFINE n == Total(db)
           k == Len(delivered')
           ids == DOMAIN db.trade_ids
<1>1. n \in Nat /\ k \in Nat /\ Len(todo) \in Nat /\ n <= k
  BY Numbers
<1>2. 0 \in Indices BY FeedAssumption DEF Indices
<1>3. CASE /\ todo # <<>>
           /\ feed' = [FeedAt("next_counter", redis) EXCEPT !.todo = todo,
                                                            !.batch = batch]
           /\ Run("feed", NextTradeCounter)
  <2>1. feed' = [at |-> "next_counter", redis |-> redis, todo |-> todo,
                 index |-> 0, batch |-> batch]
    BY <1>3 DEF FeedAt
  <2>2. FeedTyped(feed', n, k) BY <1>2, <2>1 DEF FeedTyped
  <2>3. NextTradeCounter \in FeedRequests BY DEF FeedRequests
  <2>4. feed'.at = "next_counter" /\ feed'.todo = todo BY <2>1
  <2>5. ASSUME NEW v, v.at = "sending" /\ v.request = NextTradeCounter
        PROVE  FeedFits(feed', v, n, ids, k)
    BY <1>3, <2>4, <2>5 DEF FeedFits, Waits
  <2> HIDE DEF n, k, ids
  <2> QED BY <1>3, <2>2, <2>3, <2>5, FeedAsks DEF n, k, ids
<1>4. CASE /\ todo = <<>> /\ batch # <<>>
           /\ feed' = [FeedAt("store_batch", redis) EXCEPT !.batch = batch]
           /\ Run("feed", StoreTradeBatch(batch))
  <2> DEFINE request == StoreTradeBatch(batch)
  <2>1. feed' = [at |-> "store_batch", redis |-> redis, todo |-> <<>>,
                 index |-> 0, batch |-> batch]
    BY <1>4 DEF FeedAt
  <2>2. FeedTyped(feed', n, k) BY <1>2, <2>1 DEF FeedTyped
  <2>3. batch \in Seq(Rows)
    <3>1. GoodRows(n) \subseteq Rows BY DEF GoodRows
    <3> DEFINE good == GoodRows(n)
               rows == Rows
    <3> HIDE DEF good, rows
    <3>2. Seq(good) \subseteq Seq(rows) BY <3>1 DEF good, rows
    <3> QED BY <3>2 DEF good, rows
  <2>4. request \in FeedRequests BY <2>3 DEF FeedRequests, StoreTradeBatch
  <2>5. feed'.at = "store_batch" /\ feed'.batch = batch BY <2>1
  <2> HIDE DEF request
  <2>6. ASSUME NEW v, v.at = "sending" /\ v.request = request
        PROVE  FeedFits(feed', v, n, ids, k)
    BY <1>1, <1>4, <2>5, <2>6 DEF FeedFits, Waits, request
  <2> HIDE DEF n, k, ids
  <2>7. Run("feed", request) BY <1>4 DEF request
  <2> QED BY <2>2, <2>4, <2>6, <2>7, FeedAsks DEF n, k, ids
<1>5. CASE /\ todo = <<>> /\ batch = <<>> /\ feed' = FeedAt("reading", redis)
           /\ Finish("feed")
  BY <1>1, <1>5, AtRest, FeedRests
<1> QED BY <1>3, <1>4, <1>5 DEF Loop

LEMMA ReadTradesInv ==
  ASSUME IInv, NEW m \in TradeMessages, ReadTrades(m)
  PROVE  IInv'
<1> DEFINE trades == Complete(m)
           todo == [i \in 1 .. Len(trades) |-> Len(delivered) + i]
           k == Len(delivered) + Len(trades)
<1>1. trades \in Seq(Trades) BY FeedAssumption
<1>2. /\ feed.at = "reading" /\ k <= MaxDelivered
      /\ delivered' = delivered \o trades
      /\ UNCHANGED <<db, published, faults>>
  BY DEF ReadTrades
<1>3. PICK redis \in BOOLEAN : /\ redis_lost' = (redis_lost \/ ~redis)
                               /\ Loop(todo, <<>>, redis)
  BY DEF ReadTrades
<1>4. delivered \in Seq(Trades) /\ Len(delivered) \in Nat
      /\ Len(trades) \in Nat
  BY <1>1 DEF IInv, HistoryOK
<1> HIDE DEF trades
<1>5. delivered' \in Seq(Trades) /\ Len(delivered') = k
  BY <1>1, <1>2, <1>4
<1>6. redis_lost' \in BOOLEAN BY <1>3
<1>7. HistoryOK' BY <1>2, <1>5, <1>6 DEF IInv, HistoryOK
<1>8. todo \in Seq(1 .. k) /\ Len(todo) = Len(trades) BY <1>4
<1>9. Total(db) \in Nat /\ Total(db) <= Len(delivered)
  BY <1>2, Numbers DEF IInv, FeedOK, FeedFits
<1>10. <<>> \in Seq(GoodRows(Total(db))) OBVIOUS
<1>11. Total(db) + Len(todo) <= k /\ k \in Nat BY <1>4, <1>8, <1>9
<1> HIDE DEF todo, k
<1> QED BY <1>2, <1>3, <1>5, <1>7, <1>8, <1>10, <1>11, LoopInv

(* The id of the next trade.                                               *)
LEMMA NextId ==
  ASSUME IInv, feed.todo # <<>>, NEW index \in Indices
  PROVE  /\ TradeId(index) \in Ids /\ TradeId(index)[1] = index
         /\ Head(feed.todo) \in 1 .. Len(delivered)
<1>1. Head(feed.todo) \in 1 .. Len(delivered) BY Numbers
<1>2. delivered \in Seq(Trades) BY DEF IInv, HistoryOK
<1>3. delivered[Head(feed.todo)] \in Trades BY <1>1, <1>2
<1> QED BY <1>1, <1>3 DEF TradeId, Ids

LEMMA CountedInv == ASSUME IInv, Counted PROVE IInv'
<1> DEFINE n == Total(db)
           k == Len(delivered)
           ids == DOMAIN db.trade_ids
           x == TradeId(n)
           request == CheckIdExists(x)
<1>1. /\ feed.at = "next_counter"
      /\ calls["feed"].at = "replied" /\ calls["feed"].reply.ok
      /\ feed' = [feed EXCEPT !.at = "check_id", !.index = Value]
      /\ Run("feed", CheckIdExists(TradeId(Value)))
      /\ UNCHANGED <<db, delivered, faults, published, redis_lost>>
  BY DEF Counted, Answered
<1>2. /\ feed.todo # <<>> /\ calls["feed"].reply = Ok(n)
      /\ Fresh(ids, n) /\ n + Len(feed.todo) - 1 <= k
  BY <1>1 DEF IInv, FeedOK, FeedFits
<1>3. Value = n BY <1>2 DEF Value, Ok
<1>4. n \in Indices BY Numbers
<1>5. x \in Ids /\ x[1] = n BY <1>2, <1>4, NextId
<1>6. HistoryOK' BY <1>1 DEF IInv, HistoryOK
<1>7. FeedTyped(feed, n, k) BY DEF IInv, FeedOK
<1>8. /\ feed' = [feed EXCEPT !.at = "check_id", !.index = n]
      /\ Run("feed", request)
  BY <1>1, <1>3
<1> HIDE DEF x, n, k, ids
<1>9. /\ FeedTyped(feed', n, k) /\ feed'.at = "check_id"
      /\ feed'.index = n /\ feed'.todo = feed.todo
  BY <1>4, <1>7, <1>8 DEF FeedTyped
<1>10. request \in FeedRequests BY <1>5 DEF FeedRequests, CheckIdExists
<1> HIDE DEF request
<1>11. ASSUME NEW v, v.at = "sending" /\ v.request = request
       PROVE  FeedFits(feed', v, n, ids, k)
  BY <1>2, <1>5, <1>9, <1>11 DEF FeedFits, Waits, request
<1> QED
  BY <1>1, <1>6, <1>8, <1>9, <1>10, <1>11, FeedAsks DEF n, k, ids

LEMMA CheckedInv == ASSUME IInv, Checked PROVE IInv'
<1> DEFINE n == Total(db)
           k == Len(delivered)
           ids == DOMAIN db.trade_ids
           x == TradeId(n)
           request == StoreIdWithIndex(x, n)
<1>1. /\ feed.at = "check_id"
      /\ calls["feed"].at = "replied" /\ calls["feed"].reply.ok
      /\ UNCHANGED <<db, delivered, faults, published, redis_lost>>
  BY DEF Checked, Answered
<1>2. /\ feed.todo # <<>> /\ calls["feed"].reply \in {Err, Ok(FALSE)}
      /\ feed.index = n /\ n + Len(feed.todo) - 1 <= k
  BY <1>1 DEF IInv, FeedOK, FeedFits
<1>3. calls["feed"].reply = Ok(FALSE)
  <2>1. Err.ok = FALSE BY DEF Err
  <2> QED BY <1>1, <1>2, <2>1
<1>4. ~Value BY <1>3 DEF Value, Ok
<1>5. /\ feed' = [feed EXCEPT !.at = "store_id"]
      /\ Run("feed", request)
  BY <1>2, <1>4 DEF Checked, Known
<1>6. n \in Indices BY Numbers
<1>7. x \in Ids /\ x[1] = n BY <1>2, <1>6, NextId
<1>8. HistoryOK' BY <1>1 DEF IInv, HistoryOK
<1>9. FeedTyped(feed, n, k) BY DEF IInv, FeedOK
<1> HIDE DEF x, n, k, ids
<1>10. /\ FeedTyped(feed', n, k) /\ feed'.at = "store_id"
       /\ feed'.index = n /\ feed'.todo = feed.todo
  BY <1>2, <1>5, <1>9 DEF FeedTyped
<1>11. request \in FeedRequests
  BY <1>6, <1>7 DEF FeedRequests, StoreIdWithIndex
<1> HIDE DEF request
<1>12. ASSUME NEW v, v.at = "sending" /\ v.request = request
       PROVE  FeedFits(feed', v, n, ids, k)
  BY <1>2, <1>7, <1>10, <1>12 DEF FeedFits, Waits, request
<1> QED
  BY <1>1, <1>5, <1>8, <1>10, <1>11, <1>12, FeedAsks DEF n, k, ids

LEMMA TailOf ==
  ASSUME NEW S, NEW s \in Seq(S), s # <<>>
  PROVE  /\ Tail(s) \in Seq(S) /\ Len(s) \in Nat /\ Len(Tail(s)) = Len(s) - 1
         /\ Len(s) # 1 => Tail(s) # <<>>
<1>1. /\ Tail(s) \in Seq(S) /\ Len(s) \in Nat /\ Len(Tail(s)) = Len(s) - 1
  OBVIOUS
<1> DEFINE t == Tail(s)
           l == Len(s)
<1>2. l \in Nat /\ Len(t) = l - 1 BY <1>1
<1> HIDE DEF t, l
<1>3. t = <<>> => Len(t) = 0 OBVIOUS
<1>4. l # 1 => t # <<>> BY <1>2, <1>3
<1> QED BY <1>1, <1>4 DEF t, l

LEMMA StoredIdInv == ASSUME IInv, StoredId PROVE IInv'
<1> DEFINE n == Total(db)
           k == Len(delivered)
           trade == [id |-> TradeId(feed.index), index |-> feed.index,
                     nth |-> Head(feed.todo)]
           todo == Tail(feed.todo)
           batch == Append(feed.batch, trade)
<1>1. /\ feed.at = "store_id" /\ Loop(todo, batch, feed.redis)
      /\ UNCHANGED <<db, delivered, faults, published, redis_lost>>
  BY DEF StoredId, Answered
<1>2. /\ feed.todo # <<>> /\ feed.index = n /\ n + Len(feed.todo) - 1 <= k
  BY <1>1 DEF IInv, FeedOK, FeedFits
<1>3. /\ n \in Nat /\ n \in Indices /\ k \in Nat /\ k <= MaxDelivered
      /\ MaxDelivered \in Nat
      /\ feed.todo \in Seq(1 .. k) /\ feed.batch \in Seq(GoodRows(n))
  BY Numbers
<1>4. /\ todo \in Seq(1 .. k) /\ Len(todo) = Len(feed.todo) - 1
      /\ Len(feed.todo) \in Nat
  <2> DEFINE few == 1 .. k
  <2> HIDE DEF few
  <2>1. feed.todo \in Seq(few) BY <1>3 DEF few
  <2>2. /\ Tail(feed.todo) \in Seq(few) /\ Len(feed.todo) \in Nat
        /\ Len(Tail(feed.todo)) = Len(feed.todo) - 1
    BY <1>2, <2>1, TailOf
  <2> QED BY <2>2 DEF few
<1>5. trade \in GoodRows(n)
  <2>1. /\ trade.id \in Ids /\ trade.id[1] = n /\ trade.index = n
        /\ trade.nth \in 1 .. k
    BY <1>2, <1>3, NextId
  <2>2. trade.nth \in 1 .. MaxDelivered BY <1>3, <2>1
  <2>3. trade \in Rows BY <1>3, <2>1, <2>2 DEF Rows
  <2> HIDE DEF trade
  <2> QED BY <1>3, <2>1, <2>3 DEF GoodRows
<1> HIDE DEF trade
<1>6. batch \in Seq(GoodRows(n)) BY <1>3, <1>5
<1>7. HistoryOK' BY <1>1 DEF IInv, HistoryOK
<1>8. feed.redis \in BOOLEAN BY DEF IInv, FeedOK, FeedTyped
<1>9. n + Len(todo) <= k BY <1>2, <1>3, <1>4
<1> HIDE DEF todo, batch
<1>10. Len(delivered') = k BY <1>1
<1> QED BY <1>1, <1>3, <1>4, <1>6, <1>7, <1>8, <1>9, <1>10, LoopInv

(* At every place no more indices are handed out than trades delivered.    *)
LEMMA EnoughDelivered == ASSUME IInv PROVE Total(db) <= Len(delivered)
<1> DEFINE n == Total(db)
           k == Len(delivered)
           l == Len(feed.todo)
<1>1. n \in Nat /\ k \in Nat /\ l \in Nat /\ (feed.todo # <<>> => l >= 1)
  BY Numbers
<1>2. n <= k \/ (feed.todo # <<>> /\ n + l - 1 <= k) \/ n + l <= k
  BY DEF IInv, FeedOK, FeedFits
<1> HIDE DEF n, k, l
<1>3. n <= k BY <1>1, <1>2
<1> QED BY <1>3 DEF n, k

LEMMA StoredBatchInv == ASSUME IInv, StoredBatch PROVE IInv'
<1>1. /\ feed.at = "store_batch" /\ Finish("feed")
      /\ feed' = IF feed.redis THEN [feed EXCEPT !.at = "publish"]
                 ELSE FeedAt("reading", FALSE)
      /\ UNCHANGED <<db, delivered, faults, published, redis_lost>>
  BY DEF StoredBatch, Answered
<1>2. feed.batch # <<>> BY <1>1 DEF IInv, FeedOK, FeedFits
<1>3. HistoryOK' BY <1>1 DEF IInv, HistoryOK
<1>4. Total(db) <= Len(delivered) BY EnoughDelivered
<1>5. /\ FeedTyped(feed', Total(db), Len(delivered))
      /\ feed'.at \in {"reading", "publish"}
      /\ feed'.at = "publish" => feed'.batch # <<>>
  <2>1. CASE feed.redis
    <3>1. feed' = [feed EXCEPT !.at = "publish"] BY <1>1, <2>1
    <3>2. FeedTyped(feed, Total(db), Len(delivered)) BY DEF IInv, FeedOK
    <3> QED BY <1>2, <3>1, <3>2 DEF FeedTyped
  <2>2. CASE ~feed.redis BY <1>1, <2>2, AtRest
  <2> QED BY <2>1, <2>2
<1> QED BY <1>1, <1>3, <1>4, <1>5, FeedRests

LEMMA AbandonInv == ASSUME IInv, Abandon PROVE IInv'
<1>1. /\ calls["feed"].at = "replied" /\ ~calls["feed"].reply.ok
      /\ feed' = FeedAt("reading", feed.redis) /\ Finish("feed")
      /\ UNCHANGED <<db, delivered, published, faults, redis_lost>>
  BY DEF Abandon
<1>2. HistoryOK' BY <1>1 DEF IInv, HistoryOK
<1>3. Total(db) <= Len(delivered) BY EnoughDelivered
<1>4. feed.redis \in BOOLEAN BY DEF IInv, FeedOK, FeedTyped
<1>5. /\ FeedTyped(feed', Total(db), Len(delivered)) /\ feed'.at = "reading"
  BY <1>1, <1>4, AtRest
<1> QED BY <1>1, <1>2, <1>3, <1>5, FeedRests

(* What is published has an index.                                         *)
LEMMA PublishedOK ==
  ASSUME IInv, feed.at = "publish"
  PROVE  /\ feed.batch # <<>> /\ Head(feed.batch).index \in Indices
         /\ Append(published, Head(feed.batch).index) \in Seq(Indices)
<1>1. feed.batch # <<>> BY DEF IInv, FeedOK, FeedFits
<1> DEFINE good == GoodRows(Total(db))
<1>2. feed.batch \in Seq(good) BY Numbers
<1>3. \A row \in good : row.index \in Indices BY DEF GoodRows, Rows
<1> HIDE DEF good
<1>4. Head(feed.batch) \in good BY <1>1, <1>2
<1>5. Head(feed.batch).index \in Indices BY <1>3, <1>4
<1>6. published \in Seq(Indices) BY DEF IInv, HistoryOK
<1> QED BY <1>1, <1>5, <1>6

LEMMA PublishInv == ASSUME IInv, Publish PROVE IInv'
<1>1. /\ feed.at = "publish"
      /\ published' = Append(published, Head(feed.batch).index)
      /\ feed' = IF Len(feed.batch) = 1 THEN FeedAt("reading", feed.redis)
                 ELSE [feed EXCEPT !.batch = Tail(@)]
      /\ UNCHANGED <<redb, db, delivered, faults, redis_lost>>
  BY DEF Publish
<1>2. /\ feed.batch # <<>> /\ published' \in Seq(Indices)
  BY <1>1, PublishedOK
<1>3. HistoryOK' BY <1>1, <1>2 DEF IInv, HistoryOK
<1>4. feed.redis \in BOOLEAN /\ FeedTyped(feed, Total(db), Len(delivered))
  BY DEF IInv, FeedOK, FeedTyped
<1>5. /\ FeedTyped(feed', Total(db), Len(delivered))
      /\ feed'.at \in {"reading", "publish"}
      /\ feed'.at = "publish" => feed'.batch # <<>>
  <2>1. CASE Len(feed.batch) = 1 BY <1>1, <1>4, <2>1, AtRest
  <2>2. CASE Len(feed.batch) # 1
    <3> DEFINE good == GoodRows(Total(db))
    <3>1. feed.batch \in Seq(good) BY Numbers
    <3> HIDE DEF good
    <3>2. Tail(feed.batch) \in Seq(good) /\ Tail(feed.batch) # <<>>
      BY <1>2, <2>2, <3>1, TailOf
    <3>3. feed' = [feed EXCEPT !.batch = Tail(feed.batch)] BY <1>1, <2>2
    <3> QED BY <1>1, <1>4, <3>2, <3>3 DEF FeedTyped, good
  <2> QED BY <2>1, <2>2
<1> QED BY <1>1, <1>3, <1>5, FeedAlone

LEMMA PublishFailsInv == ASSUME IInv, PublishFails PROVE IInv'
<1>1. /\ feed.at = "publish" /\ redis_lost' = TRUE
      /\ published' \in {published,
                         Append(published, Head(feed.batch).index)}
      /\ \E redis \in BOOLEAN : feed' = FeedAt("reading", redis)
      /\ UNCHANGED <<redb, db, delivered, faults>>
  BY DEF PublishFails
<1>2. redis_lost' \in BOOLEAN BY <1>1
<1>3. published' \in Seq(Indices) BY <1>1, PublishedOK DEF IInv, HistoryOK
<1>4. HistoryOK' BY <1>1, <1>2, <1>3 DEF IInv, HistoryOK
<1>5. FeedTyped(feed', Total(db), Len(delivered)) /\ feed'.at = "reading"
  BY <1>1, AtRest
<1> QED BY <1>1, <1>4, <1>5, FeedAlone

LEMMA FeedStepInv == ASSUME IInv, FeedStep PROVE IInv'
BY CountedInv, CheckedInv, StoredIdInv, StoredBatchInv, AbandonInv, PublishInv,
   PublishFailsInv DEF FeedStep

-----------------------------------------------------------------------------
(* The process ends and starts on the same tables; an index that was       *)
(* handed out and not stored is not handed out again.                      *)
LEMMA ProcessRestarts == ASSUME IInv, Restart PROVE IInv'
<1>1. /\ faults < MaxFaults /\ faults' = faults + 1 /\ RedbRestart
      /\ db' = Open(db) /\ feed' = FeedAt("connecting", FALSE)
      /\ UNCHANGED <<delivered, published, redis_lost>>
  BY DEF Restart
<1>2. db' = db BY <1>1, OpenOK DEF IInv
<1>3. RedbInv(FeedRequests)' /\ Pipeline' = <<>> BY <1>1, RestartInv
<1>4. calls' = [c \in Callers |-> NoCall] BY <1>1 DEF RedbRestart
<1>5. ReadersOK' /\ RepliesOK'
  BY <1>4, FeedAssumption DEF ReadersOK, RepliesOK, ReplyFits, NoCall
<1>6. OrphansOK' BY <1>3 DEF OrphansOK
<1>7. HistoryOK'
  <2>1. MaxFaults \in Nat BY FeedAssumption
  <2>2. faults' \in 0 .. MaxFaults BY <1>1, <2>1 DEF IInv, HistoryOK
  <2> QED BY <1>1, <2>2 DEF IInv, HistoryOK
<1>8. FeedOK'
  <2>1. calls'["feed"] = NoCall BY <1>4, FeedAssumption
  <2>2. FeedTyped(feed', Total(db), Len(delivered)) /\ feed'.at = "connecting"
    BY <1>1, AtRest
  <2>3. Total(db) <= Len(delivered) BY EnoughDelivered
  <2> QED BY <1>1, <1>2, <2>1, <2>2, <2>3 DEF FeedOK, FeedFits
<1>9. DbOK(db)' BY <1>2 DEF IInv
<1> QED BY <1>3, <1>5, <1>6, <1>7, <1>8, <1>9 DEF IInv

LEMMA Unchanged == ASSUME IInv, UNCHANGED vars PROVE IInv'
<1>1. RedbInv(FeedRequests)' /\ Pipeline' = Pipeline /\ calls' = calls
  BY DEF IInv, vars, redb, RedbInv, RedbShape, CallsInFlight, Pipeline
<1>2. UNCHANGED <<db, feed, delivered, published, faults, redis_lost>>
  BY DEF vars
<1>3. FeedOK' /\ ReadersOK' /\ RepliesOK'
  BY <1>1, <1>2 DEF IInv, FeedOK, ReadersOK, RepliesOK
<1>4. HistoryOK' /\ DbOK(db)' BY <1>2 DEF IInv, HistoryOK
<1> QED BY <1>1, <1>3, <1>4, PipelineStays DEF IInv

LEMMA NextInv == ASSUME IInv, [Next]_vars PROVE IInv'
<1>1. CASE Connect \/ Disconnected \/ ReadOther BY <1>1, SocketInv
<1>2. CASE \E m \in TradeMessages : ReadTrades(m) BY <1>2, ReadTradesInv
<1>3. ASSUME NEW r \in Readers,
             \/ get_trades_count(r) \/ get_trades(r)
             \/ Respond(r) \/ Disconnect(r)
      PROVE  IInv'
  BY <1>3, ReaderAsks, RespondInv, DisconnectInv
<1>4. CASE WorkerHandle \/ WorkerFails
  BY <1>4, WorkerHandleInv, WorkerFailsInv
<1>5. CASE RedbStep \/ FeedStep \/ Restart \/ UNCHANGED vars
  BY <1>5, RedbStepInv, FeedStepInv, ProcessRestarts, Unchanged
<1> QED BY <1>1, <1>2, <1>3, <1>4, <1>5 DEF Next

LEMMA Invariance == Spec => []IInv
<1>1. Init => IInv BY IInvInit
<1>2. IInv /\ [Next]_vars => IInv' BY NextInv
<1> QED BY <1>1, <1>2, PTL DEF Spec

(* The type invariant that the runs check.                                 *)
LEMMA IInvTypes == ASSUME IInv PROVE TypeOK
<1>1. RedbTypeOK(FeedRequests, IsFeedReply)
  BY DEF IInv, RedbInv, RepliesOK, ReplyFits, ReplyOK, RedbTypeOK
<1>2. /\ db.trades_meta \in [{"total"} -> Indices]
      /\ DOMAIN db.trades \subseteq Indices
      /\ \A i \in DOMAIN db.trades : db.trades[i] \in Rows
      /\ DOMAIN db.trade_ids \subseteq Ids
      /\ \A x \in DOMAIN db.trade_ids : db.trade_ids[x] = x[1]
  BY DEF IInv, DbOK
<1>3. feed \in [at : {"connecting", "reading", "next_counter", "check_id",
                      "store_id", "store_batch", "publish"},
                redis : BOOLEAN, todo : Seq(1 .. MaxDelivered),
                index : Indices, batch : Seq(Rows)]
  <2> DEFINE good == GoodRows(Total(db))
             few == 1 .. Len(delivered)
             many == 1 .. MaxDelivered
             rows == Rows
  <2>1. good \subseteq rows BY DEF GoodRows
  <2>2. few \subseteq many BY Numbers
  <2>3. FeedTyped(feed, Total(db), Len(delivered)) BY DEF IInv, FeedOK
  <2> HIDE DEF good, few, many, rows
  <2>4. Seq(good) \subseteq Seq(rows) /\ Seq(few) \subseteq Seq(many)
    BY <2>1, <2>2
  <2> QED BY <2>3, <2>4 DEF FeedTyped, good, few, many, rows
<1>4. /\ delivered \in Seq(Trades) /\ Len(delivered) <= MaxDelivered
      /\ published \in Seq(Indices)
      /\ faults \in 0 .. MaxFaults /\ redis_lost \in BOOLEAN
  BY DEF IInv, HistoryOK
<1> QED BY <1>1, <1>2, <1>3, <1>4 DEF TypeOK

(* The types hold for every instance: every reply is of the type of its    *)
(* request, a row never has an index that was not handed out, and an id is *)
(* stored with the index it begins with.                                   *)
THEOREM TypesCorrect == Spec => []TypeOK
<1>1. IInv => TypeOK BY IInvTypes
<1> QED BY <1>1, Invariance, PTL

(* The calls of readers and feed are where their callers believe them to   *)
(* be, in any order of sends, answers, hang-ups, failures and restarts.    *)
THEOREM CallsCorrect == Spec => []CallsInFlight
<1>1. IInv => CallsInFlight BY DEF IInv, RedbInv
<1> QED BY <1>1, Invariance, PTL

(* CheckIdExists never finds the id of a trade about to be stored: it      *)
(* begins with an index that only this trade was given, also after         *)
(* failures and restarts.  So the branch of the code that skips a known    *)
(* trade is never taken.                                                   *)
THEOREM NoDuplicateCorrect == Spec => []NoDuplicateSeen
<1>1. ASSUME IInv PROVE NoDuplicateSeen
  <2> SUFFICES ASSUME feed.at = "check_id", calls["feed"].at = "replied"
               PROVE  ~(calls["feed"].reply.ok /\ calls["feed"].reply.value)
    BY DEF NoDuplicateSeen
  <2>1. calls["feed"].reply \in {Err, Ok(FALSE)}
    BY <1>1 DEF IInv, FeedOK, FeedFits
  <2>2. CASE calls["feed"].reply = Err BY <2>2 DEF Err
  <2>3. CASE calls["feed"].reply = Ok(FALSE) BY <2>3 DEF Ok
  <2> QED BY <2>1, <2>2, <2>3
<1> QED BY <1>1, Invariance, PTL

-----------------------------------------------------------------------------
(* The log: what the table, the batch and the trades still to come have to *)
(* do with each other.                                                     *)

(* The last index handed out is for a trade that is not in the batch yet.  *)
Numbered ==
  \/ feed.at \in {"check_id", "store_id"}
  \/ /\ feed.at = "next_counter" /\ calls["feed"].at = "replied"
     /\ calls["feed"].reply.ok

(* The rows of the batch are in the table.                                 *)
BatchStored ==
  \/ feed.at = "publish"
  \/ /\ feed.at = "store_batch" /\ calls["feed"].at = "replied"
     /\ calls["feed"].reply.ok

(* The table holds the trades in the order in which they were sent.        *)
RowsOK ==
  /\ Numbered => 1 <= Total(db)
  /\ \A i \in DOMAIN db.trades :
       /\ 1 <= i /\ i <= Total(db) /\ (Numbered => i < Total(db))
       /\ db.trades[i].nth <= Len(delivered)
  /\ \A i, j \in DOMAIN db.trades :
       i < j => db.trades[i].nth < db.trades[j].nth

Ordered(batch) ==
  \A j, k \in DOMAIN batch :
    j < k => batch[j].index < batch[k].index /\ batch[j].nth < batch[k].nth

AboveRows(row) ==
  \A i \in DOMAIN db.trades : i < row.index /\ db.trades[i].nth < row.nth

AbovePublished(row) == \A i \in Members(published) : i < row.index

BatchOK ==
  /\ Ordered(feed.batch)
  /\ \A row \in Members(feed.batch) :
       /\ 1 <= row.index /\ (Numbered => row.index < Total(db))
       /\ row.nth <= Len(delivered)
       /\ AbovePublished(row)
       /\ IF BatchStored
          THEN row.index \in DOMAIN db.trades /\ db.trades[row.index] = row
          ELSE AboveRows(row)

(* The trades of the loop come after all before them.                      *)
TodoFits(todo, batch) ==
  /\ \A j, k \in DOMAIN todo : j < k => todo[j] < todo[k]
  /\ \A k \in Members(todo) :
       /\ \A i \in DOMAIN db.trades : db.trades[i].nth < k
       /\ \A row \in Members(batch) : row.nth < k

TodoOK == TodoFits(feed.todo, feed.batch)

PublishedIn == Members(published) \subseteq DOMAIN db.trades

PlacesOK ==
  /\ feed.at \in {"connecting", "reading"} =>
       feed.todo = <<>> /\ feed.batch = <<>>
  /\ feed.at \in {"store_batch", "publish"} => feed.todo = <<>>

RedisOK ==
  feed.at \notin {"connecting", "reading"} /\ ~redis_lost => feed.redis

AnswersOK ==
  faults = 0 /\ calls["feed"].at = "replied" => calls["feed"].reply.ok

LogInv ==
  /\ RowsOK /\ BatchOK /\ TodoOK /\ PublishedIn
  /\ PlacesOK /\ RedisOK /\ AnswersOK /\ NoTradeLost

-----------------------------------------------------------------------------
(* Batches.                                                                *)

LEMMA AppendMembers ==
  ASSUME NEW S, NEW s \in Seq(S), NEW e \in S
  PROVE  /\ Members(Append(s, e)) = Members(s) \cup {e}
         /\ DOMAIN Append(s, e) = DOMAIN s \cup {Len(s) + 1}
         /\ \A i \in DOMAIN s : Append(s, e)[i] = s[i]
         /\ Append(s, e)[Len(s) + 1] = e
<1> DEFINE new == Append(s, e)
<1>1. /\ DOMAIN new = DOMAIN s \cup {Len(s) + 1}
      /\ \A i \in DOMAIN s : new[i] = s[i]
      /\ new[Len(s) + 1] = e
  OBVIOUS
<1> HIDE DEF new
<1>2. Members(new) = Members(s) \cup {e} BY <1>1 DEF Members
<1> QED BY <1>1, <1>2 DEF new

LEMMA TailMembers ==
  ASSUME NEW S, NEW s \in Seq(S), s # <<>>
  PROVE  /\ Members(s) = {Head(s)} \cup Members(Tail(s))
         /\ \A i \in DOMAIN Tail(s) :
              i + 1 \in DOMAIN s /\ Tail(s)[i] = s[i + 1] /\ i \in Nat
<1> DEFINE new == Tail(s)
           n   == Len(s)
<1>1. /\ n \in Nat \ {0} /\ Len(new) = n - 1 /\ new \in Seq(S)
      /\ \A i \in 1 .. n - 1 : new[i] = s[i + 1]
      /\ Head(s) = s[1]
  OBVIOUS
<1>2. DOMAIN s = 1 .. n /\ DOMAIN new = 1 .. n - 1 BY <1>1
<1> HIDE DEF new, n
<1>3. \A i \in 1 .. n : i = 1 \/ (i - 1 \in 1 .. n - 1 /\ s[i] = new[i - 1])
  BY <1>1
<1>4. \A i \in 1 .. n - 1 : i + 1 \in 1 .. n /\ i \in Nat BY <1>1
<1>5. 1 \in 1 .. n BY <1>1
<1>6. ASSUME NEW e \in Members(s) PROVE e = Head(s) \/ e \in Members(new)
  <2>1. PICK i \in 1 .. n : e = s[i] BY <1>2 DEF Members
  <2> QED BY <1>1, <1>2, <1>3, <2>1 DEF Members
<1>7. Head(s) \in Members(s) /\ Members(new) \subseteq Members(s)
  BY <1>1, <1>2, <1>4, <1>5 DEF Members
<1>8. Members(s) = {Head(s)} \cup Members(new) BY <1>6, <1>7
<1> QED BY <1>1, <1>2, <1>4, <1>8 DEF new

(* What the invariants compare are natural numbers.                        *)
LEMMA Typed ==
  ASSUME IInv
  PROVE  /\ \A i \in DOMAIN db.trades : i \in Nat /\ db.trades[i].nth \in Nat
         /\ \A row \in Members(feed.batch) :
              /\ row \in Rows /\ row.index \in Nat /\ row.nth \in Nat
              /\ row.index <= Total(db)
         /\ \A k \in Members(feed.todo) : k \in 1 .. Len(delivered) /\ k \in Nat
         /\ \A i \in Members(published) : i \in Nat
         /\ Total(db) \in Nat /\ Len(delivered) \in Nat
         /\ DOMAIN feed.batch \subseteq Nat /\ DOMAIN feed.todo \subseteq Nat
<1> DEFINE n == Total(db)
           few == 1 .. Len(delivered)
<1>1. Indices \subseteq Nat /\ 1 .. MaxDelivered \subseteq Nat
  BY FeedAssumption DEF Indices
<1>2. \A row \in Rows : row.index \in Nat /\ row.nth \in Nat
  BY <1>1 DEF Rows
<1>3. \A i \in DOMAIN db.trades : i \in Nat /\ db.trades[i].nth \in Nat
  BY <1>1, <1>2 DEF IInv, DbOK
<1>4. /\ feed.batch \in Seq(GoodRows(n)) /\ feed.todo \in Seq(few)
      /\ n \in Nat /\ Len(delivered) \in Nat
  BY Numbers
<1>5. \A k \in few : k \in Nat BY <1>4
<1> HIDE DEF few
<1>6. /\ DOMAIN feed.batch \subseteq Nat /\ DOMAIN feed.todo \subseteq Nat
      /\ \A i \in DOMAIN feed.batch : feed.batch[i] \in GoodRows(n)
      /\ \A i \in DOMAIN feed.todo : feed.todo[i] \in few
  BY <1>4
<1>7. \A row \in Members(feed.batch) : row \in Rows /\ row.index <= n
  BY <1>6 DEF Members, GoodRows
<1>8. \A k \in Members(feed.todo) : k \in few BY <1>6 DEF Members
<1>9. \A i \in Members(published) : i \in Nat
  <2>1. published \in Seq(Indices) BY DEF IInv, HistoryOK
  <2>2. \A k \in DOMAIN published : published[k] \in Indices BY <2>1
  <2> QED BY <1>1, <2>2 DEF Members
<1> QED BY <1>2, <1>3, <1>4, <1>5, <1>6, <1>7, <1>8, <1>9 DEF few

LEMMA OrderedAppended ==
  ASSUME NEW S, NEW batch \in Seq(S), NEW row \in S, Ordered(batch),
         \A other \in Members(batch) :
           other.index < row.index /\ other.nth < row.nth
  PROVE  Ordered(Append(batch, row))
<1> DEFINE new == Append(batch, row)
           n == Len(batch) + 1
<1>1. /\ DOMAIN new = DOMAIN batch \cup {n}
      /\ \A i \in DOMAIN batch : new[i] = batch[i]
      /\ new[n] = row
  BY AppendMembers
<1>2. n \in Nat /\ \A i \in DOMAIN batch : i \in Nat /\ i < n OBVIOUS
<1> HIDE DEF new, n
<1>3. \A i \in DOMAIN batch :
        batch[i].index < row.index /\ batch[i].nth < row.nth
  BY DEF Members
<1>4. ASSUME NEW j \in DOMAIN new, NEW k \in DOMAIN new, j < k
      PROVE  new[j].index < new[k].index /\ new[j].nth < new[k].nth
  <2>1. CASE k = n
    <3>1. j # n
      <4>1. ASSUME j = n PROVE FALSE
        <5>1. n < n /\ n \in Nat BY <1>2, <1>4, <2>1, <4>1
        <5> QED BY <5>1
      <4> QED BY <4>1
    <3> QED BY <1>1, <1>3, <2>1, <3>1
  <2>2. CASE k \in DOMAIN batch
    <3>1. j # n
      <4>1. ASSUME j = n PROVE FALSE
        <5>1. n < k /\ k < n /\ n \in Nat /\ k \in Nat
          BY <1>2, <1>4, <2>2, <4>1
        <5> QED BY <5>1
      <4> QED BY <4>1
    <3>2. j \in DOMAIN batch BY <1>1, <3>1
    <3> QED BY <1>1, <1>4, <2>2, <3>2 DEF Ordered
  <2> QED BY <1>1, <2>1, <2>2
<1> QED BY <1>4 DEF Ordered, new

LEMMA OrderedTail ==
  ASSUME NEW S, NEW batch \in Seq(S), batch # <<>>, Ordered(batch)
  PROVE  /\ Ordered(Tail(batch))
         /\ \A row \in Members(Tail(batch)) :
              Head(batch).index < row.index /\ Head(batch).nth < row.nth
<1> DEFINE new == Tail(batch)
<1>1. \A i \in DOMAIN new :
        i + 1 \in DOMAIN batch /\ new[i] = batch[i + 1] /\ i \in Nat
  BY TailMembers
<1>2. Head(batch) = batch[1] /\ 1 \in DOMAIN batch OBVIOUS
<1>3. \A i \in DOMAIN new : i \in Nat /\ i >= 1 OBVIOUS
<1> HIDE DEF new
<1>4. ASSUME NEW j \in DOMAIN new, NEW k \in DOMAIN new, j < k
      PROVE  new[j].index < new[k].index /\ new[j].nth < new[k].nth
  <2>1. j + 1 < k + 1 BY <1>1, <1>4
  <2> QED BY <1>1, <2>1 DEF Ordered
<1>5. ASSUME NEW i \in DOMAIN new
      PROVE  batch[1].index < new[i].index /\ batch[1].nth < new[i].nth
  <2>1. 1 < i + 1 BY <1>3
  <2> QED BY <1>1, <1>2, <2>1 DEF Ordered
<1> QED BY <1>2, <1>4, <1>5 DEF Ordered, Members, new

LEMMA OrderedDistinct ==
  ASSUME NEW batch, DOMAIN batch \subseteq Nat, Ordered(batch),
         \A row \in Members(batch) : row.index \in Nat
  PROVE  \A j, k \in DOMAIN batch : batch[j].index = batch[k].index => j = k
<1> SUFFICES ASSUME NEW j \in DOMAIN batch, NEW k \in DOMAIN batch,
                    batch[j].index = batch[k].index, j # k
             PROVE  FALSE
  OBVIOUS
<1>1. j \in Nat /\ k \in Nat OBVIOUS
<1>2. batch[j].index \in Nat /\ batch[k].index \in Nat BY DEF Members
<1>3. j < k \/ k < j BY <1>1
<1>4. batch[j].index < batch[k].index \/ batch[k].index < batch[j].index
  BY <1>3 DEF Ordered
<1> QED BY <1>2, <1>4

(* Storing a batch of new and different indices adds its rows.             *)
LEMMA StoreBatchKeeps ==
  ASSUME NEW d, DbOK(d), NEW batch,
         \A j, k \in DOMAIN batch : batch[j].index = batch[k].index => j = k
  PROVE  LET after == Handled(d, StoreTradeBatch(batch)).db
         IN /\ DOMAIN after.trades =
                 DOMAIN d.trades \cup {row.index : row \in Members(batch)}
            /\ \A row \in Members(batch) : after.trades[row.index] = row
            /\ \A i \in DOMAIN d.trades :
                 \/ after.trades[i] = d.trades[i]
                 \/ i \in {row.index : row \in Members(batch)}
<1> DEFINE Of(i)   == CHOOSE k \in DOMAIN batch : batch[k].index = i
           With(x) == CHOOSE k \in DOMAIN batch : batch[k].id = x
           rows == [i \in {batch[k].index : k \in DOMAIN batch}
                      |-> batch[Of(i)]]
           ids  == [x \in {batch[k].id : k \in DOMAIN batch}
                      |-> batch[With(x)].index]
           all_rows == InsertedAll(d.trades, rows)
           all_ids  == InsertedAll(d.trade_ids, ids)
           new == [d EXCEPT !.trades = all_rows, !.trade_ids = all_ids]
<1>1. Handled(d, StoreTradeBatch(batch)).db = new
  BY DEF Handled, StoreTradeBatch, StoreBatch, Result
<1>2. \A k \in DOMAIN batch : Of(batch[k].index) = k OBVIOUS
<1>3. \A k \in DOMAIN batch : rows[batch[k].index] = batch[k] BY <1>2
<1>4. DOMAIN rows = {row.index : row \in Members(batch)} BY DEF Members
<1>5. \A row \in Members(batch) :
        row.index \in DOMAIN rows /\ rows[row.index] = row
  BY <1>3, <1>4 DEF Members
<1> HIDE DEF rows, ids, all_ids
<1>6. /\ DOMAIN all_rows = DOMAIN d.trades \cup DOMAIN rows
      /\ \A i \in DOMAIN rows : all_rows[i] = rows[i]
      /\ \A i \in DOMAIN d.trades \ DOMAIN rows : all_rows[i] = d.trades[i]
  BY DEF InsertedAll
<1> HIDE DEF all_rows
<1>7. new.trades = all_rows BY DEF DbOK
<1> HIDE DEF new
<1> QED BY <1>1, <1>4, <1>5, <1>6, <1>7

-----------------------------------------------------------------------------
(* What most steps leave as it is.                                         *)

LEMMA SameView ==
  ASSUME LogInv, feed'.todo = feed.todo, feed'.batch = feed.batch,
         UNCHANGED <<delivered, published, redis_lost>>,
         db'.trades = db.trades, Total(db') = Total(db),
         Numbered' => Numbered, BatchStored' <=> BatchStored,
         faults' = 0 => faults = 0, PlacesOK', RedisOK', AnswersOK'
  PROVE  LogInv'
<1>1. StoredTrades' = StoredTrades /\ InHand' = InHand
  BY DEF StoredTrades, InHand
<1>2. RowsOK' BY DEF LogInv, RowsOK
<1>3. BatchOK' BY DEF LogInv, BatchOK, AboveRows, AbovePublished
<1>4. TodoOK' /\ PublishedIn'
  BY DEF LogInv, TodoOK, TodoFits, PublishedIn
<1>5. NoTradeLost' BY <1>1 DEF LogInv, NoTradeLost
<1> QED BY <1>2, <1>3, <1>4, <1>5 DEF LogInv

LEMMA SameFeed ==
  ASSUME LogInv, UNCHANGED <<db, feed, delivered, published, redis_lost>>,
         faults' = faults,
         \/ calls'["feed"] = calls["feed"]
         \/ calls["feed"].at # "replied" /\ calls'["feed"].at # "replied"
  PROVE  LogInv'
<1>1. (Numbered' => Numbered) /\ (BatchStored' <=> BatchStored)
  BY DEF Numbered, BatchStored
<1>2. PlacesOK' /\ RedisOK' /\ AnswersOK'
  BY DEF LogInv, PlacesOK, RedisOK, AnswersOK
<1> QED BY <1>1, <1>2, SameView

LEMMA ReadersKeep ==
  ASSUME IInv, LogInv, NEW r \in Readers,
         \/ get_trades_count(r) \/ get_trades(r)
         \/ Respond(r) \/ Disconnect(r)
  PROVE  LogInv'
<1>1. \E v : calls' = [calls EXCEPT ![r] = v]
  BY DEF get_trades_count, get_trades, Respond, Disconnect, Run, Finish, Hangup
<1>2. DOMAIN calls = Callers BY DEF IInv, RedbInv, RedbShape
<1>3. calls'["feed"] = calls["feed"] BY <1>1, <1>2, FeedAssumption
<1>4. UNCHANGED <<db, feed, delivered, published, faults, redis_lost>>
  BY DEF get_trades_count, get_trades, Respond, Disconnect
<1> QED BY <1>3, <1>4, SameFeed

LEMMA RedbStepKeeps == ASSUME IInv, LogInv, RedbStep PROVE LogInv'
<1>1. UNCHANGED <<db, feed, delivered, published, faults, redis_lost>>
  BY DEF RedbStep
<1>2. CASE WorkerRecv BY <1>1, <1>2, SameFeed DEF WorkerRecv
<1>3. ASSUME NEW c \in Callers, Send(c) PROVE LogInv'
  <2> DEFINE v == [at |-> "awaiting", request |-> calls[c].request]
  <2>1. calls[c].at = "sending" /\ OnlyCall(c, v)
    BY <1>3, SendInv DEF IInv
  <2>2. v.at # "replied" OBVIOUS
  <2> HIDE DEF v
  <2>3. \/ calls'["feed"] = calls["feed"]
        \/ calls["feed"].at # "replied" /\ calls'["feed"].at # "replied"
    BY <2>1, <2>2, FeedAssumption DEF OnlyCall
  <2> QED BY <1>1, <2>3, SameFeed
<1> QED BY <1>2, <1>3 DEF RedbStep

(* The feed drops what it has in hand, which is stored unless something    *)
(* failed.                                                                 *)
LEMMA HandsEmpty ==
  ASSUME LogInv, feed'.at \in {"connecting", "reading"},
         feed'.todo = <<>>, feed'.batch = <<>>,
         UNCHANGED <<db, delivered>>, AnswersOK', PublishedIn',
         faults' = 0 =>
           /\ faults = 0 /\ feed.todo = <<>>
           /\ \A row \in Members(feed.batch) : row.nth \in StoredTrades
           /\ ~redis_lost' => DOMAIN db.trades \subseteq Members(published')
  PROVE  LogInv'
<1>1. ~Numbered' /\ ~BatchStored' BY DEF Numbered, BatchStored
<1>2. Members(feed'.batch) = {} /\ Members(feed'.todo) = {} BY DEF Members
<1>3. RowsOK' BY <1>1 DEF LogInv, RowsOK
<1>4. BatchOK' /\ TodoOK' BY <1>2 DEF BatchOK, Ordered, TodoOK, TodoFits
<1>5. PlacesOK' /\ RedisOK' BY DEF PlacesOK, RedisOK
<1>6. ASSUME faults' = 0 PROVE StoredTrades = 1 .. Len(delivered)
  <2>1. StoredTrades \cup InHand = 1 .. Len(delivered)
    BY <1>6 DEF LogInv, NoTradeLost
  <2>2. InHand \subseteq StoredTrades BY <1>6 DEF InHand, Members
  <2> QED BY <2>1, <2>2
<1>7. StoredTrades' = StoredTrades /\ InHand' = {}
  BY <1>2 DEF StoredTrades, InHand
<1>8. NoTradeLost' BY <1>6, <1>7 DEF NoTradeLost
<1> QED BY <1>3, <1>4, <1>5, <1>8 DEF LogInv

LEMMA SocketKeeps ==
  ASSUME IInv, LogInv, Connect \/ Disconnected \/ ReadOther
  PROVE  LogInv'
<1>1. /\ feed.at \in {"connecting", "reading"}
      /\ \E redis \in BOOLEAN, place \in {"connecting", "reading"} :
           feed' = FeedAt(place, redis)
      /\ UNCHANGED redb /\ UNCHANGED <<db, delivered, published, faults,
                                       redis_lost>>
  BY DEF Connect, Disconnected, ReadOther
<1>2. /\ feed'.at \in {"connecting", "reading"}
      /\ feed'.todo = <<>> /\ feed'.batch = <<>>
  BY <1>1 DEF FeedAt
<1>3. feed.todo = <<>> /\ feed.batch = <<>> /\ Members(feed.batch) = {}
  BY <1>1 DEF LogInv, PlacesOK, Members
<1>4. AnswersOK' BY <1>1 DEF LogInv, AnswersOK, redb
<1>5. faults = 0 /\ ~redis_lost => DOMAIN db.trades \subseteq Members(published)
  BY <1>3 DEF LogInv, NoTradeLost
<1>6. PublishedIn' BY <1>1 DEF LogInv, PublishedIn
<1> QED BY <1>1, <1>2, <1>3, <1>4, <1>5, <1>6, HandsEmpty

-----------------------------------------------------------------------------
(* The worker.                                                             *)

(* A reply to a reader leaves the tables, one to the feed is read by it.   *)
LEMMA WorkerFailsKeeps == ASSUME IInv, LogInv, WorkerFails PROVE LogInv'
<1>1. /\ Reply(Err) /\ db' = db
      /\ UNCHANGED <<feed, delivered, published, redis_lost>>
      /\ faults' = faults + 1
  BY DEF WorkerFails
<1>2. faults' # 0
  <2>1. faults \in Nat
    <3>1. MaxFaults \in Nat BY FeedAssumption
    <3> QED BY <3>1 DEF IInv, HistoryOK
  <2> QED BY <1>1, <2>1
<1>3. /\ Numbered' => Numbered
      /\ BatchStored' <=> BatchStored
  <2>1. CASE worker[1].from = "feed"
    <3>1. calls["feed"].at = "awaiting"
      <4>1. worker # <<>> BY <1>1 DEF Reply
      <4> QED BY <2>1, <4>1, HeldRequest
    <3>2. calls'["feed"] = RepliedCall(worker[1].request, Err)
      BY <1>1, <2>1, FeedCallAfter
    <3>3. calls'["feed"].reply.ok = FALSE BY <3>2 DEF RepliedCall, Err
    <3> QED BY <1>1, <3>1, <3>3 DEF Numbered, BatchStored
  <2>2. CASE worker[1].from # "feed"
    <3>1. calls'["feed"] = calls["feed"] BY <1>1, <2>2, FeedCallAfter
    <3> QED BY <1>1, <3>1 DEF Numbered, BatchStored
  <2> QED BY <2>1, <2>2
<1>4. PlacesOK' /\ RedisOK' /\ AnswersOK'
  BY <1>1, <1>2 DEF LogInv, PlacesOK, RedisOK, AnswersOK
<1> QED BY <1>1, <1>2, <1>3, <1>4, SameView

(* The worker answered a reader, or nobody any more.                       *)
ReaderAnswered ==
  /\ worker[1].from # "feed" /\ worker[1].request \in ReaderRequests
  /\ Reply(Ok(Handled(db, worker[1].request).value))
  /\ calls'["feed"] = calls["feed"]
  /\ UNCHANGED <<db, feed, delivered, published, faults, redis_lost>>

(* The worker answered the feed, which waits at `place`.                   *)
AnsweredAt(place, result) ==
  /\ feed.at = place /\ \A r \in Readers : calls'[r] = calls[r]
  /\ calls["feed"].at = "awaiting" /\ calls'["feed"].at = "replied"
  /\ calls'["feed"].reply = Ok(result.value) /\ db' = result.db
  /\ UNCHANGED <<feed, delivered, published, faults, redis_lost>>

LEMMA WorkerCases ==
  ASSUME IInv, WorkerHandle
  PROVE  \/ ReaderAnswered
         \/ AnsweredAt("next_counter", Handled(db, NextTradeCounter))
         \/ \E x \in Ids :
              AnsweredAt("check_id", Handled(db, CheckIdExists(x)))
         \/ \E x \in Ids : /\ x[1] <= Total(db)
                           /\ AnsweredAt("store_id",
                                Handled(db, StoreIdWithIndex(x, x[1])))
         \/ AnsweredAt("store_batch",
                       Handled(db, StoreTradeBatch(feed.batch)))
<1> DEFINE request == worker[1].request
           result == Handled(db, request)
<1>1. /\ worker # <<>> /\ db' = result.db /\ Reply(Ok(result.value))
      /\ UNCHANGED <<feed, delivered, published, faults, redis_lost>>
  BY DEF WorkerHandle
<1>2. CASE /\ worker[1].from = "feed" /\ calls["feed"].at = "awaiting"
           /\ request = calls["feed"].request
  <2>1. calls'["feed"] = RepliedCall(request, Ok(result.value))
    <3> HIDE DEF result
    <3> QED BY <1>1, <1>2, FeedCallAfter
  <2>2. calls'["feed"].at = "replied"
        /\ calls'["feed"].reply = Ok(result.value)
    <3> HIDE DEF result
    <3> QED BY <2>1 DEF RepliedCall
  <2>3. AnsweredAt(feed.at, result)
    <3>1. \A r \in Readers : calls'[r] = calls[r]
      <4>1. /\ Callers = Readers \cup {"feed"} /\ "feed" \notin Readers
            /\ Nobody \notin Callers
        BY FeedAssumption, RedbAssumption
      <4> HIDE DEF result
      <4> QED BY <1>1, <1>2, <4>1, ReplyInv DEF IInv, OnlyCall
    <3> QED BY <1>1, <1>2, <2>2, <3>1 DEF AnsweredAt
  <2> HIDE DEF result
  <2>4. CASE feed.at = "next_counter"
    BY <1>2, <2>3, <2>4 DEF IInv, FeedOK, FeedFits, Waits, result
  <2>5. CASE feed.at = "check_id"
    BY <1>2, <2>3, <2>5 DEF IInv, FeedOK, FeedFits, Waits, result
  <2>6. CASE feed.at = "store_id"
    <3>1. PICK x \in Ids :
            /\ x[1] = Total(db)
            /\ request = StoreIdWithIndex(x, Total(db))
      BY <1>2, <2>6 DEF IInv, FeedOK, FeedFits, Waits
    <3>2. x[1] <= Total(db) /\ request = StoreIdWithIndex(x, x[1])
      BY <3>1, Numbers
    <3> QED BY <2>3, <2>6, <3>2 DEF result
  <2>7. CASE feed.at = "store_batch"
    BY <1>2, <2>3, <2>7 DEF IInv, FeedOK, FeedFits, Waits, result
  <2>8. feed.at \in {"next_counter", "check_id", "store_id", "store_batch"}
    BY <1>2 DEF IInv, FeedOK, FeedFits, NoCall
  <2> QED BY <2>4, <2>5, <2>6, <2>7, <2>8
<1>3. CASE worker[1].from # "feed" /\ request \in ReaderRequests
  <2>1. result.db = db BY <1>3, ReaderRequestOK DEF IInv
  <2> HIDE DEF result
  <2>2. calls'["feed"] = calls["feed"] BY <1>1, <1>3, FeedCallAfter
  <2>3. Reply(Ok(Handled(db, request).value)) BY <1>1 DEF result
  <2> QED BY <1>1, <1>3, <2>1, <2>2, <2>3 DEF ReaderAnswered
<1> QED BY <1>1, <1>2, <1>3, HeldRequest


LEMMA CounterKeeps ==
  ASSUME IInv, LogInv,
         AnsweredAt("next_counter", Handled(db, NextTradeCounter))
  PROVE  LogInv' /\ Total(db') = Total(db) + 1 /\ db'.trades = db.trades
<1> DEFINE result == Handled(db, NextTradeCounter)
           n == Total(db)
<1>1. /\ feed.at = "next_counter" /\ calls["feed"].at = "awaiting"
      /\ calls'["feed"].reply = Ok(result.value) /\ db' = result.db
      /\ UNCHANGED <<feed, delivered, published, faults, redis_lost>>
  BY DEF AnsweredAt
<1>2. n \in Nat BY Numbers
<1>3. n + 1 \in Indices
  <2>1. n + Len(feed.todo) <= Len(delivered) /\ feed.todo # <<>>
    BY <1>1 DEF IInv, FeedOK, FeedFits
  <2> QED BY <2>1, Numbers DEF Indices
<1>4. Total(result.db) = n + 1 /\ result.db.trades = db.trades
  BY <1>3, CountOK DEF IInv
<1>5. calls'["feed"].reply.ok BY <1>1 DEF Ok
<1>6. /\ \A row \in Members(feed.batch) : row.index \in Nat /\ row.index <= n
      /\ \A i \in DOMAIN db.trades : i \in Nat /\ i <= n
  BY Typed DEF LogInv, RowsOK
<1> HIDE DEF result, n
<1>7. /\ 1 <= n + 1
      /\ \A i \in Nat : i <= n => i < n + 1 /\ i <= n + 1
  BY <1>2
<1>8. Total(db') = n + 1 /\ db'.trades = db.trades BY <1>1, <1>4
<1>9. ~BatchStored /\ ~BatchStored' BY <1>1 DEF BatchStored
<1>10. RowsOK' BY <1>1, <1>6, <1>7, <1>8 DEF LogInv, RowsOK
<1>11. BatchOK'
  BY <1>1, <1>6, <1>7, <1>8, <1>9
  DEF LogInv, BatchOK, AboveRows, AbovePublished
<1>12. PlacesOK' /\ RedisOK' /\ AnswersOK'
  BY <1>1, <1>5 DEF LogInv, PlacesOK, RedisOK, AnswersOK
<1>13. TodoOK' /\ PublishedIn'
  BY <1>1, <1>8 DEF LogInv, TodoOK, TodoFits, PublishedIn
<1>14. NoTradeLost'
  BY <1>1, <1>8 DEF LogInv, NoTradeLost, StoredTrades, InHand
<1> QED BY <1>8, <1>10, <1>11, <1>12, <1>13, <1>14 DEF LogInv, n

LEMMA IdKeeps ==
  ASSUME IInv, LogInv, NEW result, NEW place \in {"check_id", "store_id"},
         AnsweredAt(place, result),
         result.db.trades = db.trades, Total(result.db) = Total(db)
  PROVE  LogInv' /\ Total(db') = Total(db) /\ db'.trades = db.trades
<1>1. /\ feed.at \in {"check_id", "store_id"}
      /\ calls'["feed"].reply = Ok(result.value) /\ db' = result.db
      /\ UNCHANGED <<feed, delivered, published, faults, redis_lost>>
  BY DEF AnsweredAt
<1>2. calls'["feed"].reply.ok BY <1>1 DEF Ok
<1>3. Numbered /\ ~BatchStored /\ ~BatchStored'
  BY <1>1 DEF Numbered, BatchStored
<1>4. PlacesOK' /\ RedisOK' /\ AnswersOK'
  BY <1>1, <1>2 DEF LogInv, PlacesOK, RedisOK, AnswersOK
<1> QED BY <1>1, <1>3, <1>4, SameView

LEMMA OrderOfNumbers ==
  \A x, y \in Nat :
    /\ ~(x < x) /\ (x < y => ~(y < x) /\ x # y)
    /\ ~(x < y) /\ x # y => y < x
OBVIOUS

(* The rows of a batch come after those in the table.                      *)
LEMMA BatchRecords ==
  ASSUME IInv, LogInv, ~BatchStored, NEW trades,
         DOMAIN trades = DOMAIN db.trades
                           \cup {row.index : row \in Members(feed.batch)},
         \A row \in Members(feed.batch) : trades[row.index] = row,
         \A i \in DOMAIN db.trades :
           \/ trades[i] = db.trades[i]
           \/ i \in {row.index : row \in Members(feed.batch)}
  PROVE  /\ \A i \in DOMAIN trades :
              1 <= i /\ i <= Total(db) /\ trades[i].nth <= Len(delivered)
         /\ \A i \in DOMAIN db.trades : trades[i] = db.trades[i]
         /\ \A i \in DOMAIN db.trades, j \in DOMAIN trades \ DOMAIN db.trades :
              i < j
         /\ \A i, j \in DOMAIN trades : i < j => trades[i].nth < trades[j].nth
<1> DEFINE rows == Members(feed.batch)
           indices == {row.index : row \in rows}
<1>1. \A row \in rows : AboveRows(row) BY DEF LogInv, BatchOK
<1>2. /\ \A i \in DOMAIN db.trades : i \in Nat /\ db.trades[i].nth \in Nat
      /\ \A row \in rows : row.index \in Nat /\ row.nth \in Nat
      /\ DOMAIN feed.batch \subseteq Nat
  BY Typed
<1>3. \A row \in rows : row.index \notin DOMAIN db.trades
  <2> SUFFICES ASSUME NEW row \in rows, row.index \in DOMAIN db.trades
               PROVE  FALSE
    OBVIOUS
  <2>1. row.index < row.index /\ row.index \in Nat
    BY <1>1, <1>2 DEF AboveRows
  <2> QED BY <2>1, OrderOfNumbers
<1>4. \A i \in DOMAIN db.trades : trades[i] = db.trades[i] BY <1>3
<1>5. \A i \in DOMAIN trades :
        1 <= i /\ i <= Total(db) /\ trades[i].nth <= Len(delivered)
  <2>1. \A row \in rows :
          /\ 1 <= row.index /\ row.index <= Total(db)
          /\ row.nth <= Len(delivered)
    BY Typed DEF LogInv, BatchOK
  <2> QED BY <1>4, <2>1 DEF LogInv, RowsOK
<1>6. \A i \in DOMAIN db.trades, j \in DOMAIN trades \ DOMAIN db.trades : i < j
  BY <1>1 DEF AboveRows
<1>7. ASSUME NEW i \in DOMAIN trades, NEW j \in DOMAIN trades, i < j
      PROVE  trades[i].nth < trades[j].nth
  <2>1. CASE i \in DOMAIN db.trades /\ j \in DOMAIN db.trades
    BY <1>4, <1>7, <2>1 DEF LogInv, RowsOK
  <2>2. CASE i \in DOMAIN db.trades /\ j \in indices
    BY <1>1, <1>4, <2>2 DEF AboveRows
  <2>3. CASE i \in indices /\ j \in DOMAIN db.trades
    <3>1. j < i /\ i \in Nat /\ j \in Nat BY <1>1, <1>2, <2>3 DEF AboveRows
    <3> QED BY <1>7, <3>1, OrderOfNumbers
  <2>4. CASE i \in indices /\ j \in indices
    <3>1. PICK a \in DOMAIN feed.batch :
            /\ i = feed.batch[a].index /\ feed.batch[a] \in rows
            /\ trades[i] = feed.batch[a]
      BY <2>4 DEF Members
    <3>2. PICK b \in DOMAIN feed.batch :
            /\ j = feed.batch[b].index /\ feed.batch[b] \in rows
            /\ trades[j] = feed.batch[b]
      BY <2>4 DEF Members
    <3>3. a \in Nat /\ b \in Nat /\ i \in Nat /\ j \in Nat
      BY <1>2, <3>1, <3>2
    <3>4. ~(b < a) /\ a # b
      <4>1. b < a => j < i BY <3>1, <3>2 DEF LogInv, BatchOK, Ordered
      <4>2. ~(j < i) /\ i # j BY <1>7, <3>3, OrderOfNumbers
      <4> QED BY <3>1, <3>2, <4>1, <4>2
    <3>5. a < b BY <3>3, <3>4, OrderOfNumbers
    <3> QED BY <3>1, <3>2, <3>5 DEF LogInv, BatchOK, Ordered
  <2> QED BY <2>1, <2>2, <2>3, <2>4
<1> QED BY <1>4, <1>5, <1>6, <1>7

Recorded ==
  /\ DOMAIN db.trades \subseteq DOMAIN db'.trades
  /\ \A i \in DOMAIN db'.trades : 1 <= i /\ i <= Total(db)
  /\ \A i \in DOMAIN db.trades : db'.trades[i] = db.trades[i]
  /\ \A i, j \in DOMAIN db'.trades :
       i < j => db'.trades[i].nth < db'.trades[j].nth
  /\ \A i \in DOMAIN db.trades, j \in DOMAIN db'.trades \ DOMAIN db.trades :
       i < j

LEMMA BatchKeeps ==
  ASSUME IInv, LogInv,
         AnsweredAt("store_batch", Handled(db, StoreTradeBatch(feed.batch)))
  PROVE  LogInv' /\ Total(db') = Total(db) /\ Recorded
<1> DEFINE result == Handled(db, StoreTradeBatch(feed.batch))
           n == Total(db)
           indices == {row.index : row \in Members(feed.batch)}
<1>1. /\ feed.at = "store_batch" /\ calls["feed"].at = "awaiting"
      /\ calls'["feed"].at = "replied"
      /\ calls'["feed"].reply = Ok(result.value) /\ db' = result.db
      /\ UNCHANGED <<feed, delivered, published, faults, redis_lost>>
  BY DEF AnsweredAt
<1>2. calls'["feed"].reply.ok BY <1>1 DEF Ok
<1>3. feed.batch \in Seq(GoodRows(n)) BY Numbers
<1>4. Total(result.db) = n BY <1>3, StoreBatchOK DEF IInv
<1>5. \A j, k \in DOMAIN feed.batch :
        feed.batch[j].index = feed.batch[k].index => j = k
  <2>1. /\ DOMAIN feed.batch \subseteq Nat
        /\ \A row \in Members(feed.batch) : row.index \in Nat
    BY Typed
  <2>2. Ordered(feed.batch) BY DEF LogInv, BatchOK
  <2> QED BY <2>1, <2>2, OrderedDistinct
<1>6. /\ DOMAIN result.db.trades = DOMAIN db.trades \cup indices
      /\ \A row \in Members(feed.batch) : result.db.trades[row.index] = row
      /\ \A i \in DOMAIN db.trades :
           result.db.trades[i] = db.trades[i] \/ i \in indices
  BY <1>5, StoreBatchKeeps DEF IInv
<1>7. BatchStored' /\ ~BatchStored /\ ~Numbered' /\ feed.todo = <<>>
  BY <1>1, <1>2 DEF BatchStored, Numbered, LogInv, PlacesOK
<1> HIDE DEF result
<1> DEFINE trades == db'.trades
<1>8. /\ DOMAIN trades = DOMAIN db.trades \cup indices
      /\ \A row \in Members(feed.batch) : trades[row.index] = row
      /\ \A i \in DOMAIN db.trades :
           trades[i] = db.trades[i] \/ i \in indices
  BY <1>1, <1>6
<1> HIDE DEF trades
<1>9. /\ \A i \in DOMAIN trades :
           1 <= i /\ i <= Total(db) /\ trades[i].nth <= Len(delivered)
      /\ \A i \in DOMAIN db.trades : trades[i] = db.trades[i]
      /\ \A i \in DOMAIN db.trades, j \in DOMAIN trades \ DOMAIN db.trades :
           i < j
      /\ \A i, j \in DOMAIN trades : i < j => trades[i].nth < trades[j].nth
  BY <1>7, <1>8, BatchRecords
<1>10. Recorded BY <1>8, <1>9 DEF Recorded, trades
<1>11. Total(db') = n BY <1>1, <1>4
<1>12. RowsOK' BY <1>1, <1>7, <1>9, <1>11 DEF RowsOK, trades
<1>13. StoredTrades' = StoredTrades \cup {row.nth : row \in Members(feed.batch)}
  <2>1. \A row \in Members(feed.batch) :
          row.index \in DOMAIN trades /\ trades[row.index] = row
    BY <1>8
  <2>2. \A i \in DOMAIN trades :
          \/ i \in DOMAIN db.trades
          \/ \E row \in Members(feed.batch) : i = row.index
    BY <1>8
  <2>3. DOMAIN db.trades \subseteq DOMAIN trades BY <1>8
  <2>4. StoredTrades' = {trades[i].nth : i \in DOMAIN trades}
    BY DEF StoredTrades, trades
  <2>5. \A i \in DOMAIN db.trades : trades[i] = db.trades[i] BY <1>9
  <2>6. \A row \in Members(feed.batch) : row.nth \in StoredTrades'
    BY <2>1, <2>4
  <2>7. \A i \in DOMAIN trades :
          \/ trades[i].nth \in StoredTrades
          \/ trades[i].nth \in {row.nth : row \in Members(feed.batch)}
    BY <2>1, <2>2, <2>5 DEF StoredTrades
  <2>8. StoredTrades \subseteq StoredTrades'
    BY <2>3, <2>4, <2>5 DEF StoredTrades
  <2> QED BY <2>4, <2>6, <2>7, <2>8
<1>14. BatchOK'
  BY <1>1, <1>7, <1>8 DEF LogInv, BatchOK, AbovePublished, trades
<1>15. TodoOK' BY <1>1, <1>7 DEF TodoOK, TodoFits, Members
<1>16. PublishedIn' BY <1>1, <1>8 DEF LogInv, PublishedIn, trades
<1>17. PlacesOK' /\ RedisOK' /\ AnswersOK'
  BY <1>1, <1>2 DEF LogInv, PlacesOK, RedisOK, AnswersOK
<1>18. NoTradeLost'
  BY <1>1, <1>8, <1>13 DEF LogInv, NoTradeLost, InHand, trades
<1> QED BY <1>10, <1>11, <1>12, <1>14, <1>15, <1>16, <1>17, <1>18 DEF LogInv

LEMMA WorkerHandleKeeps == ASSUME IInv, LogInv, WorkerHandle PROVE LogInv'
<1>1. ASSUME NEW x \in Ids,
             AnsweredAt("check_id", Handled(db, CheckIdExists(x)))
      PROVE  LogInv'
  <2> DEFINE result == Handled(db, CheckIdExists(x))
  <2>1. result.db = db BY DEF Handled, CheckIdExists, Result
  <2> HIDE DEF result
  <2>2. AnsweredAt("check_id", result) BY <1>1 DEF result
  <2> QED BY <2>1, <2>2, IdKeeps
<1>2. ASSUME NEW x \in Ids, x[1] <= Total(db),
             AnsweredAt("store_id", Handled(db, StoreIdWithIndex(x, x[1])))
      PROVE  LogInv'
  <2> DEFINE result == Handled(db, StoreIdWithIndex(x, x[1]))
  <2>1. result.db.trades = db.trades /\ Total(result.db) = Total(db)
    BY <1>2, StoreIdOK DEF IInv
  <2> HIDE DEF result
  <2>2. AnsweredAt("store_id", result) BY <1>2 DEF result
  <2> QED BY <2>1, <2>2, IdKeeps
<1>3. CASE ReaderAnswered BY <1>3, SameFeed DEF ReaderAnswered
<1> QED BY <1>1, <1>2, <1>3, WorkerCases, CounterKeeps, BatchKeeps

-----------------------------------------------------------------------------
(* The feed.                                                               *)

(* The loop goes on to the next trade, to the batch or to the socket.      *)
LEMMA LoopKeeps ==
  ASSUME IInv, LogInv, NEW todo, NEW batch, NEW redis,
         Loop(todo, batch, redis), UNCHANGED <<db, faults, published>>,
         Len(delivered') \in Nat, Len(delivered) <= Len(delivered'),
         Ordered(batch), TodoFits(todo, batch),
         \A row \in Members(batch) :
           /\ 1 <= row.index /\ row.nth <= Len(delivered')
           /\ AbovePublished(row) /\ AboveRows(row),
         ~redis_lost' => redis,
         faults = 0 =>
           /\ StoredTrades \cup Members(todo)
                \cup {row.nth : row \in Members(batch)}
              = 1 .. Len(delivered')
           /\ ~redis_lost' =>
                DOMAIN db.trades \subseteq
                  Members(published) \cup {row.index : row \in Members(batch)}
  PROVE  LogInv'
<1>1. /\ feed'.at \in {"next_counter", "store_batch", "reading"}
      /\ feed'.todo = todo /\ feed'.batch = batch /\ feed'.redis = redis
      /\ feed'.at = "reading" => todo = <<>> /\ batch = <<>>
      /\ feed'.at = "store_batch" => todo = <<>>
  <2>1. CASE feed' = [FeedAt("next_counter", redis) EXCEPT !.todo = todo,
                                                           !.batch = batch]
    BY <2>1 DEF FeedAt
  <2>2. CASE /\ todo = <<>>
             /\ feed' = [FeedAt("store_batch", redis) EXCEPT !.batch = batch]
    BY <2>2 DEF FeedAt
  <2>3. CASE /\ todo = <<>> /\ batch = <<>>
             /\ feed' = FeedAt("reading", redis)
    BY <2>3 DEF FeedAt
  <2> QED BY <2>1, <2>2, <2>3 DEF Loop
<1>2. calls'["feed"].at \in {"sending", "none"}
  <2>1. "feed" \in DOMAIN calls
    BY FeedAssumption DEF IInv, RedbInv, RedbShape
  <2> QED BY <2>1 DEF Loop, Run, Finish, NoCall
<1>3. ~Numbered' /\ ~BatchStored' BY <1>1, <1>2 DEF Numbered, BatchStored
<1>4. RowsOK'
  <2>1. \A i \in DOMAIN db.trades : db.trades[i].nth <= Len(delivered')
    <3>1. \A i \in DOMAIN db.trades :
            db.trades[i].nth \in Nat /\ db.trades[i].nth <= Len(delivered)
      BY Typed DEF LogInv, RowsOK
    <3>2. Len(delivered) \in Nat BY Typed
    <3> QED BY <3>1, <3>2
  <2> QED BY <1>3, <2>1 DEF LogInv, RowsOK
<1>5. BatchOK' BY <1>1, <1>3 DEF BatchOK, AbovePublished, AboveRows
<1>6. PlacesOK' /\ RedisOK' /\ AnswersOK'
  BY <1>1, <1>2 DEF PlacesOK, RedisOK, AnswersOK
<1>7. TodoOK' /\ PublishedIn'
  BY <1>1 DEF LogInv, TodoOK, TodoFits, PublishedIn
<1>8. NoTradeLost' BY <1>1 DEF NoTradeLost, StoredTrades, InHand
<1> QED BY <1>4, <1>5, <1>6, <1>7, <1>8 DEF LogInv


(* The next trades of the exchange come after all before.                  *)
LEMMA ReadTradesKeeps ==
  ASSUME IInv, LogInv, NEW m \in TradeMessages, ReadTrades(m)
  PROVE  LogInv'
<1> DEFINE trades == Complete(m)
           l == Len(trades)
           n == Len(delivered)
           todo == [i \in 1 .. l |-> n + i]
<1>1. trades \in Seq(Trades) BY FeedAssumption
<1>2. /\ feed.at = "reading" /\ delivered' = delivered \o trades
      /\ UNCHANGED <<db, published, faults>>
  BY DEF ReadTrades
<1>3. PICK redis \in BOOLEAN : /\ redis_lost' = (redis_lost \/ ~redis)
                               /\ Loop(todo, <<>>, redis)
  BY DEF ReadTrades
<1>4. delivered \in Seq(Trades) BY DEF IInv, HistoryOK
<1> HIDE DEF trades
<1>5. Len(delivered') = n + l /\ n \in Nat /\ l \in Nat BY <1>1, <1>2, <1>4
<1> HIDE DEF n, l
<1>6. 1 .. n \cup Members(todo) = 1 .. Len(delivered')
  <2>1. Members(todo) = {n + i : i \in 1 .. l} BY DEF Members
  <2>2. ASSUME NEW j \in 1 .. Len(delivered')
        PROVE  j \in 1 .. n \/ j \in {n + i : i \in 1 .. l}
    <3>1. j \in 1 .. n \/ (j - n \in 1 .. l /\ j = n + (j - n)) BY <1>5
    <3> QED BY <3>1
  <2>3. ASSUME NEW i \in 1 .. l PROVE n + i \in 1 .. Len(delivered')
    BY <1>5
  <2>4. 1 .. n \subseteq 1 .. Len(delivered') BY <1>5
  <2> QED BY <2>1, <2>2, <2>3, <2>4
<1>7. feed.todo = <<>> /\ feed.batch = <<>> BY <1>2 DEF LogInv, PlacesOK
<1>8. Members(<<>>) = {} /\ Ordered(<<>>) BY DEF Members, Ordered
<1>9. InHand = {} BY <1>7, <1>8 DEF InHand
<1>10. faults = 0 => StoredTrades = 1 .. n
  BY <1>9 DEF LogInv, NoTradeLost, n
<1>11. faults = 0 /\ ~redis_lost =>
         DOMAIN db.trades \subseteq Members(published)
  BY <1>7, <1>8 DEF LogInv, NoTradeLost
<1>12. ~redis_lost' => redis /\ ~redis_lost BY <1>3
<1>13. TodoFits(todo, <<>>)
  <2>1. \A j, k \in DOMAIN todo : j < k => todo[j] < todo[k] BY <1>5
  <2>2. ASSUME NEW k \in Members(todo), NEW i \in DOMAIN db.trades
        PROVE  db.trades[i].nth < k
    <3>1. PICK e \in 1 .. l : k = n + e BY DEF Members
    <3>2. db.trades[i].nth <= n /\ db.trades[i].nth \in Nat
      BY Typed DEF LogInv, RowsOK, n
    <3> DEFINE nth == db.trades[i].nth
    <3>3. nth <= n /\ nth \in Nat BY <3>2
    <3> HIDE DEF nth
    <3>4. nth < n + e BY <1>5, <3>3
    <3> QED BY <3>1, <3>4 DEF nth
  <2> QED BY <1>8, <2>1, <2>2 DEF TodoFits
<1> HIDE DEF todo
<1>14. faults = 0 =>
         /\ StoredTrades \cup Members(todo)
              \cup {row.nth : row \in Members(<<>>)}
            = 1 .. Len(delivered')
         /\ ~redis_lost' =>
              DOMAIN db.trades \subseteq
                Members(published) \cup {row.index : row \in Members(<<>>)}
  BY <1>2, <1>6, <1>8, <1>10, <1>11, <1>12
<1>15. \A row \in Members(<<>>) :
         /\ 1 <= row.index /\ row.nth <= Len(delivered')
         /\ AbovePublished(row) /\ AboveRows(row)
  BY <1>8
<1>16. Len(delivered') \in Nat /\ Len(delivered) <= Len(delivered')
  BY <1>5 DEF n
<1> QED
  BY <1>2, <1>3, <1>8, <1>12, <1>13, <1>14, <1>15, <1>16, LoopKeeps

LEMMA AsksKeep == ASSUME IInv, LogInv, Counted \/ Checked PROVE LogInv'
<1>1. \/ /\ feed.at = "next_counter" /\ calls["feed"].at = "replied"
         /\ calls["feed"].reply.ok
         /\ \E index, request :
              /\ feed' = [feed EXCEPT !.at = "check_id", !.index = index]
              /\ Run("feed", request)
      \/ /\ feed.at = "check_id" /\ feed' = [feed EXCEPT !.at = "store_id"]
         /\ \E request : Run("feed", request)
  <2>1. CASE Counted BY <2>1 DEF Counted, Answered
  <2>2. CASE Checked
    <3>1. /\ feed.at = "check_id" /\ calls["feed"].at = "replied"
          /\ calls["feed"].reply.ok
      BY <2>2 DEF Checked, Answered
    <3>2. calls["feed"].reply \in {Err, Ok(FALSE)}
      BY <3>1 DEF IInv, FeedOK, FeedFits
    <3>3. Err.ok = FALSE BY DEF Err
    <3>4. calls["feed"].reply = Ok(FALSE) BY <3>1, <3>2, <3>3
    <3>5. ~Value BY <3>4 DEF Value, Ok
    <3> QED BY <2>2, <3>1, <3>5 DEF Checked, Known
  <2> QED BY <2>1, <2>2
<1>2. UNCHANGED <<db, delivered, faults, published, redis_lost>>
  BY DEF Counted, Checked, Answered
<1>3. calls'["feed"].at = "sending"
  <2>1. "feed" \in DOMAIN calls
    BY FeedAssumption DEF IInv, RedbInv, RedbShape
  <2>2. PICK request : Run("feed", request) BY <1>1
  <2>3. calls'["feed"] = [at |-> "sending", request |-> request]
    BY <2>1, <2>2 DEF Run
  <2> QED BY <2>3
<1>4. /\ feed.at \in {"next_counter", "check_id"}
      /\ feed'.at \in {"check_id", "store_id"}
      /\ feed'.todo = feed.todo /\ feed'.batch = feed.batch
      /\ feed'.redis = feed.redis
  BY <1>1 DEF IInv, FeedOK, FeedTyped
<1>5. Numbered BY <1>1 DEF Numbered
<1>6. ~BatchStored /\ ~BatchStored' BY <1>4 DEF BatchStored
<1>7. PlacesOK' /\ RedisOK' /\ AnswersOK'
  BY <1>2, <1>3, <1>4 DEF LogInv, PlacesOK, RedisOK, AnswersOK
<1> QED BY <1>2, <1>4, <1>5, <1>6, <1>7, SameView

(* The row of a trade comes after those of the batch and of the table.     *)
LEMMA StoredIdKeeps == ASSUME IInv, LogInv, StoredId PROVE LogInv'
<1> DEFINE n == Total(db)
           first == Head(feed.todo)
           trade == [id |-> TradeId(feed.index), index |-> feed.index,
                     nth |-> first]
           todo == Tail(feed.todo)
           batch == Append(feed.batch, trade)
           few == 1 .. Len(delivered)
<1>1. /\ feed.at = "store_id" /\ Loop(todo, batch, feed.redis)
      /\ UNCHANGED <<db, delivered, faults, published, redis_lost>>
  BY DEF StoredId, Answered
<1>2. feed.todo # <<>> /\ feed.index = n
  BY <1>1 DEF IInv, FeedOK, FeedFits
<1>3. /\ n \in Nat /\ Len(delivered) \in Nat
      /\ feed.batch \in Seq(GoodRows(n)) /\ feed.todo \in Seq(few)
  BY Numbers
<1>4. \A k \in few : k \in Nat /\ k <= Len(delivered) BY <1>3
<1> HIDE DEF few
<1>5. /\ Members(feed.todo) = {first} \cup Members(todo)
      /\ \A i \in DOMAIN todo :
           i + 1 \in DOMAIN feed.todo /\ todo[i] = feed.todo[i + 1] /\ i \in Nat
  BY <1>2, <1>3, TailMembers
<1>6. first = feed.todo[1] /\ 1 \in DOMAIN feed.todo BY <1>2, <1>3
<1>7. first \in few BY <1>3, <1>6
<1>8. Numbered /\ ~BatchStored BY <1>1 DEF Numbered, BatchStored
<1>9. trade.index = n /\ trade.nth = first BY <1>2
<1> HIDE DEF trade, first, n, todo
<1>10. \A row \in Members(feed.batch) : row.index < n /\ row.nth < first
  BY <1>5, <1>8 DEF LogInv, BatchOK, TodoOK, TodoFits, n
<1>11. \A i \in DOMAIN db.trades : i < n /\ db.trades[i].nth < first
  BY <1>5, <1>8 DEF LogInv, RowsOK, TodoOK, TodoFits, n
<1> DEFINE any == Members(feed.batch) \cup {trade}
<1>12. feed.batch \in Seq(any)
  <2>1. \A i \in DOMAIN feed.batch : feed.batch[i] \in any BY DEF Members
  <2>2. DOMAIN feed.batch = 1 .. Len(feed.batch) /\ Len(feed.batch) \in Nat
        /\ feed.batch = [i \in 1 .. Len(feed.batch) |-> feed.batch[i]]
    BY <1>3
  <2> HIDE DEF any
  <2> QED BY <2>1, <2>2
<1>13. trade \in any OBVIOUS
<1> HIDE DEF any
<1>14. Members(batch) = Members(feed.batch) \cup {trade}
  BY <1>12, <1>13, AppendMembers
<1>15. Ordered(batch)
  <2>1. Ordered(feed.batch) BY DEF LogInv, BatchOK
  <2> QED BY <1>9, <1>10, <1>12, <1>13, <2>1, OrderedAppended
<1> HIDE DEF batch
<1>16. ASSUME NEW row \in Members(batch)
       PROVE  /\ 1 <= row.index /\ row.nth <= Len(delivered')
              /\ AbovePublished(row) /\ AboveRows(row)
  <2>1. CASE row \in Members(feed.batch)
    BY <1>1, <1>8, <2>1 DEF LogInv, BatchOK
  <2>2. CASE row = trade
    <3>1. 1 <= n BY <1>8 DEF LogInv, RowsOK, n
    <3>2. first <= Len(delivered) BY <1>4, <1>7
    <3>3. AboveRows(trade) BY <1>9, <1>11 DEF AboveRows
    <3>4. AbovePublished(trade)
      BY <1>9, <1>11 DEF AbovePublished, LogInv, PublishedIn
    <3> QED BY <1>1, <1>9, <2>2, <3>1, <3>2, <3>3, <3>4
  <2> QED BY <1>14, <2>1, <2>2
<1>17. TodoFits(todo, batch)
  <2>1. \A j, k \in DOMAIN feed.todo : j < k => feed.todo[j] < feed.todo[k]
    BY DEF LogInv, TodoOK, TodoFits
  <2>2. ASSUME NEW j \in DOMAIN todo, NEW k \in DOMAIN todo, j < k
        PROVE  todo[j] < todo[k]
    <3>1. j + 1 < k + 1 BY <1>5, <2>2
    <3> QED BY <1>5, <2>1, <3>1
  <2>3. ASSUME NEW k \in Members(todo) PROVE first < k
    <3>1. PICK i \in DOMAIN todo : k = todo[i] BY DEF Members
    <3>2. i \in Nat /\ i # 0
      <4>1. i \in DOMAIN Tail(feed.todo) BY DEF todo
      <4> QED BY <1>2, <1>3, <4>1
    <3>3. 1 < i + 1 BY <3>2
    <3> QED BY <1>5, <1>6, <2>1, <3>1, <3>3
  <2>4. \A k \in Members(todo) :
          /\ \A i \in DOMAIN db.trades : db.trades[i].nth < k
          /\ \A row \in Members(feed.batch) : row.nth < k
    BY <1>5 DEF LogInv, TodoOK, TodoFits
  <2> QED BY <1>9, <1>14, <2>2, <2>3, <2>4 DEF TodoFits
<1>18. ~redis_lost' => feed.redis BY <1>1 DEF LogInv, RedisOK
<1>19. {row.nth : row \in Members(batch)}
         = {row.nth : row \in Members(feed.batch)} \cup {first}
  BY <1>9, <1>14
<1>20. {row.index : row \in Members(feed.batch)}
         \subseteq {row.index : row \in Members(batch)}
  BY <1>14
<1>21. Members(todo) \cup {row.nth : row \in Members(batch)} = InHand
  BY <1>5, <1>19 DEF InHand
<1>22. faults = 0 =>
         /\ StoredTrades \cup Members(todo)
              \cup {row.nth : row \in Members(batch)}
            = 1 .. Len(delivered')
         /\ ~redis_lost' =>
              DOMAIN db.trades \subseteq
                Members(published) \cup {row.index : row \in Members(batch)}
  BY <1>1, <1>20, <1>21 DEF LogInv, NoTradeLost
<1>23. Len(delivered') \in Nat /\ Len(delivered) <= Len(delivered')
  BY <1>1, <1>3
<1> QED
  BY <1>1, <1>15, <1>16, <1>17, <1>18, <1>22, <1>23, LoopKeeps

LEMMA StoredBatchKeeps == ASSUME IInv, LogInv, StoredBatch PROVE LogInv'
<1>1. /\ feed.at = "store_batch" /\ Finish("feed")
      /\ calls["feed"].at = "replied" /\ calls["feed"].reply.ok
      /\ feed' = IF feed.redis THEN [feed EXCEPT !.at = "publish"]
                 ELSE FeedAt("reading", FALSE)
      /\ UNCHANGED <<db, delivered, faults, published, redis_lost>>
  BY DEF StoredBatch, Answered
<1>2. calls'["feed"].at = "none"
  <2>1. "feed" \in DOMAIN calls
    BY FeedAssumption DEF IInv, RedbInv, RedbShape
  <2> QED BY <1>1, <2>1 DEF Finish, NoCall
<1>3. AnswersOK' BY <1>2 DEF AnswersOK
<1>4. BatchStored /\ feed.todo = <<>>
  BY <1>1 DEF BatchStored, LogInv, PlacesOK
<1>5. CASE feed.redis
  <2>1. /\ feed'.at = "publish" /\ feed'.todo = feed.todo
        /\ feed'.batch = feed.batch /\ feed'.redis = feed.redis
    BY <1>1, <1>5 DEF IInv, FeedOK, FeedTyped
  <2>2. BatchStored' /\ ~Numbered' BY <2>1 DEF BatchStored, Numbered
  <2>3. PlacesOK' /\ RedisOK' BY <1>4, <1>5, <2>1 DEF PlacesOK, RedisOK
  <2> QED BY <1>1, <1>3, <1>4, <2>1, <2>2, <2>3, SameView
<1>6. CASE ~feed.redis
  <2>1. feed'.at = "reading" /\ feed'.todo = <<>> /\ feed'.batch = <<>>
    BY <1>1, <1>6 DEF FeedAt
  <2>2. redis_lost' BY <1>1, <1>6 DEF LogInv, RedisOK
  <2>3. \A row \in Members(feed.batch) : row.nth \in StoredTrades
    BY <1>4 DEF LogInv, BatchOK, StoredTrades
  <2>4. PublishedIn' BY <1>1 DEF LogInv, PublishedIn
  <2> QED BY <1>1, <1>3, <1>4, <2>1, <2>2, <2>3, <2>4, HandsEmpty
<1> QED BY <1>5, <1>6

(* A message is given up after a failure only.                             *)
LEMMA AbandonKeeps == ASSUME IInv, LogInv, Abandon PROVE LogInv'
<1>1. /\ calls["feed"].at = "replied" /\ ~calls["feed"].reply.ok
      /\ feed' = FeedAt("reading", feed.redis) /\ Finish("feed")
      /\ UNCHANGED <<db, delivered, published, faults, redis_lost>>
  BY DEF Abandon
<1>2. faults # 0 BY <1>1 DEF LogInv, AnswersOK
<1>3. AnswersOK' BY <1>1, <1>2 DEF AnswersOK
<1>4. feed'.at = "reading" /\ feed'.todo = <<>> /\ feed'.batch = <<>>
  BY <1>1 DEF FeedAt
<1>5. PublishedIn' BY <1>1 DEF LogInv, PublishedIn
<1> QED BY <1>1, <1>2, <1>3, <1>4, <1>5, HandsEmpty

(* A batch that is published is stored.                                    *)
LEMMA Publishing ==
  ASSUME IInv, LogInv, feed.at = "publish"
  PROVE  /\ feed.todo = <<>> /\ feed.batch # <<>>
         /\ feed.batch \in Seq(GoodRows(Total(db)))
         /\ BatchStored /\ published \in Seq(Indices)
         /\ Head(feed.batch).index \in Indices
         /\ Head(feed.batch).index \in DOMAIN db.trades
         /\ AbovePublished(Head(feed.batch))
         /\ \A row \in Members(feed.batch) : row.nth \in StoredTrades
<1>1. feed.todo = <<>> BY DEF LogInv, PlacesOK
<1>2. BatchStored BY DEF BatchStored
<1>3. \A row \in Members(feed.batch) :
        /\ row.index \in DOMAIN db.trades /\ db.trades[row.index] = row
        /\ AbovePublished(row)
  BY <1>2 DEF LogInv, BatchOK
<1>4. published \in Seq(Indices) BY DEF IInv, HistoryOK
<1>5. /\ feed.batch # <<>> /\ feed.batch \in Seq(GoodRows(Total(db)))
      /\ Head(feed.batch).index \in Indices
  BY PublishedOK, Numbers
<1>6. Head(feed.batch) \in Members(feed.batch)
  <2> DEFINE good == GoodRows(Total(db))
  <2> HIDE DEF good
  <2>1. feed.batch \in Seq(good) BY <1>5 DEF good
  <2> QED BY <1>5, <2>1, TailMembers
<1>7. \A row \in Members(feed.batch) : row.nth \in StoredTrades
  BY <1>3 DEF StoredTrades
<1> QED BY <1>1, <1>2, <1>3, <1>4, <1>5, <1>6, <1>7

LEMMA PublishKeeps == ASSUME IInv, LogInv, Publish PROVE LogInv'
<1> DEFINE index == Head(feed.batch).index
           rest == Tail(feed.batch)
           good == GoodRows(Total(db))
<1>1. /\ feed.at = "publish" /\ published' = Append(published, index)
      /\ feed' = IF Len(feed.batch) = 1 THEN FeedAt("reading", feed.redis)
                 ELSE [feed EXCEPT !.batch = rest]
      /\ UNCHANGED <<redb, db, delivered, faults, redis_lost>>
  BY DEF Publish
<1>2. /\ feed.todo = <<>> /\ feed.batch # <<>> /\ feed.batch \in Seq(good)
      /\ BatchStored /\ published \in Seq(Indices) /\ index \in Indices
      /\ index \in DOMAIN db.trades
      /\ \A row \in Members(feed.batch) : row.nth \in StoredTrades
  BY <1>1, Publishing
<1>3. Members(published') = Members(published) \cup {index}
  <2> HIDE DEF index
  <2> QED BY <1>1, <1>2, AppendMembers
<1>4. AnswersOK' BY <1>1 DEF LogInv, AnswersOK, redb
<1>5. PublishedIn' BY <1>1, <1>2, <1>3 DEF LogInv, PublishedIn
<1> HIDE DEF good
<1>6. Members(feed.batch) = {Head(feed.batch)} \cup Members(rest)
  BY <1>2, TailMembers
<1>7. {row.index : row \in Members(feed.batch)}
        = {index} \cup {row.index : row \in Members(rest)}
  BY <1>6
<1>8. faults = 0 /\ ~redis_lost =>
        DOMAIN db.trades \subseteq
          Members(published') \cup {row.index : row \in Members(rest)}
  BY <1>3, <1>7 DEF LogInv, NoTradeLost
<1>9. CASE Len(feed.batch) = 1
  <2>1. feed'.at = "reading" /\ feed'.todo = <<>> /\ feed'.batch = <<>>
    BY <1>1, <1>9 DEF FeedAt
  <2>2. Members(rest) = {}
    <3>1. Len(rest) = 0 /\ rest \in Seq(good) BY <1>2, <1>9, TailOf
    <3> HIDE DEF rest
    <3>2. rest = <<>> BY <3>1
    <3> QED BY <3>2 DEF Members
  <2>3. faults = 0 /\ ~redis_lost =>
          DOMAIN db.trades \subseteq Members(published')
    BY <1>8, <2>2
  <2> HIDE DEF rest, index
  <2> QED BY <1>1, <1>2, <1>4, <1>5, <2>1, <2>3, HandsEmpty
<1>10. CASE Len(feed.batch) # 1
  <2>1. /\ feed'.at = "publish" /\ feed'.todo = feed.todo
        /\ feed'.batch = rest /\ feed'.redis = feed.redis
    BY <1>1, <1>10 DEF IInv, FeedOK, FeedTyped
  <2>2. Ordered(feed.batch) BY DEF LogInv, BatchOK
  <2>3. /\ Ordered(rest)
        /\ \A row \in Members(rest) : index < row.index
    BY <1>2, <2>2, OrderedTail
  <2>4. BatchStored' /\ ~Numbered' BY <2>1 DEF BatchStored, Numbered
  <2> HIDE DEF rest, index
  <2>5. RowsOK' BY <1>1, <2>4 DEF LogInv, RowsOK
  <2>6. StoredTrades' = StoredTrades BY <1>1 DEF StoredTrades
  <2>7. \A row \in Members(rest) :
          /\ 1 <= row.index /\ row.nth <= Len(delivered)
          /\ AbovePublished(row)
          /\ row.index \in DOMAIN db.trades /\ db.trades[row.index] = row
    BY <1>2, <1>6 DEF LogInv, BatchOK
  <2>8. \A row \in Members(rest) : AbovePublished(row)'
    BY <1>3, <2>3, <2>7 DEF AbovePublished
  <2>9. BatchOK' BY <1>1, <2>1, <2>3, <2>4, <2>7, <2>8 DEF BatchOK
  <2>10. PlacesOK' /\ RedisOK'
    BY <1>1, <1>2, <2>1 DEF LogInv, PlacesOK, RedisOK
  <2>11. TodoOK' BY <1>2, <2>1 DEF TodoOK, TodoFits, Members
  <2>12. StoredTrades' \cup InHand' = StoredTrades \cup InHand
    BY <1>2, <1>6, <2>1, <2>6 DEF InHand
  <2>13. NoTradeLost'
    BY <1>1, <1>8, <2>1, <2>12 DEF LogInv, NoTradeLost
  <2> QED
    BY <1>4, <1>5, <2>5, <2>9, <2>10, <2>11, <2>13 DEF LogInv
<1> QED BY <1>9, <1>10

LEMMA PublishFailsKeeps == ASSUME IInv, LogInv, PublishFails PROVE LogInv'
<1>1. /\ feed.at = "publish" /\ redis_lost' = TRUE
      /\ \E redis \in BOOLEAN : feed' = FeedAt("reading", redis)
      /\ UNCHANGED <<redb, db, delivered, faults>>
  BY DEF PublishFails
<1>2. /\ feed.todo = <<>>
      /\ \A row \in Members(feed.batch) : row.nth \in StoredTrades
  BY <1>1, Publishing
<1>3. AnswersOK' BY <1>1 DEF LogInv, AnswersOK, redb
<1>4. feed'.at = "reading" /\ feed'.todo = <<>> /\ feed'.batch = <<>>
  BY <1>1 DEF FeedAt
<1>5. redis_lost' BY <1>1
<1>6. PublishedIn'
  <2> DEFINE index == Head(feed.batch).index
  <2>1. published' \in {published, Append(published, index)} BY DEF PublishFails
  <2>2. /\ published \in Seq(Indices) /\ index \in Indices
        /\ index \in DOMAIN db.trades
    BY <1>1, Publishing
  <2> HIDE DEF index
  <2>3. Members(Append(published, index)) = Members(published) \cup {index}
    BY <2>2, AppendMembers
  <2> QED BY <1>1, <2>1, <2>2, <2>3 DEF LogInv, PublishedIn
<1> QED BY <1>1, <1>2, <1>3, <1>4, <1>5, <1>6, HandsEmpty

-----------------------------------------------------------------------------
LEMMA RestartKeeps == ASSUME IInv, LogInv, Restart PROVE LogInv'
<1>1. /\ faults' = faults + 1 /\ RedbRestart
      /\ db' = Open(db) /\ feed' = FeedAt("connecting", FALSE)
      /\ UNCHANGED <<delivered, published, redis_lost>>
  BY DEF Restart
<1>2. db' = db BY <1>1, OpenOK DEF IInv
<1>3. faults' # 0
  <2>1. MaxFaults \in Nat BY FeedAssumption
  <2>2. faults \in Nat BY <2>1 DEF IInv, HistoryOK
  <2> QED BY <1>1, <2>2
<1>4. feed'.at = "connecting" /\ feed'.todo = <<>> /\ feed'.batch = <<>>
  BY <1>1 DEF FeedAt
<1>5. AnswersOK' BY <1>3 DEF AnswersOK
<1>6. PublishedIn' BY <1>1, <1>2 DEF LogInv, PublishedIn
<1> QED BY <1>1, <1>2, <1>3, <1>4, <1>5, <1>6, HandsEmpty

LEMMA LogInvInit == ASSUME Init PROVE LogInv
<1>1. /\ feed.at = "connecting" /\ feed.todo = <<>> /\ feed.batch = <<>>
      /\ delivered = <<>> /\ published = <<>> /\ Len(delivered) = 0
  BY DEF Init, FeedAt
<1>2. DOMAIN db.trades = {}
  BY DEF Init, Open, EmptyDb, WithTotal
<1>3. /\ Members(feed.batch) = {} /\ Members(feed.todo) = {}
      /\ Members(published) = {}
  BY <1>1 DEF Members
<1>4. StoredTrades = {} /\ InHand = {} /\ 1 .. 0 = {}
  BY <1>2, <1>3 DEF StoredTrades, InHand
<1>5. calls["feed"].at = "none"
  BY FeedAssumption DEF Init, RedbInit, NoCall
<1>6. ~Numbered BY <1>1 DEF Numbered
<1>7. RowsOK BY <1>2, <1>6 DEF RowsOK
<1>8. BatchOK BY <1>1, <1>3 DEF BatchOK, Ordered
<1>9. TodoOK /\ PublishedIn BY <1>1, <1>3 DEF TodoOK, TodoFits, PublishedIn
<1>10. PlacesOK /\ RedisOK /\ AnswersOK
  BY <1>1, <1>5 DEF PlacesOK, RedisOK, AnswersOK
<1>11. NoTradeLost BY <1>1, <1>2, <1>4 DEF NoTradeLost
<1> QED BY <1>7, <1>8, <1>9, <1>10, <1>11 DEF LogInv

LEMMA NextKeeps == ASSUME IInv, LogInv, [Next]_vars PROVE LogInv'
<1>1. CASE Connect \/ Disconnected \/ ReadOther BY <1>1, SocketKeeps
<1>2. CASE \E m \in TradeMessages : ReadTrades(m) BY <1>2, ReadTradesKeeps
<1>3. ASSUME NEW r \in Readers,
             \/ get_trades_count(r) \/ get_trades(r)
             \/ Respond(r) \/ Disconnect(r)
      PROVE  LogInv'
  BY <1>3, ReadersKeep
<1>4. CASE WorkerHandle \/ WorkerFails
  BY <1>4, WorkerHandleKeeps, WorkerFailsKeeps
<1>5. CASE FeedStep
  BY <1>5, AsksKeep, StoredIdKeeps, StoredBatchKeeps, AbandonKeeps,
     PublishKeeps, PublishFailsKeeps DEF FeedStep
<1>6. CASE UNCHANGED vars
  <2>1. UNCHANGED <<db, feed, delivered, published, redis_lost, calls>>
        /\ faults' = faults
    BY <1>6 DEF vars, redb
  <2> QED BY <2>1, SameFeed
<1>7. CASE RedbStep \/ Restart BY <1>7, RedbStepKeeps, RestartKeeps
<1> QED BY <1>1, <1>2, <1>3, <1>4, <1>5, <1>6, <1>7 DEF Next

(* While no transaction fails and the process does not end, every trade    *)
(* that the exchange sent is stored or in hand, and every stored row was   *)
(* published or is about to be, unless Redis was out of reach: whatever    *)
(* the readers ask and whenever they hang up.                              *)
THEOREM NoTradeLostCorrect == Spec => []NoTradeLost
<1>1. Init => IInv /\ LogInv BY IInvInit, LogInvInit
<1>2. IInv /\ LogInv /\ [Next]_vars => (IInv /\ LogInv)'
  BY NextInv, NextKeeps
<1>3. LogInv => NoTradeLost BY DEF LogInv
<1> QED BY <1>1, <1>2, <1>3, PTL DEF Spec

-----------------------------------------------------------------------------
(* The log.                                                                *)

(* What the log shows of a call.                                           *)
SameLook(one, other) ==
  /\ AskedOf(one) = AskedOf(other)
  /\ QuestionOf(one) = QuestionOf(other)
  /\ AnswerOf(one) = AnswerOf(other)

LEMMA Stutters ==
  ASSUME Total(db') = Total(db), db'.trades = db.trades,
         published' = published,
         \A r \in Readers : SameLook(calls'[r], calls[r])
  PROVE  UNCHANGED Log!logVars
<1>1. LogOf(db') = LogOf(db) BY DEF LogOf
<1>2. /\ [r \in Readers |-> AskedOf(calls[r])]'
           = [r \in Readers |-> AskedOf(calls[r])]
      /\ [r \in Readers |-> QuestionOf(calls[r])]'
           = [r \in Readers |-> QuestionOf(calls[r])]
      /\ [r \in Readers |-> AnswerOf(calls[r])]'
           = [r \in Readers |-> AnswerOf(calls[r])]
  BY DEF SameLook
<1> QED BY <1>1, <1>2 DEF Log!logVars

LEMMA LogInit == ASSUME Init PROVE Log!Init
<1>1. db.trades = <<>> /\ Total(db) = 0
  BY DEF Init, Open, EmptyDb, WithTotal, Total, Inserted
<1>2. LogOf(db) = <<>> BY <1>1 DEF LogOf
<1>3. calls = [c \in Callers |-> NoCall] BY DEF Init, RedbInit
<1>4. \A r \in Readers : calls[r] = NoCall BY <1>3, FeedAssumption
<1>5. /\ AskedOf(NoCall) = "no" /\ QuestionOf(NoCall) = <<>>
      /\ AnswerOf(NoCall) = <<>>
  BY DEF AskedOf, QuestionOf, AnswerOf, NoCall
<1>6. published = <<>> BY DEF Init
<1> QED BY <1>1, <1>2, <1>4, <1>5, <1>6 DEF Log!Init

(* A step of the feed alone that publishes nothing.                        *)
LEMMA FeedStutters ==
  ASSUME IInv, UNCHANGED <<db, published>>,
         \/ UNCHANGED calls \/ Finish("feed") \/ \E x : Run("feed", x)
  PROVE  UNCHANGED Log!logVars
<1>1. DOMAIN calls = Callers BY DEF IInv, RedbInv, RedbShape
<1>2. \E v : calls' = calls \/ calls' = [calls EXCEPT !["feed"] = v]
  BY DEF Finish, Run
<1>3. \A r \in Readers : calls'[r] = calls[r]
  BY <1>1, <1>2, FeedAssumption
<1> QED BY <1>3, Stutters DEF SameLook

LEMMA FeedSteps ==
  ASSUME IInv, LogInv,
         \/ Connect \/ Disconnected \/ ReadOther
         \/ \E m \in TradeMessages : ReadTrades(m)
         \/ Counted \/ Checked \/ StoredId \/ StoredBatch \/ Abandon
  PROVE  UNCHANGED Log!logVars
<1>1. UNCHANGED <<db, published>>
  BY DEF Connect, Disconnected, ReadOther, ReadTrades, Counted, Checked,
         StoredId, StoredBatch, Abandon, Answered
<1>2. \/ UNCHANGED calls \/ Finish("feed") \/ \E x : Run("feed", x)
  BY DEF Connect, Disconnected, ReadOther, ReadTrades, Counted, Checked,
         StoredId, StoredBatch, Abandon, Loop, redb
<1> QED BY <1>1, <1>2, FeedStutters

(* What is published is in the log, and comes after all published before.  *)
LEMMA PublishSteps ==
  ASSUME IInv, LogInv, Publish \/ PublishFails
  PROVE  Log!Publish \/ UNCHANGED Log!logVars
<1> DEFINE index == Head(feed.batch).index
<1>1. /\ feed.at = "publish" /\ UNCHANGED <<db, calls>>
      /\ published' \in {published, Append(published, index)}
  BY DEF Publish, PublishFails, redb
<1>2. CASE published' = published
  <2>1. \A r \in Readers : SameLook(calls'[r], calls[r])
    BY <1>1 DEF SameLook
  <2> QED BY <1>1, <1>2, <2>1, Stutters
<1>3. CASE published' = Append(published, index)
  <2>1. index \in DOMAIN LogOf(db) BY <1>1, Publishing DEF LogOf
  <2>2. \A k \in DOMAIN published : published[k] < index
    BY <1>1, Publishing DEF AbovePublished, Members
  <2> HIDE DEF index
  <2>3. UNCHANGED <<Total(db), LogOf(db),
                    [r \in Readers |-> AskedOf(calls[r])],
                    [r \in Readers |-> QuestionOf(calls[r])],
                    [r \in Readers |-> AnswerOf(calls[r])]>>
    BY <1>1
  <2> QED BY <1>3, <2>1, <2>2, <2>3 DEF Log!Publish
<1> QED BY <1>1, <1>2, <1>3

LEMMA RedbSteps == ASSUME IInv, RedbStep PROVE UNCHANGED Log!logVars
<1>1. UNCHANGED <<db, published>> BY DEF RedbStep
<1>2. CASE WorkerRecv
  <2>1. \A r \in Readers : SameLook(calls'[r], calls[r])
    BY <1>2 DEF WorkerRecv, SameLook
  <2> QED BY <1>1, <2>1, Stutters
<1>3. ASSUME NEW c \in Callers, Send(c) PROVE UNCHANGED Log!logVars
  <2> DEFINE v == [at |-> "awaiting", request |-> calls[c].request]
  <2>1. calls[c].at = "sending" /\ OnlyCall(c, v)
    BY <1>3, SendInv DEF IInv
  <2>2. SameLook(v, calls[c])
    BY <2>1 DEF SameLook, AskedOf, QuestionOf, AnswerOf
  <2> HIDE DEF v
  <2>3. \A r \in Readers : SameLook(calls'[r], calls[r])
    BY <2>1, <2>2, FeedAssumption DEF OnlyCall, SameLook
  <2> QED BY <1>1, <2>3, Stutters
<1> QED BY <1>2, <1>3 DEF RedbStep

(* One reader's call looks different, and nothing else.                    *)
OnlyLook(r, v) ==
  /\ \A q \in Readers : calls'[q] = IF q = r THEN v ELSE calls[q]
  /\ UNCHANGED <<db, published>>

LEMMA Asks ==
  ASSUME NEW r \in Readers, calls[r] = NoCall,
         NEW request \in ReaderRequests,
         OnlyLook(r, [at |-> "sending", request |-> request])
  PROVE  Log!Ask(r)
<1> DEFINE v == [at |-> "sending", request |-> request]
<1>1. /\ AskedOf(NoCall) = "no" /\ AnswerOf(NoCall) = <<>>
      /\ AskedOf(v) = "waits" /\ AnswerOf(v) = <<>> /\ QuestionOf(v) = request
  BY DEF AskedOf, QuestionOf, AnswerOf, NoCall
<1>2. request.do = "Range" => request.limit <= MaxBatchSize
  <2>1. TotalTradesCount.do # "Range" BY DEF TotalTradesCount
  <2>2. CASE request \in [do : {"Range"}, start : StartIndices,
                          limit : 0 .. MaxBatchSize]
    <3>1. request.limit \in 0 .. MaxBatchSize BY <2>2
    <3> QED BY <3>1, FeedAssumption
  <2> QED BY <2>1, <2>2 DEF ReaderRequests
<1> HIDE DEF v
<1>3. OnlyLook(r, v) BY DEF v
<1> QED BY <1>1, <1>2, <1>3 DEF Log!Ask, OnlyLook

LEMMA Answers ==
  ASSUME NEW r \in Readers, calls[r].at = "awaiting", NEW reply,
         OnlyLook(r, RepliedCall(calls[r].request, reply)),
         \/ reply = Err
         \/ AnswerOf(RepliedCall(calls[r].request, reply))
              = [ok |-> TRUE, value |-> Log!Truth(calls[r].request)]
  PROVE  Log!Answer(r)
<1> DEFINE v == RepliedCall(calls[r].request, reply)
<1>1. /\ AskedOf(calls[r]) = "waits" /\ AskedOf(v) = "answered"
      /\ QuestionOf(calls[r]) = calls[r].request
      /\ QuestionOf(v) = calls[r].request
  BY DEF AskedOf, QuestionOf, RepliedCall
<1>2. reply = Err => AnswerOf(v) = [ok |-> FALSE]
  BY DEF AnswerOf, RepliedCall, Err
<1> HIDE DEF v
<1>3. OnlyLook(r, v) BY DEF v
<1>4. \/ AnswerOf(v) = [ok |-> FALSE]
      \/ AnswerOf(v) = [ok |-> TRUE, value |-> Log!Truth(calls[r].request)]
  BY <1>2 DEF v
<1> QED BY <1>1, <1>3, <1>4 DEF Log!Answer, OnlyLook

LEMMA Leaves ==
  ASSUME NEW r \in Readers, OnlyLook(r, NoCall)
  PROVE  Log!Leave
<1>1. /\ AskedOf(NoCall) = "no" /\ QuestionOf(NoCall) = <<>>
      /\ AnswerOf(NoCall) = <<>>
  BY DEF AskedOf, QuestionOf, AnswerOf, NoCall
<1> DEFINE some == {r}
<1>2. some \in SUBSET Readers OBVIOUS
<1>3. \A q \in Readers :
        calls'[q] = IF q \in some THEN NoCall ELSE calls[q]
  BY DEF OnlyLook
<1> HIDE DEF some
<1>4. /\ [q \in Readers |-> AskedOf(calls[q])]'
           = [q \in Readers |->
                IF q \in some THEN "no"
                ELSE [p \in Readers |-> AskedOf(calls[p])][q]]
      /\ [q \in Readers |-> QuestionOf(calls[q])]'
           = [q \in Readers |->
                IF q \in some THEN <<>>
                ELSE [p \in Readers |-> QuestionOf(calls[p])][q]]
      /\ [q \in Readers |-> AnswerOf(calls[q])]'
           = [q \in Readers |->
                IF q \in some THEN <<>>
                ELSE [p \in Readers |-> AnswerOf(calls[p])][q]]
  BY <1>1, <1>3
<1> QED BY <1>2, <1>4 DEF Log!Leave, OnlyLook

(* A page of the table is a page of the log.                               *)
LEMMA PageOfLog ==
  ASSUME DbOK(db), NEW start \in Nat, NEW limit \in Nat
  PROVE  LET page == Page(db, start, limit)
         IN [k \in DOMAIN page |-> page[k].nth] = Log!PageOf(start, limit)
<1> DEFINE missing == {k \in 0 .. limit - 1 : start + k \notin DOMAIN db.trades}
           size == IF missing = {} THEN limit ELSE Min(missing)
           Full(k) == \A i \in start .. start + k - 1 : i \in DOMAIN LogOf(db)
           Fits(k) == /\ Full(k)
                      /\ k < limit => start + k \notin DOMAIN LogOf(db)
<1>1. DOMAIN LogOf(db) = DOMAIN db.trades
      /\ \A i \in DOMAIN db.trades : LogOf(db)[i] = db.trades[i].nth
  BY DEF LogOf
<1>2. missing \in SUBSET Nat OBVIOUS
<1>3. /\ size \in 0 .. limit
      /\ \A k \in 0 .. size - 1 : start + k \in DOMAIN db.trades
      /\ size < limit => start + size \notin DOMAIN db.trades
  <2>1. CASE missing = {}
    <3>1. size = limit BY <2>1
    <3>2. \A k \in 0 .. limit - 1 : start + k \in DOMAIN db.trades BY <2>1
    <3> HIDE DEF size, missing
    <3> QED BY <3>1, <3>2
  <2>2. CASE missing # {}
    <3> DEFINE m == Min(missing)
    <3>1. m \in missing /\ \A i \in missing : m <= i
      BY <1>2, <2>2, LeastNatural
    <3>2. size = m BY <2>2
    <3> HIDE DEF m, size
    <3>3. /\ m \in 0 .. limit /\ start + m \notin DOMAIN db.trades
          /\ \A k \in 0 .. limit - 1 :
               start + k \notin DOMAIN db.trades => m <= k
      BY <3>1
    <3>4. \A k \in 0 .. m - 1 : k \in 0 .. limit - 1 /\ ~(m <= k) BY <3>3
    <3> QED BY <3>2, <3>3, <3>4
  <2> QED BY <2>1, <2>2
<1> HIDE DEF size, missing
<1>4. Fits(size)
  <2>1. ASSUME NEW i \in start .. start + size - 1
        PROVE  i \in DOMAIN db.trades
    <3>1. i - start \in 0 .. size - 1 /\ i = start + (i - start)
      BY <1>3, <2>1
    <3> QED BY <1>3, <3>1
  <2> QED BY <1>1, <1>3, <2>1
<1>5. ASSUME NEW k \in 0 .. limit, Fits(k) PROVE k = size
  <2>1. CASE k < size
    <3>1. k \in 0 .. size - 1 /\ k < limit BY <1>3, <2>1
    <3>2. start + k \in DOMAIN db.trades BY <1>3, <3>1
    <3> QED BY <1>1, <1>5, <3>1, <3>2
  <2>2. CASE size < k
    <3>1. start + size \in start .. start + k - 1 /\ size < limit
      BY <1>3, <2>2
    <3>2. start + size \in DOMAIN LogOf(db) BY <1>5, <3>1
    <3> QED BY <1>1, <1>3, <3>1, <3>2
  <2> QED BY <1>3, <2>1, <2>2
<1> DEFINE chosen == CHOOSE k \in 0 .. limit : Fits(k)
<1>6. chosen = size
  <2> HIDE DEF Fits
  <2>1. \E k \in 0 .. limit : Fits(k) BY <1>3, <1>4
  <2>2. chosen \in 0 .. limit /\ Fits(chosen) BY <2>1
  <2> QED BY <1>5, <2>2
<1>7. Log!PageOf(start, limit)
        = [i \in 1 .. chosen |-> LogOf(db)[start + i - 1]]
  BY DEF Log!PageOf
<1>8. \A i \in 1 .. size :
        LogOf(db)[start + i - 1] = db.trades[start + i - 1].nth
  <2> SUFFICES ASSUME NEW i \in 1 .. size
               PROVE  LogOf(db)[start + i - 1] = db.trades[start + i - 1].nth
    OBVIOUS
  <2>1. i - 1 \in 0 .. size - 1 /\ start + (i - 1) = start + i - 1 BY <1>3
  <2> QED BY <1>1, <1>3, <2>1
<1>9. Page(db, start, limit) = [k \in 1 .. size |-> db.trades[start + k - 1]]
  BY DEF Page, size, missing
<1> HIDE DEF chosen
<1> QED BY <1>6, <1>7, <1>8, <1>9

(* What the worker replies to a reader is true of the log.                 *)
LEMMA RepliesTrue ==
  ASSUME IInv, NEW request \in ReaderRequests
  PROVE  AnswerOf(RepliedCall(request, Ok(Handled(db, request).value)))
           = [ok |-> TRUE, value |-> Log!Truth(request)]
<1> DEFINE value == Handled(db, request).value
           v == RepliedCall(request, Ok(value))
<1>1. CASE request = TotalTradesCount
  <2>1. request.do = "Count" BY <1>1 DEF TotalTradesCount
  <2>2. value = Total(db) BY <2>1 DEF Handled, Result
  <2>3. Log!Truth(request) = Total(db) BY <2>1 DEF Log!Truth
  <2> HIDE DEF value
  <2>4. AnswerOf(v) = Ok(value) BY <2>1 DEF AnswerOf, RepliedCall, Ok
  <2> QED BY <2>2, <2>3, <2>4 DEF value, Ok
<1>2. CASE request \in [do : {"Range"}, start : StartIndices,
                        limit : 0 .. MaxBatchSize]
  <2>1. request.do = "Range" BY <1>2
  <2>2. request.start \in Nat /\ request.limit \in Nat
    <3>1. request.start \in StartIndices /\ request.limit \in 0 .. MaxBatchSize
      BY <1>2
    <3>2. StartIndices \subseteq Nat /\ MaxBatchSize \in Nat
      BY FeedAssumption
    <3>3. request.start \in Nat BY <3>1, <3>2
    <3>4. request.limit \in Nat BY <3>1, <3>2
    <3> QED BY <3>3, <3>4
  <2>3. value = Page(db, request.start, request.limit)
    BY <2>1 DEF Handled, Result
  <2>4. Log!Truth(request) = Log!PageOf(request.start, request.limit)
    BY <2>1 DEF Log!Truth
  <2>5. [k \in DOMAIN value |-> value[k].nth]
          = Log!PageOf(request.start, request.limit)
    BY <2>2, <2>3, PageOfLog DEF IInv
  <2> HIDE DEF value
  <2>6. AnswerOf(v) = Ok([k \in DOMAIN value |-> value[k].nth])
    BY <2>1 DEF AnswerOf, RepliedCall, Ok
  <2> QED BY <2>4, <2>5, <2>6 DEF value, Ok
<1> QED BY <1>1, <1>2 DEF ReaderRequests

(* The worker replies to the feed, to a reader or to nobody.               *)
LEMMA RepliedTo ==
  ASSUME IInv, NEW reply, Reply(reply), UNCHANGED <<db, published>>
  PROVE  \/ \A r \in Readers : calls'[r] = calls[r]
         \/ \E r \in Readers :
              /\ worker[1].from = r /\ calls[r].at = "awaiting"
              /\ calls[r].request = worker[1].request
              /\ OnlyLook(r, RepliedCall(calls[r].request, reply))
<1> DEFINE c == worker[1].from
<1>1. /\ c = Nobody => calls' = calls
      /\ c # Nobody => OnlyCall(c, RepliedCall(worker[1].request, reply))
      /\ c \in Callers \cup {Nobody}
      /\ c # Nobody => /\ calls[c].at = "awaiting"
                       /\ calls[c].request = worker[1].request
  BY ReplyInv, AnsweredCall DEF IInv
<1>2. /\ Callers = Readers \cup {"feed"} /\ "feed" \notin Readers
      /\ Nobody \notin Callers
  BY FeedAssumption, RedbAssumption
<1>3. CASE c = Nobody BY <1>1, <1>3
<1>4. CASE c = "feed" BY <1>1, <1>2, <1>4 DEF OnlyCall
<1>5. CASE c \in Readers
  <2>1. OnlyLook(c, RepliedCall(calls[c].request, reply))
    BY <1>1, <1>2, <1>5 DEF OnlyCall, OnlyLook
  <2> QED BY <1>1, <1>2, <1>5, <2>1
<1> QED BY <1>1, <1>2, <1>3, <1>4, <1>5

LEMMA FailsSteps ==
  ASSUME IInv, WorkerFails
  PROVE  (\E r \in Readers : Log!Answer(r)) \/ UNCHANGED Log!logVars
<1>1. Reply(Err) /\ UNCHANGED <<db, published>> BY DEF WorkerFails
<1>2. CASE \A r \in Readers : calls'[r] = calls[r]
  BY <1>1, <1>2, Stutters DEF SameLook
<1>3. ASSUME NEW r \in Readers, calls[r].at = "awaiting",
             OnlyLook(r, RepliedCall(calls[r].request, Err))
      PROVE  Log!Answer(r)
  BY <1>3, Answers
<1> QED BY <1>1, <1>2, <1>3, RepliedTo

LEMMA ReaderAnsweredSteps ==
  ASSUME IInv, ReaderAnswered
  PROVE  (\E r \in Readers : Log!Answer(r)) \/ UNCHANGED Log!logVars
<1> DEFINE request == worker[1].request
           reply == Ok(Handled(db, request).value)
<1>1. /\ Reply(reply) /\ UNCHANGED <<db, published>>
      /\ request \in ReaderRequests
  BY DEF ReaderAnswered
<1>2. AnswerOf(RepliedCall(request, reply))
        = [ok |-> TRUE, value |-> Log!Truth(request)]
  BY <1>1, RepliesTrue
<1> HIDE DEF reply
<1>3. CASE \A r \in Readers : calls'[r] = calls[r]
  BY <1>1, <1>3, Stutters DEF SameLook
<1>4. ASSUME NEW r \in Readers, calls[r].at = "awaiting",
             calls[r].request = request,
             OnlyLook(r, RepliedCall(calls[r].request, reply))
      PROVE  Log!Answer(r)
  BY <1>2, <1>4, Answers
<1> QED BY <1>1, <1>3, <1>4, RepliedTo

(* Of what the feed asked for, the counter reserves an index, the batch    *)
(* records trades, and the rest does not show.                             *)
LEMMA HandleSteps ==
  ASSUME IInv, LogInv, WorkerHandle
  PROVE  \/ Log!Reserve \/ Log!Record
         \/ \E r \in Readers : Log!Answer(r)
         \/ UNCHANGED Log!logVars
<1> DEFINE Same == /\ UNCHANGED <<[r \in Readers |-> AskedOf(calls[r])],
                                  [r \in Readers |-> QuestionOf(calls[r])],
                                  [r \in Readers |-> AnswerOf(calls[r])]>>
                   /\ published' = published
                   /\ \A r \in Readers : SameLook(calls'[r], calls[r])
<1>1. ASSUME NEW place, NEW result, AnsweredAt(place, result)
      PROVE  Same
  <2>1. \A r \in Readers : calls'[r] = calls[r] BY <1>1 DEF AnsweredAt
  <2>2. published' = published BY <1>1 DEF AnsweredAt
  <2> QED BY <2>1, <2>2 DEF SameLook
<1>2. CASE AnsweredAt("next_counter", Handled(db, NextTradeCounter))
  <2>1. Total(db') = Total(db) + 1 /\ db'.trades = db.trades
    BY <1>2, CounterKeeps
  <2>2. LogOf(db') = LogOf(db) BY <2>1 DEF LogOf
  <2>3. Same BY <1>1, <1>2
  <2> QED BY <2>1, <2>2, <2>3 DEF Log!Reserve
<1>3. ASSUME NEW x \in Ids,
             AnsweredAt("check_id", Handled(db, CheckIdExists(x)))
      PROVE  UNCHANGED Log!logVars
  <2>1. Handled(db, CheckIdExists(x)).db = db
    BY DEF Handled, CheckIdExists, Result
  <2>2. Total(db') = Total(db) /\ db'.trades = db.trades
    BY <1>3, <2>1 DEF AnsweredAt
  <2>3. Same BY <1>1, <1>3
  <2> QED BY <2>2, <2>3, Stutters
<1>4. ASSUME NEW x \in Ids, x[1] <= Total(db),
             AnsweredAt("store_id", Handled(db, StoreIdWithIndex(x, x[1])))
      PROVE  UNCHANGED Log!logVars
  <2> DEFINE result == Handled(db, StoreIdWithIndex(x, x[1]))
  <2>1. result.db.trades = db.trades /\ Total(result.db) = Total(db)
    BY <1>4, StoreIdOK DEF IInv
  <2> HIDE DEF result
  <2>2. db' = result.db BY <1>4 DEF AnsweredAt, result
  <2>3. Same BY <1>1, <1>4
  <2> QED BY <2>1, <2>2, <2>3, Stutters
<1>5. CASE AnsweredAt("store_batch",
                      Handled(db, StoreTradeBatch(feed.batch)))
  <2>1. Total(db') = Total(db) /\ Recorded BY <1>5, BatchKeeps
  <2>2. /\ DOMAIN LogOf(db) = DOMAIN db.trades
        /\ DOMAIN LogOf(db') = DOMAIN db'.trades
        /\ \A i \in DOMAIN db.trades : LogOf(db)[i] = db.trades[i].nth
        /\ \A i \in DOMAIN db'.trades : LogOf(db')[i] = db'.trades[i].nth
    BY DEF LogOf
  <2>3. DOMAIN LogOf(db') \subseteq 1 .. Total(db)
    <3>1. \A i \in DOMAIN db'.trades :
            i \in Nat /\ 1 <= i /\ i <= Total(db) /\ Total(db) \in Nat
      <4>1. IInv' BY WorkerHandleInv
      <4>2. DOMAIN db'.trades \subseteq Indices BY <4>1 DEF IInv, DbOK
      <4>3. Indices \subseteq Nat BY FeedAssumption DEF Indices
      <4> QED BY <2>1, <4>2, <4>3, Numbers DEF Recorded
    <3> DEFINE n == Total(db)
    <3> HIDE DEF n
    <3>2. \A i \in DOMAIN db'.trades : i \in 1 .. n BY <3>1 DEF n
    <3> QED BY <2>2, <3>2 DEF n
  <2>4. Same BY <1>1, <1>5
  <2> QED BY <2>1, <2>2, <2>3, <2>4 DEF Log!Record, Recorded
<1>6. CASE ReaderAnswered BY <1>6, ReaderAnsweredSteps
<1> QED BY <1>2, <1>3, <1>4, <1>5, <1>6, WorkerCases

(* The handlers.                                                           *)
LEMMA ReaderSteps ==
  ASSUME IInv, NEW r \in Readers,
         \/ get_trades_count(r) \/ get_trades(r)
         \/ Respond(r) \/ Disconnect(r)
  PROVE  Log!Ask(r) \/ Log!Leave
<1>1. /\ r \in Callers /\ DOMAIN calls = Callers
      /\ UNCHANGED <<db, published>>
  BY FeedAssumption
  DEF IInv, RedbInv, RedbShape, get_trades_count, get_trades, Respond,
      Disconnect
<1>2. ASSUME NEW v, calls' = [calls EXCEPT ![r] = v] PROVE OnlyLook(r, v)
  BY <1>1, <1>2, FeedAssumption DEF OnlyLook
<1>3. ASSUME NEW request \in ReaderRequests, Run(r, request),
             calls[r].at = "none"
      PROVE  Log!Ask(r)
  <2> DEFINE v == [at |-> "sending", request |-> request]
  <2>1. calls' = [calls EXCEPT ![r] = v] BY <1>3 DEF Run
  <2>2. calls[r] = NoCall BY <1>1, <1>3, CallStates DEF IInv, RedbInv
  <2> HIDE DEF v
  <2>3. OnlyLook(r, v) BY <1>2, <2>1
  <2> QED BY <2>2, <2>3, Asks DEF v
<1>4. CASE get_trades_count(r) \/ get_trades(r)
  <2>1. PICK request \in ReaderRequests : Run(r, request)
    BY <1>4, RequestsOfReaders
  <2>2. calls[r].at = "none" BY <1>4 DEF get_trades_count, get_trades
  <2> QED BY <1>3, <2>1, <2>2
<1>5. CASE Respond(r) \/ Disconnect(r)
  <2>1. calls' = [calls EXCEPT ![r] = NoCall]
    BY <1>5 DEF Respond, Disconnect, Finish, Hangup
  <2> QED BY <1>2, <2>1, Leaves
<1> QED BY <1>4, <1>5

(* With the process every reader is gone.                                  *)
LEMMA RestartSteps == ASSUME IInv, Restart PROVE Log!Leave
<1>1. /\ calls' = [c \in Callers |-> NoCall] /\ db' = Open(db)
      /\ published' = published
  BY DEF Restart, RedbRestart
<1>2. db' = db BY <1>1, OpenOK DEF IInv
<1>3. \A r \in Readers : calls'[r] = NoCall BY <1>1, FeedAssumption
<1>4. /\ AskedOf(NoCall) = "no" /\ QuestionOf(NoCall) = <<>>
      /\ AnswerOf(NoCall) = <<>>
  BY DEF AskedOf, QuestionOf, AnswerOf, NoCall
<1>5. /\ [q \in Readers |-> AskedOf(calls[q])]'
           = [q \in Readers |->
                IF q \in Readers THEN "no"
                ELSE [p \in Readers |-> AskedOf(calls[p])][q]]
      /\ [q \in Readers |-> QuestionOf(calls[q])]'
           = [q \in Readers |->
                IF q \in Readers THEN <<>>
                ELSE [p \in Readers |-> QuestionOf(calls[p])][q]]
      /\ [q \in Readers |-> AnswerOf(calls[q])]'
           = [q \in Readers |->
                IF q \in Readers THEN <<>>
                ELSE [p \in Readers |-> AnswerOf(calls[p])][q]]
  BY <1>3, <1>4
<1>6. Readers \in SUBSET Readers OBVIOUS
<1> QED BY <1>1, <1>2, <1>5, <1>6 DEF Log!Leave

(* Every step of the server is a step of the log or does not show.         *)
LEMMA NextSteps ==
  ASSUME IInv, LogInv, [Next]_vars PROVE [Log!Next]_Log!logVars
<1>1. CASE RedbStep BY <1>1, RedbSteps
<1>2. CASE WorkerHandle BY <1>2, HandleSteps DEF Log!Next
<1>3. CASE WorkerFails BY <1>3, FailsSteps DEF Log!Next
<1>4. CASE \/ Connect \/ Disconnected \/ ReadOther
           \/ \E m \in TradeMessages : ReadTrades(m)
           \/ Counted \/ Checked \/ StoredId \/ StoredBatch \/ Abandon
  BY <1>4, FeedSteps
<1>5. CASE Publish \/ PublishFails BY <1>5, PublishSteps DEF Log!Next
<1>6. ASSUME NEW r \in Readers,
             \/ get_trades_count(r) \/ get_trades(r)
             \/ Respond(r) \/ Disconnect(r)
      PROVE  [Log!Next]_Log!logVars
  BY <1>6, ReaderSteps DEF Log!Next
<1>7. CASE Restart BY <1>7, RestartSteps DEF Log!Next
<1>8. CASE UNCHANGED vars
  <2>1. UNCHANGED <<db, published, calls>> BY <1>8 DEF vars, redb
  <2>2. \A r \in Readers : SameLook(calls'[r], calls[r])
    BY <2>1 DEF SameLook
  <2> QED BY <2>1, <2>2, Stutters
<1> QED
  BY <1>1, <1>2, <1>3, <1>4, <1>5, <1>6, <1>7, <1>8 DEF Next, FeedStep

(* Whatever fails and however often the process ends, the table of trades  *)
(* is a log that only grows at its end in the order of the exchange, what  *)
(* is published is in it, in its order and once, and what the handlers     *)
(* answer was true of it while their request was on its way.               *)
THEOREM LogImplemented == Spec => ImplementsLog
<1>1. Init => IInv /\ LogInv /\ Log!Init BY IInvInit, LogInvInit, LogInit
<1>2. IInv /\ LogInv /\ [Next]_vars => (IInv /\ LogInv)'
  BY NextInv, NextKeeps
<1>3. IInv /\ LogInv /\ [Next]_vars => [Log!Next]_Log!logVars BY NextSteps
<1> QED BY <1>1, <1>2, <1>3, PTL DEF Spec, ImplementsLog, Log!Spec

-----------------------------------------------------------------------------
(* The gaps.                                                               *)

IndicesOf(batch) == {row.index : row \in Members(batch)}

Gaps == 1 .. Total(db) \ (DOMAIN db.trades \cup IndicesInHand)

(* The next step of the feed gives its message up.                         *)
GivenUp == calls["feed"].at = "replied" /\ ~calls["feed"].reply.ok

HandsFit == Len(feed.batch) + Len(feed.todo) <= LongestMessage

(* A failure leaves gaps when the feed hears of it, not when it happens.   *)
GapInv ==
  /\ Cardinality(Gaps) + (IF GivenUp THEN LongestMessage ELSE 0)
       <= faults * LongestMessage
  /\ HandsFit

LEMMA LongestOK ==
  /\ LongestMessage \in Nat
  /\ \A m \in TradeMessages : Len(Complete(m)) <= LongestMessage
<1> DEFINE sizes == {Len(Complete(m)) : m \in TradeMessages}
<1>1. \A m \in TradeMessages : Len(Complete(m)) \in Nat BY FeedAssumption
<1>2. PICK longest \in TradeMessages :
        \A m \in TradeMessages : Len(Complete(m)) <= Len(Complete(longest))
  BY FeedAssumption
<1>3. \E x \in sizes : \A y \in sizes : x >= y
  <2>1. \A y \in sizes : Len(Complete(longest)) >= y BY <1>1, <1>2
  <2> QED BY <2>1
<1>4. Max(sizes) \in sizes /\ \A y \in sizes : Max(sizes) >= y
  BY <1>3 DEF Max
<1>5. \A m \in TradeMessages : LongestMessage >= Len(Complete(m))
  BY <1>4 DEF LongestMessage
<1>6. LongestMessage \in Nat BY <1>1, <1>4 DEF LongestMessage
<1> QED BY <1>1, <1>5, <1>6

LEMMA GapsCounted ==
  ASSUME IInv
  PROVE  IsFiniteSet(Gaps) /\ Cardinality(Gaps) \in Nat
<1> DEFINE n == Total(db)
<1>1. n \in Nat BY Numbers
<1> HIDE DEF n
<1>2. IsFiniteSet(1 .. n) BY <1>1, FS_Interval
<1>3. Gaps \in SUBSET (1 .. n) BY DEF Gaps, n
<1>4. IsFiniteSet(Gaps) BY <1>2, <1>3, FS_Subset
<1> QED BY <1>4, FS_CardinalityType

LEMMA BatchCounted ==
  ASSUME NEW S, NEW batch \in Seq(S)
  PROVE  /\ IsFiniteSet(IndicesOf(batch))
         /\ Cardinality(IndicesOf(batch)) \in Nat
         /\ Cardinality(IndicesOf(batch)) <= Len(batch)
<1> DEFINE n == Len(batch)
           places == 1 .. n
           f == [k \in places |-> batch[k].index]
<1>1. n \in Nat /\ DOMAIN batch = places OBVIOUS
<1>2. IsFiniteSet(places) /\ Cardinality(places) = n
  BY <1>1, FS_Interval
<1> HIDE DEF n, places
<1>3. IndicesOf(batch) = {batch[k].index : k \in places}
  BY <1>1 DEF IndicesOf, Members
<1>4. f \in Surjection(places, IndicesOf(batch))
  BY <1>3 DEF Surjection
<1>5. IsFiniteSet(IndicesOf(batch)) /\ Cardinality(IndicesOf(batch)) <= n
  BY <1>2, <1>4, FS_Surjection
<1> QED BY <1>5, FS_CardinalityType DEF n

(* An index in hand without a row in the batch is the last one handed out. *)
HandsKnown ==
  IndicesInHand = IndicesOf(feed.batch)
                    \cup (IF Numbered THEN {Total(db)} ELSE {})

LEMMA HandsAre == IInv => HandsKnown
<1> SUFFICES ASSUME IInv PROVE HandsKnown OBVIOUS
<1> USE DEF HandsKnown
<1>1. CASE feed.at \in {"check_id", "store_id"}
  <2>1. feed.index = Total(db) BY <1>1 DEF IInv, FeedOK, FeedFits
  <2>2. Numbered /\ feed.at # "next_counter" BY <1>1 DEF Numbered
  <2> QED BY <1>1, <2>1, <2>2 DEF IndicesInHand, IndicesOf
<1>2. CASE feed.at = "next_counter"
  <2>1. calls["feed"].at = "replied" /\ calls["feed"].reply.ok
          => Value = Total(db)
    BY <1>2 DEF IInv, FeedOK, FeedFits, Value, Ok
  <2>2. Numbered <=> calls["feed"].at = "replied" /\ calls["feed"].reply.ok
    BY <1>2 DEF Numbered
  <2> QED BY <1>2, <2>1, <2>2 DEF IndicesInHand, IndicesOf
<1>3. CASE feed.at \notin {"next_counter", "check_id", "store_id"}
  <2>1. ~Numbered BY <1>3 DEF Numbered
  <2> QED BY <1>3, <2>1 DEF IndicesInHand, IndicesOf
<1> QED BY <1>1, <1>2, <1>3

LEMMA HandsMove == ASSUME IInv, IInv' PROVE HandsKnown /\ HandsKnown'
<1>1. IInv' => HandsKnown' BY HandsAre, PTL
<1> QED BY <1>1, HandsAre

LEMMA HandsCounted ==
  ASSUME IInv, HandsFit
  PROVE  /\ IsFiniteSet(IndicesInHand)
         /\ Cardinality(IndicesInHand) \in Nat
         /\ Cardinality(IndicesInHand) <= LongestMessage
<1> DEFINE batch == IndicesOf(feed.batch)
           b == Len(feed.batch)
           t == Len(feed.todo)
<1>1. /\ feed.batch \in Seq(GoodRows(Total(db))) /\ t \in Nat
      /\ feed.todo # <<>> => t >= 1
  BY Numbers
<1>2. b \in Nat BY <1>1
<1>3. /\ IsFiniteSet(batch) /\ Cardinality(batch) \in Nat
      /\ Cardinality(batch) <= b
  <2> DEFINE good == GoodRows(Total(db))
  <2> HIDE DEF good
  <2>1. feed.batch \in Seq(good) BY <1>1 DEF good
  <2> QED BY <2>1, BatchCounted
<1>4. b + t <= LongestMessage /\ LongestMessage \in Nat
  BY LongestOK DEF HandsFit
<1>5. CASE Numbered
  <2>1. feed.todo # <<>> BY <1>5 DEF Numbered, IInv, FeedOK, FeedFits, Waits
  <2>2. IndicesInHand = batch \cup {Total(db)} BY <1>5, HandsAre DEF HandsKnown
  <2>3. /\ IsFiniteSet(IndicesInHand)
        /\ Cardinality(IndicesInHand) =
             IF Total(db) \in batch THEN Cardinality(batch)
             ELSE Cardinality(batch) + 1
    BY <1>3, <2>2, FS_AddElement
  <2> HIDE DEF batch, b, t
  <2> QED BY <1>1, <1>2, <1>3, <1>4, <2>1, <2>3
<1>6. CASE ~Numbered
  <2>1. IndicesInHand = batch BY <1>6, HandsAre DEF HandsKnown
  <2> HIDE DEF batch, b, t
  <2> QED BY <1>1, <1>2, <1>3, <1>4, <2>1
<1> QED BY <1>5, <1>6

LEMMA OneMore ==
  ASSUME NEW f \in Nat, NEW l \in Nat
  PROVE  f * l \in Nat /\ (f + 1) * l = f * l + l
OBVIOUS

(* What a step may do to the gaps: with a failure or when the feed gives   *)
(* its message up, what it has in hand becomes gaps.                       *)
LEMMA GapsMove ==
  ASSUME IInv, IInv', GapInv, HandsFit',
         \/ /\ faults' = faults /\ (GivenUp' => GivenUp)
            /\ Gaps' \subseteq Gaps
         \/ /\ faults' = faults /\ GivenUp /\ ~GivenUp'
            /\ Gaps' \subseteq Gaps \cup IndicesInHand
         \/ faults' = faults + 1 /\ Gaps' \subseteq Gaps
         \/ /\ faults' = faults + 1 /\ ~GivenUp'
            /\ Gaps' \subseteq Gaps \cup IndicesInHand
  PROVE  GapInv'
<1> DEFINE l == LongestMessage
           some == Cardinality(Gaps)
           many == Cardinality(Gaps')
           hand == Cardinality(IndicesInHand)
           both == Gaps \cup IndicesInHand
<1>1. /\ IsFiniteSet(Gaps) /\ some \in Nat
      /\ IsFiniteSet(IndicesInHand) /\ hand \in Nat /\ hand <= l
  BY GapsCounted, HandsCounted DEF GapInv
<1>2. l \in Nat BY LongestOK
<1>3. faults \in Nat
  <2>1. MaxFaults \in Nat BY FeedAssumption
  <2> QED BY <2>1 DEF IInv, HistoryOK
<1>4. IsFiniteSet(both) /\ Cardinality(both) <= some + hand
  <2>1. /\ IsFiniteSet(both)
        /\ Cardinality(both)
             = some + hand - Cardinality(Gaps \cap IndicesInHand)
    BY <1>1, FS_Union
  <2>2. IsFiniteSet(Gaps \cap IndicesInHand) BY <1>1, FS_Subset
  <2>3. Cardinality(Gaps \cap IndicesInHand) \in Nat
    BY <2>2, FS_CardinalityType
  <2> HIDE DEF both
  <2> QED BY <1>1, <2>1, <2>3
<1>5. Gaps' \subseteq Gaps => many \in Nat /\ many <= some
  <2>1. Gaps' \subseteq Gaps => IsFiniteSet(Gaps') /\ many <= some
    BY <1>1, FS_Subset
  <2> QED BY <2>1, FS_CardinalityType
<1>6. Gaps' \subseteq both => many \in Nat /\ many <= some + l
  <2>1. Cardinality(both) \in Nat BY <1>4, FS_CardinalityType
  <2>2. Gaps' \subseteq both =>
          IsFiniteSet(Gaps') /\ many <= Cardinality(both)
    <3> HIDE DEF both
    <3> QED BY <1>4, FS_Subset
  <2>3. Gaps' \subseteq both => many \in Nat BY <2>2, FS_CardinalityType
  <2> HIDE DEF both, many
  <2> QED BY <1>1, <1>2, <1>4, <2>1, <2>2, <2>3
<1>7. faults * l \in Nat /\ (faults + 1) * l = faults * l + l
  BY <1>2, <1>3, OneMore
<1>8. some + (IF GivenUp THEN l ELSE 0) <= faults * l BY DEF GapInv
<1> HIDE DEF some, many, l, both, hand
<1>9. many + (IF GivenUp' THEN l ELSE 0) <= faults' * l
  <2> DEFINE before == faults * l
  <2>1. before \in Nat /\ faults' = faults => faults' * l = before OBVIOUS
  <2>2. faults' = faults + 1 => faults' * l = before + l BY <1>7
  <2>3. before \in Nat /\ some + (IF GivenUp THEN l ELSE 0) <= before
    BY <1>7, <1>8
  <2> HIDE DEF before
  <2> QED BY <1>1, <1>2, <1>5, <1>6, <2>1, <2>2, <2>3 DEF both
<1> QED BY <1>9 DEF GapInv, many, l

(* What is not in hand any more is stored.                                 *)
LEMMA NoneLost ==
  ASSUME Total(db') = Total(db), DOMAIN db.trades \subseteq DOMAIN db'.trades,
         IndicesInHand \subseteq IndicesInHand' \cup DOMAIN db'.trades
  PROVE  Gaps' \subseteq Gaps
BY DEF Gaps

LEMMA SameHands ==
  ASSUME IInv, IInv', GapInv, faults' = faults, GivenUp' => GivenUp,
         Total(db') = Total(db), db'.trades = db.trades,
         feed'.batch = feed.batch, feed'.todo = feed.todo, Numbered => Numbered'
  PROVE  GapInv'
<1>1. HandsKnown /\ HandsKnown' BY HandsMove
<1>2. Gaps' \subseteq Gaps
  <2>1. IndicesInHand \subseteq IndicesInHand'
    BY <1>1 DEF HandsKnown, IndicesOf
  <2> QED BY <2>1, NoneLost
<1>3. HandsFit' BY DEF GapInv, HandsFit
<1> QED BY <1>2, <1>3, GapsMove

LEMMA StillFits ==
  ASSUME NEW a \in Nat, NEW b \in Nat, NEW l \in Nat, a + b <= l
  PROVE  (a + 1) + (b - 1) <= l /\ (a - 1) + b <= l
OBVIOUS

(* The feed begins or ends at its socket, with nothing in hand that is not *)
(* stored.                                                                 *)
LEMMA EmptyHands ==
  ASSUME IInv, LogInv, feed.at \in {"connecting", "reading"}
  PROVE  IndicesInHand = {} /\ ~GivenUp
<1>1. feed.batch = <<>> BY DEF LogInv, PlacesOK
<1>2. ~Numbered /\ calls["feed"] = NoCall
  BY DEF Numbered, IInv, FeedOK, FeedFits
<1>3. IndicesOf(<<>>) = {} BY DEF IndicesOf, Members
<1> QED BY <1>1, <1>2, <1>3, HandsAre DEF GivenUp, NoCall, HandsKnown

LEMMA SocketGaps ==
  ASSUME IInv, IInv', LogInv, GapInv, Connect \/ Disconnected \/ ReadOther
  PROVE  GapInv'
<1>1. /\ feed.at \in {"connecting", "reading"}
      /\ \E redis \in BOOLEAN, place \in {"connecting", "reading"} :
           feed' = FeedAt(place, redis)
      /\ UNCHANGED redb /\ UNCHANGED <<db, faults>>
  BY DEF Connect, Disconnected, ReadOther
<1>2. feed'.todo = feed.todo /\ feed'.batch = feed.batch
  BY <1>1 DEF FeedAt, LogInv, PlacesOK
<1>3. ~Numbered BY <1>1 DEF Numbered
<1>4. GivenUp' => GivenUp BY <1>1 DEF GivenUp, redb
<1> QED BY <1>1, <1>2, <1>3, <1>4, SameHands

LEMMA LoopGoes ==
  ASSUME IInv, NEW todo, NEW batch, NEW redis, Loop(todo, batch, redis)
  PROVE  feed'.todo = todo /\ feed'.batch = batch /\ ~GivenUp'
<1>1. feed'.todo = todo /\ feed'.batch = batch
  <2>1. CASE feed' = [FeedAt("next_counter", redis) EXCEPT !.todo = todo,
                                                           !.batch = batch]
    BY <2>1 DEF FeedAt
  <2>2. CASE /\ todo = <<>>
             /\ feed' = [FeedAt("store_batch", redis) EXCEPT !.batch = batch]
    BY <2>2 DEF FeedAt
  <2>3. CASE /\ todo = <<>> /\ batch = <<>>
             /\ feed' = FeedAt("reading", redis)
    BY <2>3 DEF FeedAt
  <2> QED BY <2>1, <2>2, <2>3 DEF Loop
<1>2. calls'["feed"].at \in {"sending", "none"}
  <2>1. "feed" \in DOMAIN calls
    BY FeedAssumption DEF IInv, RedbInv, RedbShape
  <2> QED BY <2>1 DEF Loop, Run, Finish, NoCall
<1> QED BY <1>1, <1>2 DEF GivenUp

LEMMA ReadTradesGaps ==
  ASSUME IInv, IInv', LogInv, GapInv, NEW m \in TradeMessages, ReadTrades(m)
  PROVE  GapInv'
<1> DEFINE trades == Complete(m)
           todo == [k \in 1 .. Len(trades) |-> Len(delivered) + k]
<1>1. feed.at = "reading" /\ UNCHANGED <<db, faults>> BY DEF ReadTrades
<1>2. PICK redis : Loop(todo, <<>>, redis) BY DEF ReadTrades
<1>3. Len(trades) \in Nat /\ Len(trades) <= LongestMessage
  BY FeedAssumption, LongestOK
<1> HIDE DEF trades
<1>4. Len(todo) = Len(trades) BY <1>3
<1> HIDE DEF todo
<1>5. feed'.todo = todo /\ feed'.batch = <<>> /\ ~GivenUp'
  BY <1>2, LoopGoes
<1>6. HandsFit' BY <1>3, <1>4, <1>5 DEF HandsFit
<1>7. IndicesInHand = {} BY <1>1, EmptyHands
<1>8. Gaps' \subseteq Gaps BY <1>1, <1>7, NoneLost
<1> QED BY <1>1, <1>5, <1>6, <1>8, GapsMove

LEMMA ReadersGaps ==
  ASSUME IInv, IInv', GapInv, NEW r \in Readers,
         \/ get_trades_count(r) \/ get_trades(r)
         \/ Respond(r) \/ Disconnect(r)
  PROVE  GapInv'
<1>1. \E v : calls' = [calls EXCEPT ![r] = v]
  BY DEF get_trades_count, get_trades, Respond, Disconnect, Run, Finish, Hangup
<1>2. DOMAIN calls = Callers BY DEF IInv, RedbInv, RedbShape
<1>3. calls'["feed"] = calls["feed"] BY <1>1, <1>2, FeedAssumption
<1>4. UNCHANGED <<db, feed, faults>>
  BY DEF get_trades_count, get_trades, Respond, Disconnect
<1>5. (GivenUp' => GivenUp) /\ (Numbered => Numbered')
  BY <1>3, <1>4 DEF GivenUp, Numbered
<1> QED BY <1>4, <1>5, SameHands

LEMMA RedbGaps == ASSUME IInv, IInv', GapInv, RedbStep PROVE GapInv'
<1>1. UNCHANGED <<db, feed, faults>> BY DEF RedbStep
<1>2. \/ calls'["feed"] = calls["feed"]
      \/ calls["feed"].at # "replied" /\ calls'["feed"].at # "replied"
  <2>1. CASE WorkerRecv BY <2>1 DEF WorkerRecv
  <2>2. ASSUME NEW c \in Callers, Send(c)
        PROVE  \/ calls'["feed"] = calls["feed"]
               \/ calls["feed"].at # "replied" /\ calls'["feed"].at # "replied"
    <3> DEFINE v == [at |-> "awaiting", request |-> calls[c].request]
    <3>1. calls[c].at = "sending" /\ OnlyCall(c, v)
      BY <2>2, SendInv DEF IInv
    <3>2. v.at # "replied" OBVIOUS
    <3> HIDE DEF v
    <3> QED BY <3>1, <3>2, FeedAssumption DEF OnlyCall
  <2> QED BY <2>1, <2>2 DEF RedbStep
<1>3. (GivenUp' => GivenUp) /\ (Numbered => Numbered')
  BY <1>1, <1>2 DEF GivenUp, Numbered
<1> QED BY <1>1, <1>3, SameHands

(* The feed hears of a failure with its next step, a reader keeps to       *)
(* itself what it hears.                                                   *)
LEMMA FailsGaps == ASSUME IInv, IInv', GapInv, WorkerFails PROVE GapInv'
<1>1. /\ Reply(Err) /\ UNCHANGED <<db, feed>> /\ faults' = faults + 1
  BY DEF WorkerFails
<1>2. Numbered => Numbered'
  <2>1. CASE worker[1].from = "feed"
    <3>1. calls["feed"].at = "awaiting"
      <4>1. worker # <<>> BY <1>1 DEF Reply
      <4> QED BY <2>1, <4>1, HeldRequest
    <3> QED BY <1>1, <3>1 DEF Numbered
  <2>2. CASE worker[1].from # "feed"
    <3>1. calls'["feed"] = calls["feed"] BY <1>1, <2>2, FeedCallAfter
    <3> QED BY <1>1, <3>1 DEF Numbered
  <2> QED BY <2>1, <2>2
<1>3. HandsKnown /\ HandsKnown' BY HandsMove
<1>4. IndicesInHand \subseteq IndicesInHand'
  BY <1>1, <1>2, <1>3 DEF HandsKnown, IndicesOf
<1>5. Gaps' \subseteq Gaps BY <1>1, <1>4, NoneLost
<1>6. HandsFit' BY <1>1 DEF GapInv, HandsFit
<1> QED BY <1>1, <1>5, <1>6, GapsMove

LEMMA HandleGaps ==
  ASSUME IInv, IInv', LogInv, GapInv, WorkerHandle
  PROVE  GapInv'
<1>1. ASSUME NEW place, NEW result, AnsweredAt(place, result)
      PROVE  ~GivenUp' /\ feed' = feed /\ faults' = faults
  BY <1>1 DEF AnsweredAt, GivenUp, Ok
<1>2. HandsFit /\ (feed' = feed => HandsFit') BY DEF GapInv, HandsFit
<1>3. CASE ReaderAnswered
  <2>1. (GivenUp' => GivenUp) /\ (Numbered => Numbered')
    BY <1>3 DEF ReaderAnswered, GivenUp, Numbered
  <2> QED BY <1>3, <2>1, SameHands DEF ReaderAnswered
<1>4. CASE AnsweredAt("next_counter", Handled(db, NextTradeCounter))
  <2> DEFINE n == Total(db)
  <2>1. Total(db') = n + 1 /\ db'.trades = db.trades BY <1>4, CounterKeeps
  <2>2. Numbered' /\ ~Numbered BY <1>4 DEF AnsweredAt, Numbered, Ok
  <2>3. HandsKnown /\ HandsKnown' BY HandsMove
  <2>4. IndicesInHand' = IndicesInHand \cup {n + 1}
    BY <1>1, <1>4, <2>1, <2>2, <2>3 DEF HandsKnown, IndicesOf
  <2>5. n \in Nat BY Numbers
  <2> HIDE DEF n
  <2>6. \A i \in 1 .. n + 1 : i \in 1 .. n \/ i = n + 1 BY <2>5
  <2>7. Gaps' \subseteq Gaps BY <2>1, <2>4, <2>6 DEF Gaps, n
  <2> QED BY <1>1, <1>2, <1>4, <2>7, GapsMove
<1>5. ASSUME NEW place \in {"check_id", "store_id"}, NEW result,
             AnsweredAt(place, result),
             result.db.trades = db.trades, Total(result.db) = Total(db)
      PROVE  GapInv'
  <2>1. db'.trades = db.trades /\ Total(db') = Total(db)
    BY <1>5 DEF AnsweredAt
  <2>2. Numbered => Numbered' BY <1>5 DEF AnsweredAt, Numbered
  <2> QED BY <1>1, <1>5, <2>1, <2>2, SameHands
<1>6. ASSUME NEW x \in Ids,
             AnsweredAt("check_id", Handled(db, CheckIdExists(x)))
      PROVE  GapInv'
  <2> DEFINE result == Handled(db, CheckIdExists(x))
  <2>1. result.db = db BY DEF Handled, CheckIdExists, Result
  <2> HIDE DEF result
  <2>2. AnsweredAt("check_id", result) BY <1>6 DEF result
  <2> QED BY <1>5, <2>1, <2>2
<1>7. ASSUME NEW x \in Ids, x[1] <= Total(db),
             AnsweredAt("store_id", Handled(db, StoreIdWithIndex(x, x[1])))
      PROVE  GapInv'
  <2> DEFINE result == Handled(db, StoreIdWithIndex(x, x[1]))
  <2>1. result.db.trades = db.trades /\ Total(result.db) = Total(db)
    BY <1>7, StoreIdOK DEF IInv
  <2> HIDE DEF result
  <2>2. AnsweredAt("store_id", result) BY <1>7 DEF result
  <2> QED BY <1>5, <2>1, <2>2
<1>8. CASE AnsweredAt("store_batch",
                      Handled(db, StoreTradeBatch(feed.batch)))
  <2>1. Total(db') = Total(db) /\ Recorded BY <1>8, BatchKeeps
  <2>2. ~Numbered BY <1>8 DEF AnsweredAt, Numbered
  <2>3. HandsKnown /\ HandsKnown' BY HandsMove
  <2>4. IndicesInHand \subseteq IndicesInHand'
    BY <1>1, <1>8, <2>2, <2>3 DEF HandsKnown, IndicesOf
  <2>5. Gaps' \subseteq Gaps BY <2>1, <2>4, NoneLost DEF Recorded
  <2> QED BY <1>1, <1>2, <1>8, <2>5, GapsMove
<1> QED BY <1>3, <1>4, <1>6, <1>7, <1>8, WorkerCases

LEMMA AsksGaps ==
  ASSUME IInv, IInv', LogInv, GapInv, Counted \/ Checked
  PROVE  GapInv'
<1>1. UNCHANGED <<db, faults>> BY DEF Counted, Checked, Answered
<1>2. /\ feed'.at \in {"check_id", "store_id"}
      /\ feed'.todo = feed.todo /\ feed'.batch = feed.batch
      /\ \E request : Run("feed", request)
  <2>1. CASE Counted
    BY <2>1 DEF Counted, IInv, FeedOK, FeedTyped
  <2>2. CASE Checked
    <3>1. /\ feed.at = "check_id" /\ calls["feed"].at = "replied"
          /\ calls["feed"].reply.ok
      BY <2>2 DEF Checked, Answered
    <3>2. calls["feed"].reply \in {Err, Ok(FALSE)}
      BY <3>1 DEF IInv, FeedOK, FeedFits
    <3>3. Err.ok = FALSE BY DEF Err
    <3>4. calls["feed"].reply = Ok(FALSE) BY <3>1, <3>2, <3>3
    <3>5. ~Value BY <3>4 DEF Value, Ok
    <3> QED BY <2>2, <3>1, <3>5 DEF Checked, Known, IInv, FeedOK, FeedTyped
  <2> QED BY <2>1, <2>2
<1>3. Numbered' BY <1>2 DEF Numbered
<1>4. ~GivenUp'
  <2>1. "feed" \in DOMAIN calls
    BY FeedAssumption DEF IInv, RedbInv, RedbShape
  <2>2. PICK request : Run("feed", request) BY <1>2
  <2>3. calls'["feed"] = [at |-> "sending", request |-> request]
    BY <2>1, <2>2 DEF Run
  <2> QED BY <2>3 DEF GivenUp
<1> QED BY <1>1, <1>2, <1>3, <1>4, SameHands

LEMMA StoredIdGaps ==
  ASSUME IInv, IInv', LogInv, GapInv, StoredId
  PROVE  GapInv'
<1> DEFINE trade == [id |-> TradeId(feed.index), index |-> feed.index,
                     nth |-> Head(feed.todo)]
           todo == Tail(feed.todo)
           batch == Append(feed.batch, trade)
           good == GoodRows(Total(db))
           few == 1 .. Len(delivered)
<1>1. /\ feed.at = "store_id" /\ Loop(todo, batch, feed.redis)
      /\ UNCHANGED <<db, faults>>
  BY DEF StoredId, Answered
<1>2. feed.todo # <<>> /\ feed.index = Total(db)
  BY <1>1 DEF IInv, FeedOK, FeedFits
<1>3. feed.batch \in Seq(good) /\ feed.todo \in Seq(few) BY Numbers
<1>4. trade.index = Total(db) BY <1>2
<1> HIDE DEF trade
<1>5. feed'.todo = todo /\ feed'.batch = batch /\ ~GivenUp'
  BY <1>1, LoopGoes
<1> DEFINE any == good \cup {trade}
<1>6. feed.batch \in Seq(any) /\ trade \in any BY <1>3
<1> HIDE DEF good, few, any
<1>7. Len(batch) = Len(feed.batch) + 1 /\ Len(feed.batch) \in Nat BY <1>6
<1>8. Len(todo) = Len(feed.todo) - 1 /\ Len(feed.todo) \in Nat
  BY <1>2, <1>3, TailOf
<1>9. Members(batch) = Members(feed.batch) \cup {trade}
  BY <1>6, AppendMembers
<1> HIDE DEF batch, todo
<1>10. HandsFit'
  <2>1. Len(feed.batch) + Len(feed.todo) <= LongestMessage
    BY DEF GapInv, HandsFit
  <2>2. Len(batch) + Len(todo) <= LongestMessage
    BY <1>7, <1>8, <2>1, LongestOK, StillFits
  <2> QED BY <1>5, <2>2 DEF HandsFit
<1>11. Numbered BY <1>1 DEF Numbered
<1>12. HandsKnown /\ HandsKnown' BY HandsMove
<1>13. IndicesOf(batch) = IndicesOf(feed.batch) \cup {Total(db)}
  BY <1>4, <1>9 DEF IndicesOf
<1>14. IndicesInHand \subseteq IndicesInHand'
  BY <1>5, <1>11, <1>12, <1>13 DEF HandsKnown, IndicesOf
<1>15. Gaps' \subseteq Gaps BY <1>1, <1>14, NoneLost
<1> QED BY <1>1, <1>5, <1>10, <1>15, GapsMove

(* The feed lets rows go that are stored.                                  *)
LEMMA StoredLetGo ==
  ASSUME IInv, IInv', LogInv, GapInv, BatchStored, UNCHANGED <<db, faults>>,
         ~GivenUp', HandsFit'
  PROVE  GapInv'
<1>1. ~Numbered BY DEF BatchStored, Numbered
<1>2. IndicesOf(feed.batch) \subseteq DOMAIN db.trades
  BY DEF LogInv, BatchOK, IndicesOf
<1>3. IndicesInHand = IndicesOf(feed.batch) BY <1>1, HandsAre DEF HandsKnown
<1>4. Gaps' \subseteq Gaps BY <1>2, <1>3, NoneLost
<1> QED BY <1>4, GapsMove

LEMMA NothingFits ==
  ASSUME feed'.todo = <<>>, feed'.batch = <<>> PROVE HandsFit'
<1>1. Len(<<>>) = 0 OBVIOUS
<1> QED BY <1>1, LongestOK DEF HandsFit

LEMMA StoredBatchGaps ==
  ASSUME IInv, IInv', LogInv, GapInv, StoredBatch
  PROVE  GapInv'
<1>1. /\ BatchStored /\ Finish("feed") /\ UNCHANGED <<db, faults>>
      /\ feed' = IF feed.redis THEN [feed EXCEPT !.at = "publish"]
                 ELSE FeedAt("reading", FALSE)
  BY DEF StoredBatch, Answered, BatchStored
<1>2. ~GivenUp'
  <2>1. "feed" \in DOMAIN calls
    BY FeedAssumption DEF IInv, RedbInv, RedbShape
  <2> QED BY <1>1, <2>1 DEF Finish, NoCall, GivenUp
<1>3. HandsFit'
  <2>1. CASE feed.redis
    BY <1>1, <2>1 DEF IInv, FeedOK, FeedTyped, GapInv, HandsFit
  <2>2. CASE ~feed.redis BY <1>1, <2>2, NothingFits DEF FeedAt
  <2> QED BY <2>1, <2>2
<1> QED BY <1>1, <1>2, <1>3, StoredLetGo

LEMMA PublishGaps ==
  ASSUME IInv, IInv', LogInv, GapInv, Publish \/ PublishFails
  PROVE  GapInv'
<1>1. feed.at = "publish" /\ UNCHANGED <<redb, db, faults>>
  BY DEF Publish, PublishFails
<1>2. BatchStored BY <1>1 DEF BatchStored
<1>3. ~GivenUp'
  <2>1. calls["feed"] = NoCall /\ calls' = calls
    BY <1>1 DEF IInv, FeedOK, FeedFits, redb
  <2> QED BY <2>1 DEF GivenUp, NoCall
<1>4. CASE \E redis : feed' = FeedAt("reading", redis)
  <2>1. HandsFit' BY <1>4, NothingFits DEF FeedAt
  <2> QED BY <1>1, <1>2, <1>3, <2>1, StoredLetGo
<1>5. CASE feed' = [feed EXCEPT !.batch = Tail(@)]
  <2> DEFINE good == GoodRows(Total(db))
  <2>1. feed.batch \in Seq(good) /\ Len(feed.todo) \in Nat /\ feed.batch # <<>>
    BY <1>1, Numbers, Publishing
  <2> HIDE DEF good
  <2>2. Len(feed.batch) \in Nat /\ Len(Tail(feed.batch)) = Len(feed.batch) - 1
    BY <2>1, TailOf
  <2>3. feed'.batch = Tail(feed.batch) /\ feed'.todo = feed.todo
    BY <1>5 DEF IInv, FeedOK, FeedTyped
  <2>4. Len(feed.batch) + Len(feed.todo) <= LongestMessage
    BY DEF GapInv, HandsFit
  <2>5. Len(Tail(feed.batch)) + Len(feed.todo) <= LongestMessage
    BY <2>1, <2>2, <2>4, LongestOK, StillFits
  <2>6. HandsFit' BY <2>3, <2>5 DEF HandsFit
  <2> QED BY <1>1, <1>2, <1>3, <2>6, StoredLetGo
<1> QED BY <1>4, <1>5 DEF Publish, PublishFails

(* What the feed gives up, with its message or with the process, was in    *)
(* its hand.                                                               *)
LEMMA GaveUp ==
  ASSUME UNCHANGED db PROVE Gaps' \subseteq Gaps \cup IndicesInHand
BY DEF Gaps

LEMMA AbandonGaps ==
  ASSUME IInv, IInv', GapInv, Abandon PROVE GapInv'
<1>1. /\ GivenUp /\ Finish("feed") /\ feed' = FeedAt("reading", feed.redis)
      /\ UNCHANGED <<db, faults>>
  BY DEF Abandon, GivenUp
<1>2. ~GivenUp'
  <2>1. "feed" \in DOMAIN calls
    BY FeedAssumption DEF IInv, RedbInv, RedbShape
  <2> QED BY <1>1, <2>1 DEF Finish, NoCall, GivenUp
<1>3. HandsFit' BY <1>1, NothingFits DEF FeedAt
<1> QED BY <1>1, <1>2, <1>3, GaveUp, GapsMove

LEMMA RestartGaps == ASSUME IInv, IInv', GapInv, Restart PROVE GapInv'
<1>1. /\ faults' = faults + 1 /\ calls' = [c \in Callers |-> NoCall]
      /\ db' = Open(db) /\ feed' = FeedAt("connecting", FALSE)
  BY DEF Restart, RedbRestart
<1>2. db' = db BY <1>1, OpenOK DEF IInv
<1>3. ~GivenUp' BY <1>1, FeedAssumption DEF GivenUp, NoCall
<1>4. HandsFit' BY <1>1, NothingFits DEF FeedAt
<1> QED BY <1>1, <1>2, <1>3, <1>4, GaveUp, GapsMove

LEMMA GapInit == ASSUME Init PROVE GapInv
<1>1. /\ feed.at = "connecting" /\ feed.todo = <<>> /\ feed.batch = <<>>
      /\ faults = 0
  BY DEF Init, FeedAt
<1>2. Total(db) = 0 BY DEF Init, Open, EmptyDb, WithTotal, Total, Inserted
<1>3. Gaps = {} BY <1>2 DEF Gaps
<1>4. ~GivenUp BY FeedAssumption DEF Init, RedbInit, NoCall, GivenUp
<1>5. Cardinality(Gaps) = 0 BY <1>3, FS_EmptySet
<1>6. Len(<<>>) = 0 /\ LongestMessage \in Nat BY LongestOK
<1>7. 0 * LongestMessage = 0 BY <1>6
<1>8. HandsFit BY <1>1, <1>6 DEF HandsFit
<1> QED BY <1>1, <1>4, <1>5, <1>7, <1>8 DEF GapInv

LEMMA NextGaps ==
  ASSUME IInv, IInv', LogInv, GapInv, [Next]_vars PROVE GapInv'
<1>1. CASE Connect \/ Disconnected \/ ReadOther BY <1>1, SocketGaps
<1>2. CASE \E m \in TradeMessages : ReadTrades(m) BY <1>2, ReadTradesGaps
<1>3. ASSUME NEW r \in Readers,
             \/ get_trades_count(r) \/ get_trades(r)
             \/ Respond(r) \/ Disconnect(r)
      PROVE  GapInv'
  BY <1>3, ReadersGaps
<1>4. CASE RedbStep \/ WorkerHandle \/ WorkerFails
  BY <1>4, RedbGaps, HandleGaps, FailsGaps
<1>5. CASE FeedStep
  BY <1>5, AsksGaps, StoredIdGaps, StoredBatchGaps, AbandonGaps, PublishGaps
  DEF FeedStep
<1>6. CASE UNCHANGED vars
  <2>1. /\ UNCHANGED <<db, feed, faults>> /\ (GivenUp' => GivenUp)
        /\ (Numbered => Numbered')
    BY <1>6 DEF vars, redb, GivenUp, Numbered
  <2> QED BY <2>1, SameHands
<1>7. CASE Restart BY <1>7, RestartGaps
<1> QED BY <1>1, <1>2, <1>3, <1>4, <1>5, <1>6, <1>7 DEF Next

(* However the requests of readers and feed interleave, an index without a *)
(* row is left by failures only, and by each no more of them than the      *)
(* longest message has trades.                                             *)
THEOREM GapsBounded == Spec => []GapsFromFaults
<1>1. Init => IInv /\ LogInv /\ GapInv BY IInvInit, LogInvInit, GapInit
<1>2. IInv /\ LogInv /\ [Next]_vars => (IInv /\ LogInv)'
  BY NextInv, NextKeeps
<1>3. IInv /\ IInv' /\ LogInv /\ GapInv /\ [Next]_vars => GapInv'
  BY NextGaps
<1>4. IInv /\ GapInv => GapsFromFaults
  <2> SUFFICES ASSUME IInv, GapInv PROVE GapsFromFaults OBVIOUS
  <2> DEFINE some == Cardinality(Gaps)
             bound == faults * LongestMessage
  <2>1. LongestMessage \in Nat /\ some \in Nat BY LongestOK, GapsCounted
  <2>2. faults \in Nat
    <3>1. MaxFaults \in Nat BY FeedAssumption
    <3> QED BY <3>1 DEF IInv, HistoryOK
  <2>3. bound \in Nat BY <2>1, <2>2, OneMore
  <2>4. some + (IF GivenUp THEN LongestMessage ELSE 0) <= bound BY DEF GapInv
  <2> HIDE DEF some, bound
  <2>5. some <= bound BY <2>1, <2>3, <2>4
  <2> QED BY <2>5 DEF GapsFromFaults, Gaps, some, bound
<1> QED BY <1>1, <1>2, <1>3, <1>4, PTL DEF Spec
=============================================================================
