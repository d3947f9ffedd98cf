----------------------------- MODULE TradeFeed -----------------------------
(***************************************************************************)
(* The server of step12_ws_feed: a task that reads trades from a WebSocket *)
(* and takes each through the database and to Redis, HTTP handlers that    *)
(* read the stored trades, and the process that may end at any time and    *)
(* starts again on the same database file.                                 *)
(*                                                                         *)
(* Each request to the database is a transaction of its own; one message   *)
(* takes three requests per trade and one for all its trades.  A trade is  *)
(* the n-th one the exchange sent, `delivered[n]`; a row of the table      *)
(* carries n, which the program does not know, beside its id.              *)
(***************************************************************************)
EXTENDS AsyncRedb, Integers, FiniteSetsExt

CONSTANTS
  Readers,       \* HTTP requests of /trades and /trades/count
  Trades,        \* the trades of the exchange, by what distinguishes them
  Price,         \* Price[t]: the price of trade t, part of its id
  TradeMessages, \* the messages of the exchange: sequences over Trades and
                 \* over TooShort, the entries with fewer than five fields
  TooShort,
  StartIndices,  \* what `start_index` a reader asks for
  Limits,        \* what `limit` a reader asks for
  MaxBatchSize,  \* MAX_BATCH_SIZE (1000)
  MaxDelivered,  \* bound: how many trades the exchange sends
  MaxFaults      \* bound: how many transactions fail or processes end

(* The entries of a message that the loop does not pass over.              *)
Complete(m) == SelectSeq(m, LAMBDA entry : entry \notin TooShort)

ASSUME FeedAssumption ==
  /\ "feed" \notin Readers
  /\ Callers = Readers \cup {"feed"}
  /\ \A m \in TradeMessages : Complete(m) \in Seq(Trades)
  /\ \E longest \in TradeMessages :
       \A m \in TradeMessages : Len(Complete(m)) <= Len(Complete(longest))
  /\ StartIndices \subseteq Nat /\ Limits \subseteq Nat
  /\ MaxBatchSize \in Nat /\ MaxDelivered \in Nat /\ MaxFaults \in Nat

VARIABLES
  db,            \* the tables TRADES_META, TRADES and TRADE_IDS
  feed,          \* where ws_task is, with the locals of handle_ws_message
  delivered,     \* history: the trades the exchange sent, in order
  published,     \* history: the indices of the trades published
  faults,        \* history: how many transactions failed or processes ended
  redis_lost     \* history: whether Redis was once out of reach

vars == <<redb, db, feed, delivered, published, faults, redis_lost>>

-----------------------------------------------------------------------------
(* The database.                                                           *)

EmptyDb == [trades_meta |-> <<>>, trades |-> <<>>, trade_ids |-> <<>>]

(* `get("total")?.map(...).unwrap_or(0)`                                   *)
Total(d) == IF "total" \in DOMAIN d.trades_meta THEN d.trades_meta["total"] ELSE 0

WithTotal(d, n) ==
  [d EXCEPT !.trades_meta = Inserted(d.trades_meta, "total", n)]

(* Mutant: the counter starts again with every process.                    *)
OpenAnew(d) == WithTotal(d, 0)

(* The transaction with which main begins.                                 *)
Open(d) == IF "total" \in DOMAIN d.trades_meta THEN d ELSE WithTotal(d, 0)

NextTradeCounter       == [do |-> "NextTradeCounter"]
CheckIdExists(id)      == [do |-> "CheckIdExists", id |-> id]
StoreIdWithIndex(id, index) ==
  [do |-> "StoreIdWithIndex", id |-> id, index |-> index]
StoreTradeBatch(trades) == [do |-> "StoreTradeBatch", trades |-> trades]
TotalTradesCount       == [do |-> "Count"]
TradesByRange(start, limit) ==
  [do |-> "Range", start |-> start, limit |-> limit]

Result(d, value) == [db |-> d, value |-> value]

(* Mutant: the increment is computed and not written.                      *)
CountWithoutInsert(d) == Result(d, Total(d) + 1)

(* Two transactions, but the one thread runs nothing in between.           *)
Count(d) == Result(WithTotal(d, Total(d) + 1), Total(d) + 1)

StoreId(d, id, index) ==
  Result([d EXCEPT !.trade_ids = Inserted(d.trade_ids, id, index)], <<>>)

(* The rows and ids of a batch, whose indices are all different.           *)
StoreBatch(d, batch) ==
  LET Of(i)   == CHOOSE k \in DOMAIN batch : batch[k].index = i
      With(x) == CHOOSE k \in DOMAIN batch : batch[k].id = x
      rows == [i \in {batch[k].index : k \in DOMAIN batch} |-> batch[Of(i)]]
      ids  == [x \in {batch[k].id : k \in DOMAIN batch} |-> batch[With(x)].index]
  IN Result([d EXCEPT !.trades = InsertedAll(d.trades, rows),
                      !.trade_ids = InsertedAll(d.trade_ids, ids)],
            Len(batch))

(* Mutant: the loop goes over a missing row.                               *)
PageOverGaps(d, start, limit) ==
  LET there == {i \in start .. start + limit - 1 : i \in DOMAIN d.trades}
      Nth(k) == CHOOSE i \in there : Cardinality({j \in there : j <= i}) = k
  IN [k \in 1 .. Cardinality(there) |-> d.trades[Nth(k)]]

(* The rows from `start` on; the loop breaks at the first missing one.     *)
Page(d, start, limit) ==
  LET missing == {k \in 0 .. limit - 1 : start + k \notin DOMAIN d.trades}
      size == IF missing = {} THEN limit ELSE Min(missing)
  IN [k \in 1 .. size |-> d.trades[start + k - 1]]

(* What the transaction of a request does to the tables, and its reply.    *)
Handled(d, request) ==
  CASE request.do = "NextTradeCounter" -> Count(d)
    [] request.do = "CheckIdExists" ->
         Result(d, request.id \in DOMAIN d.trade_ids)
    [] request.do = "StoreIdWithIndex" -> StoreId(d, request.id, request.index)
    [] request.do = "StoreTradeBatch" -> StoreBatch(d, request.trades)
    [] request.do = "Count" -> Result(d, Total(d))
    [] request.do = "Range" -> Result(d, Page(d, request.start, request.limit))

WorkerHandle ==
  /\ worker # <<>>
  /\ LET result == Handled(db, worker[1].request)
     IN db' = result.db /\ Reply(Ok(result.value))
  /\ UNCHANGED <<feed, delivered, published, faults, redis_lost>>

(* A step of the transaction fails: it is rolled back.                     *)
WorkerFails ==
  /\ faults < MaxFaults
  /\ Reply(Err)
  /\ faults' = faults + 1
  /\ UNCHANGED <<db, feed, delivered, published, redis_lost>>

-----------------------------------------------------------------------------
(* ws_task.                                                                *)

FeedAt(place, redis) ==
  [at |-> place, redis |-> redis, todo |-> <<>>, index |-> 0, batch |-> <<>>]

Init ==
  /\ RedbInit
  /\ db = Open(EmptyDb)
  /\ feed = FeedAt("connecting", FALSE)
  /\ delivered = <<>> /\ published = <<>>
  /\ faults = 0 /\ redis_lost = FALSE

(* Redis first, which may fail, and then the WebSocket.                    *)
Connect ==
  /\ feed.at = "connecting"
  /\ \E redis \in BOOLEAN :
       feed' = FeedAt("reading", redis)
  /\ UNCHANGED <<redb, db, delivered, published, faults, redis_lost>>

(* The socket is closed or fails, or a pong cannot be sent.                *)
Disconnected ==
  /\ feed.at = "reading"
  /\ feed' = FeedAt("connecting", FALSE)
  /\ UNCHANGED <<redb, db, delivered, published, faults, redis_lost>>

(* Whatever the socket yields, Redis is tried again first.                 *)
Reconnected(redis) == feed.redis => redis

(* A message that is not about trades, or cannot be parsed.                *)
ReadOther ==
  /\ feed.at = "reading"
  /\ \E redis \in BOOLEAN :
       /\ Reconnected(redis)
       /\ feed' = FeedAt("reading", redis)
  /\ UNCHANGED <<redb, db, delivered, published, faults, redis_lost>>

(* Mutant: a batch of one is taken for an empty one.                       *)
LoopFromTwo(todo, batch, redis) ==
  \/ /\ todo # <<>>
     /\ feed' = [FeedAt("next_counter", redis) EXCEPT !.todo = todo,
                                                      !.batch = batch]
     /\ Run("feed", NextTradeCounter)
  \/ /\ todo = <<>> /\ Len(batch) > 1
     /\ feed' = [FeedAt("store_batch", redis) EXCEPT !.batch = batch]
     /\ Run("feed", StoreTradeBatch(batch))
  \/ /\ todo = <<>> /\ Len(batch) <= 1
     /\ feed' = FeedAt("reading", redis)
     /\ Finish("feed")

(* From one iteration of the loop over the trades of a message to the next *)
(* `.await`: of the next trade, of the whole batch, or of the next message. *)
Loop(todo, batch, redis) ==
  \/ /\ todo # <<>>
     /\ feed' = [FeedAt("next_counter", redis) EXCEPT !.todo = todo,
                                                      !.batch = batch]
     /\ Run("feed", NextTradeCounter)
  \/ /\ todo = <<>> /\ batch # <<>>
     /\ feed' = [FeedAt("store_batch", redis) EXCEPT !.batch = batch]
     /\ Run("feed", StoreTradeBatch(batch))
  \/ /\ todo = <<>> /\ batch = <<>>
     /\ feed' = FeedAt("reading", redis)
     /\ Finish("feed")

(* handle_ws_message is called with a message about trades.                *)
ReadTrades(m) ==
  LET trades == Complete(m)
      todo   == [k \in 1 .. Len(trades) |-> Len(delivered) + k]
  IN /\ feed.at = "reading"
     /\ Len(delivered) + Len(trades) <= MaxDelivered
     /\ delivered' = delivered \o trades
     /\ \E redis \in BOOLEAN :
          /\ Reconnected(redis)
          /\ redis_lost' = (redis_lost \/ ~redis)
          /\ Loop(todo, <<>>, redis)
     /\ UNCHANGED <<db, published, faults>>

(* The database has answered what handle_ws_message awaits at `place`.     *)
Answered(place) ==
  /\ feed.at = place
  /\ calls["feed"].at = "replied" /\ calls["feed"].reply.ok
  /\ UNCHANGED <<db, delivered, faults>>

Value == calls["feed"].reply.value

(* format!("{}-{}", index, price)                                          *)
TradeId(index) == <<index, Price[delivered[Head(feed.todo)]]>>

Counted ==
  /\ Answered("next_counter")
  /\ feed' = [feed EXCEPT !.at = "check_id", !.index = Value]
  /\ Run("feed", CheckIdExists(TradeId(Value)))
  /\ UNCHANGED <<published, redis_lost>>

(* Mutant: the id is taken for a known one when it is not.                 *)
IsKnown(exists) == ~exists

Known(exists) == exists

Checked ==
  /\ Answered("check_id")
  /\ \/ /\ Known(Value)
        /\ Loop(Tail(feed.todo), feed.batch, feed.redis)
     \/ /\ ~Known(Value)
        /\ feed' = [feed EXCEPT !.at = "store_id"]
        /\ Run("feed", StoreIdWithIndex(TradeId(feed.index), feed.index))
  /\ UNCHANGED <<published, redis_lost>>

StoredId ==
  LET trade == [id |-> TradeId(feed.index), index |-> feed.index,
                nth |-> Head(feed.todo)]
  IN /\ Answered("store_id")
     /\ Loop(Tail(feed.todo), Append(feed.batch, trade), feed.redis)
     /\ UNCHANGED <<published, redis_lost>>

StoredBatch ==
  /\ Answered("store_batch")
  /\ feed' = IF feed.redis THEN [feed EXCEPT !.at = "publish"]
             ELSE FeedAt("reading", FALSE)
  /\ Finish("feed")
  /\ UNCHANGED <<published, redis_lost>>

(* `?` after a request: the message is given up, and what was done for it  *)
(* stays done.                                                             *)
Abandon ==
  /\ feed.at \in {"next_counter", "check_id", "store_id", "store_batch"}
  /\ calls["feed"].at = "replied" /\ ~calls["feed"].reply.ok
  /\ feed' = FeedAt("reading", feed.redis)
  /\ Finish("feed")
  /\ UNCHANGED <<db, delivered, published, faults, redis_lost>>

Publish ==
  /\ feed.at = "publish"
  /\ published' = Append(published, Head(feed.batch).index)
  /\ feed' = IF Len(feed.batch) = 1 THEN FeedAt("reading", feed.redis)
             ELSE [feed EXCEPT !.batch = Tail(@)]
  /\ UNCHANGED <<redb, db, delivered, faults, redis_lost>>

(* Redis reports an error, whether or not the trade went out; the rest of  *)
(* the batch is not published.  By its text the error ends the connection  *)
(* or not.                                                                 *)
PublishFails ==
  /\ feed.at = "publish"
  /\ published' \in {published, Append(published, Head(feed.batch).index)}
  /\ \E redis \in BOOLEAN : feed' = FeedAt("reading", redis)
  /\ redis_lost' = TRUE
  /\ UNCHANGED <<redb, db, delivered, faults>>

-----------------------------------------------------------------------------
(* The HTTP handlers.                                                      *)

get_trades_count(r) ==
  /\ calls[r].at = "none"
  /\ Run(r, TotalTradesCount)
  /\ UNCHANGED <<db, feed, delivered, published, faults, redis_lost>>

(* Mutant: the limit of the request is taken as it is.                     *)
AsRequested(requested_limit) == requested_limit

PageLimit(requested_limit) == Min({requested_limit, MaxBatchSize})

get_trades(r) ==
  /\ calls[r].at = "none"
  /\ \E start_index \in StartIndices, requested_limit \in Limits :
       Run(r, TradesByRange(start_index, PageLimit(requested_limit)))
  /\ UNCHANGED <<db, feed, delivered, published, faults, redis_lost>>

Respond(r) ==
  /\ calls[r].at = "replied"
  /\ Finish(r)
  /\ UNCHANGED <<db, feed, delivered, published, faults, redis_lost>>

(* The client closes its connection; its handler is dropped.               *)
Disconnect(r) ==
  /\ Hangup(r)
  /\ UNCHANGED <<db, feed, delivered, published, faults, redis_lost>>

(* The process ends, by a signal or otherwise, and is started again.       *)
Restart ==
  /\ faults < MaxFaults
  /\ faults' = faults + 1
  /\ RedbRestart
  /\ db' = Open(db)
  /\ feed' = FeedAt("connecting", FALSE)
  /\ UNCHANGED <<delivered, published, redis_lost>>

RedbStep ==
  /\ WorkerRecv \/ \E c \in Callers : Send(c)
  /\ UNCHANGED <<db, feed, delivered, published, faults, redis_lost>>

FeedStep ==
  \/ Counted \/ Checked \/ StoredId \/ StoredBatch \/ Abandon
  \/ Publish \/ PublishFails

Next ==
  \/ RedbStep \/ WorkerHandle \/ WorkerFails
  \/ Connect \/ Disconnected \/ ReadOther
  \/ \E m \in TradeMessages : ReadTrades(m)
  \/ FeedStep
  \/ \E r \in Readers :
       \/ get_trades_count(r) \/ get_trades(r) \/ Respond(r) \/ Disconnect(r)
  \/ Restart

Spec == Init /\ [][Next]_vars

(* Once a request was sent or answered nothing depends on others: the      *)
(* thread and the runtime go on.  The exchange, Redis, the clients and the *)
(* signals owe nothing, but an answer of Redis to a publish.               *)
FairSpec ==
  /\ Spec
  /\ RedbFairness
  /\ WF_vars(WorkerHandle \/ WorkerFails)
  /\ WF_vars(FeedStep)

-----------------------------------------------------------------------------
Indices == 0 .. MaxDelivered
Ids     == Indices \X {Price[t] : t \in Trades}
Rows    == [id : Ids, index : Indices, nth : 1 .. MaxDelivered]

FeedRequests ==
  {NextTradeCounter, TotalTradesCount}
    \cup [do : {"CheckIdExists"}, id : Ids]
    \cup [do : {"StoreIdWithIndex"}, id : Ids, index : Indices]
    \cup [do : {"StoreTradeBatch"}, trades : Seq(Rows)]
    \cup [do : {"Range"}, start : StartIndices, limit : 0 .. MaxBatchSize]

IsFeedReply(request, reply) ==
  reply \in
    [ok : {TRUE},
     value : CASE request.do = "NextTradeCounter" -> Indices \ {0}
               [] request.do = "CheckIdExists"    -> BOOLEAN
               [] request.do = "StoreIdWithIndex" -> {<<>>}
               [] request.do = "StoreTradeBatch"  -> Nat
               [] request.do = "Count"            -> Indices
               [] request.do = "Range"            -> Seq(Rows)]

TypeOK ==
  /\ RedbTypeOK(FeedRequests, IsFeedReply)
  /\ db.trades_meta \in [{"total"} -> Indices]
  /\ DOMAIN db.trades \subseteq Indices
  /\ \A i \in DOMAIN db.trades : db.trades[i] \in Rows
  /\ DOMAIN db.trade_ids \subseteq Ids
  /\ \A x \in DOMAIN db.trade_ids : db.trade_ids[x] = x[1]
  /\ feed \in [at : {"connecting", "reading", "next_counter", "check_id",
                     "store_id", "store_batch", "publish"},
               redis : BOOLEAN, todo : Seq(1 .. MaxDelivered),
               index : Indices, batch : Seq(Rows)]
  /\ delivered \in Seq(Trades) /\ Len(delivered) <= MaxDelivered
  /\ published \in Seq(Indices)
  /\ faults \in 0 .. MaxFaults /\ redis_lost \in BOOLEAN

StoredTrades == {db.trades[i].nth : i \in DOMAIN db.trades}

(* The trades of the current message that are not stored yet.              *)
InHand == Members(feed.todo) \cup {trade.nth : trade \in Members(feed.batch)}

(* While nothing fails, no trade that the exchange sent is lost: each is   *)
(* stored or in hand, whatever the readers do to the queue and wherever    *)
(* its message stands, and what is stored was published or is about to be, *)
(* unless Redis was out of reach.                                          *)
NoTradeLost ==
  faults = 0 =>
    /\ StoredTrades \cup InHand = 1 .. Len(delivered)
    /\ ~redis_lost =>
         DOMAIN db.trades \subseteq
           Members(published) \cup {trade.index : trade \in Members(feed.batch)}

(* The indices handed out for trades of the current message.               *)
IndicesInHand ==
  {trade.index : trade \in Members(feed.batch)}
    \cup (IF feed.at \in {"check_id", "store_id"} THEN {feed.index} ELSE {})
    \cup (IF feed.at = "next_counter" /\ calls["feed"].at = "replied"
              /\ calls["feed"].reply.ok THEN {Value} ELSE {})

LongestMessage == Max({Len(Complete(m)) : m \in TradeMessages})

(* An index without a row, behind which a client that pages through        *)
(* /trades sees nothing, is left only by a failure, and one failure leaves *)
(* no more of them than the message it hits has trades: no order of the    *)
(* requests of readers and feed loses an index.                            *)
GapsFromFaults ==
  LET gaps == 1 .. Total(db) \ (DOMAIN db.trades \cup IndicesInHand)
  IN Cardinality(gaps) <= faults * LongestMessage

(* The check for duplicates never finds one, also after restarts: an id    *)
(* begins with an index that was never handed out before.                  *)
NoDuplicateSeen ==
  feed.at = "check_id" /\ calls["feed"].at = "replied" =>
    ~(calls["feed"].reply.ok /\ calls["feed"].reply.value)

(* What the README's diagram says: the program checks whether the trade    *)
(* exists before it stores it, and skips it if so.                         *)
NoTradeStoredTwice ==
  \A i, j \in DOMAIN db.trades :
    delivered[db.trades[i].nth] = delivered[db.trades[j].nth] => i = j

=============================================================================
