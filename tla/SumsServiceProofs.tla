------------------------- MODULE SumsServiceProofs -------------------------
(***************************************************************************)
(* Theorems about the sums service, for any clients, numbers, bounds and   *)
(* size of the queue: the variables keep their types, every call is where  *)
(* its caller believes it to be, no id is accepted twice, accepted sums are *)
(* in the journal, its pages are the latest, and nothing is counted twice. *)
(***************************************************************************)
EXTENDS SumsService, AsyncRedbProofs, FiniteSetTheorems

-----------------------------------------------------------------------------
(* The database.                                                           *)

SumIds == {s.id : s \in Sums}

CountsIn(table, keys) ==
  DOMAIN table \subseteq keys /\ \A k \in DOMAIN table : table[k] \in Nat

DbOK(d) ==
  /\ DOMAIN d = {"counters", "strings", "processed_ids", "sums_journal",
                 "journal_meta"}
  /\ CountsIn(d.counters, {"LAUNCH", "ENDPOINT"})
  /\ CountsIn(d.strings, {1})
  /\ CountsIn(d.journal_meta, {"idx"})
  /\ d.processed_ids \subseteq SumIds
  /\ DOMAIN d.sums_journal = 0 .. At(d.journal_meta, "idx") - 1
  /\ \A i \in DOMAIN d.sums_journal : d.sums_journal[i] \in Sums

ReplyOK(request, reply) == reply = Err \/ IsSumsReply(request, reply)

LEMMA EmptyDbOK == DbOK(EmptyDb)
<1>1. At(<<>>, "idx") = 0 BY DEF At
<1> QED BY <1>1 DEF DbOK, EmptyDb, CountsIn

LEMMA CountOf ==
  ASSUME NEW table, NEW keys, CountsIn(table, keys), NEW key \in keys
  PROVE  At(table, key) \in Nat
BY DEF At, CountsIn

LEMMA CountedOn ==
  ASSUME NEW table, NEW keys, CountsIn(table, keys), NEW key \in keys,
         NEW n \in Nat
  PROVE  /\ CountsIn(Inserted(table, key, n), keys)
         /\ At(Inserted(table, key, n), key) = n
BY DEF CountsIn, At, Inserted

LEMMA LeastOfThree ==
  ASSUME NEW a \in Nat, NEW b \in Nat, NEW c \in Nat
  PROVE  /\ Min({a, b, c}) \in {a, b, c}
         /\ Min({a, b, c}) <= a /\ Min({a, b, c}) <= b /\ Min({a, b, c}) <= c
<1> DEFINE S == {a, b, c}
<1>1. \E x \in S : \A y \in S : x <= y
  <2>1. CASE a <= b /\ a <= c BY <2>1
  <2>2. CASE b <= a /\ b <= c BY <2>2
  <2>3. CASE c <= a /\ c <= b BY <2>3
  <2> QED BY <2>1, <2>2, <2>3
<1>2. Min(S) \in S /\ \A y \in S : Min(S) <= y BY <1>1 DEF Min
<1> QED BY <1>2

(* What each request leaves of the tables, and what it replies.            *)
HandledOK(d, request) ==
  /\ DbOK(Handled(d, request).db)
  /\ ReplyOK(request, Handled(d, request).reply)

LEMMA IncCounterOK ==
  ASSUME NEW d, DbOK(d), NEW counter \in {"LAUNCH", "ENDPOINT"}
  PROVE  HandledOK(d, IncCounter(counter))
<1> DEFINE request == IncCounter(counter)
           n == At(d.counters, counter) + 1
           new == [d EXCEPT !.counters = Inserted(d.counters, counter, n)]
<1>1. Handled(d, request) = Result(new, Ok(n))
  BY DEF Handled, IncCounter, Incremented
<1>2. n \in Nat /\ n # 0 BY CountOf DEF DbOK
<1>3. DbOK(new)
  <2>1. CountsIn(Inserted(d.counters, counter, n), {"LAUNCH", "ENDPOINT"})
    BY <1>2, CountedOn DEF DbOK
  <2> HIDE DEF n
  <2>2. /\ DOMAIN new = DOMAIN d
        /\ new.counters = Inserted(d.counters, counter, n)
        /\ new.strings = d.strings /\ new.processed_ids = d.processed_ids
        /\ new.sums_journal = d.sums_journal
        /\ new.journal_meta = d.journal_meta
    BY DEF DbOK
  <2> QED BY <2>1, <2>2 DEF DbOK
<1>4. IsSumsReply(request, Ok(n)) BY <1>2 DEF IsSumsReply, Ok, IncCounter
<1> QED BY <1>1, <1>3, <1>4 DEF HandledOK, ReplyOK, Result

LEMMA IncStringOK ==
  ASSUME NEW d, DbOK(d)
  PROVE  HandledOK(d, IncString(1))
<1> DEFINE request == IncString(1)
           n == At(d.strings, 1) + 1
           new == [d EXCEPT !.strings = Inserted(d.strings, 1, n)]
<1>1. Handled(d, request) = Result(new, Ok(n))
  BY DEF Handled, IncString, Lengthened
<1>2. n \in Nat /\ n # 0 BY CountOf DEF DbOK
<1>3. DbOK(new)
  <2>1. CountsIn(Inserted(d.strings, 1, n), {1})
    BY <1>2, CountedOn DEF DbOK
  <2> HIDE DEF n
  <2>2. /\ DOMAIN new = DOMAIN d
        /\ new.strings = Inserted(d.strings, 1, n)
        /\ new.counters = d.counters /\ new.processed_ids = d.processed_ids
        /\ new.sums_journal = d.sums_journal
        /\ new.journal_meta = d.journal_meta
    BY DEF DbOK
  <2> QED BY <2>1, <2>2 DEF DbOK
<1>4. IsSumsReply(request, Ok(n)) BY <1>2 DEF IsSumsReply, Ok, IncString
<1> QED BY <1>1, <1>3, <1>4 DEF HandledOK, ReplyOK, Result

LEMMA CheckAndStoreIdOK ==
  ASSUME NEW d, DbOK(d), NEW id \in SumIds
  PROVE  /\ HandledOK(d, CheckAndStoreId(id))
         /\ Handled(d, CheckAndStoreId(id)).reply
              = Ok(id \notin d.processed_ids)
         /\ Handled(d, CheckAndStoreId(id)).db.processed_ids
              = d.processed_ids \cup {id}
         /\ Handled(d, CheckAndStoreId(id)).db.sums_journal = d.sums_journal
<1> DEFINE request == CheckAndStoreId(id)
           new == [d EXCEPT !.processed_ids = @ \cup {id}]
           unique == id \notin d.processed_ids
<1>1. Handled(d, request) = Result(new, Ok(unique))
  BY DEF Handled, CheckAndStoreId, CheckedAndStored
<1>2. /\ DOMAIN new = DOMAIN d
      /\ new.processed_ids = d.processed_ids \cup {id}
      /\ new.counters = d.counters /\ new.strings = d.strings
      /\ new.sums_journal = d.sums_journal
      /\ new.journal_meta = d.journal_meta
  BY DEF DbOK
<1>3. DbOK(new) BY <1>2 DEF DbOK
<1>4. unique \in BOOLEAN OBVIOUS
<1> HIDE DEF unique
<1>5. IsSumsReply(request, Ok(unique))
  BY <1>4 DEF IsSumsReply, Ok, CheckAndStoreId
<1> HIDE DEF new, request
<1>6. HandledOK(d, request)
  BY ONLY <1>1, <1>3, <1>5 DEF HandledOK, ReplyOK, Result
<1>7. /\ Handled(d, request).reply = Ok(unique)
      /\ Handled(d, request).db.processed_ids = d.processed_ids \cup {id}
      /\ Handled(d, request).db.sums_journal = d.sums_journal
  BY ONLY <1>1, <1>2 DEF Result
<1> QED BY <1>6, <1>7 DEF request, unique

LEMMA AddToJournalOK ==
  ASSUME NEW d, DbOK(d), NEW entry \in Sums
  PROVE  /\ HandledOK(d, AddToJournal(entry))
         /\ At(d.journal_meta, "idx") \notin DOMAIN d.sums_journal
         /\ Handled(d, AddToJournal(entry)).db.sums_journal
              = Inserted(d.sums_journal, At(d.journal_meta, "idx"), entry)
         /\ Handled(d, AddToJournal(entry)).db.processed_ids = d.processed_ids
<1> DEFINE request == AddToJournal(entry)
           idx == At(d.journal_meta, "idx")
           rows == Inserted(d.sums_journal, idx, entry)
           meta == Inserted(d.journal_meta, "idx", idx + 1)
           new == [d EXCEPT !.sums_journal = rows, !.journal_meta = meta]
<1>1. Handled(d, request) = Result(new, Ok(<<>>))
  BY DEF Handled, AddToJournal, Journaled
<1>2. idx \in Nat BY CountOf DEF DbOK
<1>3. idx \notin DOMAIN d.sums_journal BY <1>2 DEF DbOK
<1>4. CountsIn(meta, {"idx"}) /\ At(meta, "idx") = idx + 1
  <2>1. idx + 1 \in Nat BY <1>2
  <2> HIDE DEF idx
  <2> QED BY <2>1, CountedOn DEF DbOK
<1>5. /\ DOMAIN rows = 0 .. (idx + 1) - 1
      /\ \A i \in DOMAIN rows : rows[i] \in Sums
  BY <1>2 DEF DbOK, Inserted
<1> HIDE DEF rows, meta, idx
<1>6. /\ DOMAIN new = DOMAIN d
      /\ new.sums_journal = rows /\ new.journal_meta = meta
      /\ new.counters = d.counters /\ new.strings = d.strings
      /\ new.processed_ids = d.processed_ids
  BY DEF DbOK
<1>7. DbOK(new) BY <1>4, <1>5, <1>6 DEF DbOK
<1>8. IsSumsReply(request, Ok(<<>>)) BY DEF IsSumsReply, Ok, AddToJournal
<1> HIDE DEF new, request
<1>9. HandledOK(d, request)
  BY ONLY <1>1, <1>7, <1>8 DEF HandledOK, ReplyOK, Result
<1>10. /\ Handled(d, request).db.sums_journal = rows
       /\ Handled(d, request).db.processed_ids = d.processed_ids
  BY ONLY <1>1, <1>6 DEF Result
<1> QED BY <1>3, <1>9, <1>10 DEF request, rows, idx

LEMMA GetJournalOK ==
  ASSUME NEW d, DbOK(d), NEW n \in JournalSizes
  PROVE  /\ HandledOK(d, GetJournal(n))
         /\ Handled(d, GetJournal(n)).db = d
<1> DEFINE request == GetJournal(n)
           idx  == At(d.journal_meta, "idx")
           m    == Min({n, idx, MaxRequestSize})
           page == [k \in 1 .. m |-> d.sums_journal[idx - m + k - 1]]
<1>1. Handled(d, request)
        = Result(d, IF DOMAIN d.journal_meta = {} THEN Err ELSE Ok(page))
  BY DEF Handled, GetJournal, LatestEntries
<1>2. idx \in Nat /\ n \in Nat /\ MaxRequestSize \in Nat
  BY CountOf, SumsAssumption DEF DbOK
<1>3. m \in Nat /\ m <= idx BY <1>2, LeastOfThree
<1>4. \A k \in 1 .. m : d.sums_journal[idx - m + k - 1] \in Sums
  <2> SUFFICES ASSUME NEW k \in 1 .. m
               PROVE  d.sums_journal[idx - m + k - 1] \in Sums
    OBVIOUS
  <2> HIDE DEF m, idx
  <2>1. idx - m + k - 1 \in 0 .. idx - 1 BY <1>2, <1>3
  <2> QED BY <2>1 DEF DbOK, idx
<1> HIDE DEF m, idx
<1>5. page \in Seq(Sums) BY <1>3, <1>4
<1> HIDE DEF page
<1>6. IsSumsReply(request, Ok(page)) BY <1>5 DEF IsSumsReply, Ok, GetJournal
<1> QED BY <1>1, <1>6 DEF HandledOK, ReplyOK, Result

LEMMA RequestKinds ==
  ASSUME NEW request \in SumsRequests
  PROVE  \/ \E counter \in {"LAUNCH", "ENDPOINT"} :
              request = IncCounter(counter)
         \/ request = IncString(1)
         \/ \E id \in SumIds : request = CheckAndStoreId(id)
         \/ \E entry \in Sums : request = AddToJournal(entry)
         \/ \E n \in JournalSizes : request = GetJournal(n)
BY DEF SumsRequests, SumIds, IncCounter, IncString, CheckAndStoreId,
       AddToJournal, GetJournal

LEMMA EveryRequestOK ==
  ASSUME NEW d, DbOK(d), NEW request \in SumsRequests
  PROVE  HandledOK(d, request)
BY RequestKinds, IncCounterOK, IncStringOK, CheckAndStoreIdOK, AddToJournalOK,
   GetJournalOK

-----------------------------------------------------------------------------
(* The callers.  A handler is where its call of `run` says it is.          *)

Awaits(h, request) ==
  \/ h.at = "json" /\ h.body = <<>> /\ request = IncCounter("ENDPOINT")
  \/ h.at = "string" /\ h.body = <<>> /\ request = IncString(1)
  \/ h.at = "journal" /\ h.body \in JournalSizes /\ request = GetJournal(h.body)
  \/ h.at = "sums" /\ h.body \in Sums /\ request = CheckAndStoreId(h.body.id)
  \/ h.at = "sums_journal" /\ h.body \in Sums /\ request = AddToJournal(h.body)

ReplyFits(call) == call.at = "replied" => ReplyOK(call.request, call.reply)

ClientOK(h, call) ==
  /\ \/ h = Idle /\ call = NoCall
     \/ /\ DOMAIN h = {"at", "body", "since"}
        /\ call.at # "none" /\ Awaits(h, call.request)
  /\ ReplyFits(call)

MainOK(m, call) ==
  /\ m \in [at : {"down", "starting", "up"}, counter_runs : Nat]
  /\ IF m.at = "starting"
     THEN call.at # "none" /\ call.request = IncCounter("LAUNCH")
     ELSE call = NoCall
  /\ ReplyFits(call)

CallersOK ==
  /\ DOMAIN handlers = Clients
  /\ \A c \in Clients : ClientOK(handlers[c], calls[c])
  /\ MainOK(main, calls["main"])

Answers ==
  [to : {"json", "string", "journal", "sums", "sums_journal"},
   body : {<<>>} \cup JournalSizes \cup Sums,
   status : {"OK", "DEFAULT", "BAD_REQUEST", "CONFLICT",
             "INTERNAL_SERVER_ERROR"},
   value : Nat \cup Seq(Sums)]

HistoryOK ==
  /\ answers \in Seq(Answers)
  /\ requests \in 0 .. MaxRequests
  /\ failures \in 0 .. MaxFailures /\ stops \in 0 .. MaxStops

IInv == RedbInv(SumsRequests) /\ DbOK(db) /\ CallersOK /\ HistoryOK

LEMMA AwaitedRequests ==
  /\ IncCounter("LAUNCH") \in SumsRequests
  /\ \A h, request : Awaits(h, request) => request \in SumsRequests
BY DEF Awaits, SumsRequests, IncCounter, IncString, CheckAndStoreId,
       AddToJournal, GetJournal

(* The five kinds of request are told apart by `do`.                       *)
LEMMA Kinds ==
  ASSUME NEW h, NEW request, Awaits(h, request)
  PROVE  /\ h.at = "sums" <=> request.do = "CheckAndStoreId"
         /\ h.at = "sums_journal" <=> request.do = "AddToJournal"
         /\ h.at = "journal" <=> request.do = "GetJournal"
         /\ h.at \in {"json", "string", "journal", "sums", "sums_journal"}
         /\ h.at = "sums" =>
              request = CheckAndStoreId(h.body.id) /\ h.body \in Sums
         /\ h.at = "sums_journal" =>
              request = AddToJournal(h.body) /\ h.body \in Sums
BY DEF Awaits, IncCounter, IncString, CheckAndStoreId, AddToJournal, GetJournal

(* A client goes on with another call.                                     *)
LEMMA ClientMoves ==
  ASSUME CallersOK, NEW c \in Clients, NEW h, NEW v, OnlyCall(c, v),
         handlers' = [handlers EXCEPT ![c] = h], main' = main, ClientOK(h, v)
  PROVE  CallersOK'
<1>1. c # "main" /\ c \in Callers /\ Clients \subseteq Callers
      /\ "main" \in Callers
  BY SumsAssumption
<1>2. /\ DOMAIN handlers' = Clients /\ handlers'[c] = h
      /\ \A d \in Clients \ {c} : handlers'[d] = handlers[d]
  BY DEF CallersOK
<1>3. calls'["main"] = calls["main"] BY <1>1 DEF OnlyCall
<1>4. MainOK(main, calls["main"])' BY <1>3 DEF CallersOK, MainOK, ReplyFits
<1>5. ASSUME NEW d \in Clients PROVE ClientOK(handlers'[d], calls'[d])
  <2>1. CASE d = c BY <2>1, <1>2 DEF OnlyCall
  <2>2. CASE d # c
    <3>1. calls'[d] = calls[d] /\ handlers'[d] = handlers[d]
      BY <2>2, <1>1, <1>2 DEF OnlyCall
    <3> QED BY <3>1 DEF CallersOK
  <2> QED BY <2>1, <2>2
<1> QED BY <1>2, <1>4, <1>5 DEF CallersOK

(* A call goes on, with the same request, and its caller waits.            *)
LEMMA CallMoves ==
  ASSUME CallersOK, NEW c \in Callers, NEW v, OnlyCall(c, v),
         handlers' = handlers, main' = main,
         calls[c].at # "none", v.at # "none", v.request = calls[c].request,
         ReplyFits(v)
  PROVE  CallersOK'
<1>1. Callers = Clients \cup {"main"} /\ "main" \notin Clients
  BY SumsAssumption
<1>2. calls[c] # NoCall BY DEF NoCall
<1>3. MainOK(main, calls["main"])'
  <2>1. CASE c = "main" BY <2>1, <1>2 DEF CallersOK, MainOK, OnlyCall
  <2>2. CASE c # "main"
    <3>1. calls'["main"] = calls["main"] BY <2>2, <1>1 DEF OnlyCall
    <3> QED BY <3>1 DEF CallersOK, MainOK, ReplyFits
  <2> QED BY <2>1, <2>2
<1>4. ASSUME NEW d \in Clients PROVE ClientOK(handlers'[d], calls'[d])
  <2>1. CASE d = c
    <3>1. ClientOK(handlers[c], calls[c]) BY <2>1 DEF CallersOK
    <3>2. ClientOK(handlers[c], v) BY <3>1, <1>2 DEF ClientOK
    <3> QED BY <2>1, <3>2 DEF OnlyCall
  <2>2. CASE d # c
    <3>1. calls'[d] = calls[d] BY <2>2, <1>1 DEF OnlyCall
    <3> QED BY <3>1 DEF CallersOK
  <2> QED BY <2>1, <2>2
<1> QED BY <1>3, <1>4 DEF CallersOK

-----------------------------------------------------------------------------
(* What the actions leave of it.                                           *)

LEMMA IInvInit == ASSUME Init PROVE IInv
<1>1. RedbInv(SumsRequests) BY InitialInv DEF Init
<1>2. DbOK(db) BY EmptyDbOK DEF Init
<1>3. CallersOK
  BY SumsAssumption
  DEF Init, RedbInit, CallersOK, ClientOK, MainOK, ReplyFits, NoCall, Down
<1>4. HistoryOK BY SumsAssumption DEF Init, HistoryOK
<1> QED BY <1>1, <1>2, <1>3, <1>4 DEF IInv

LEMMA RedbStepInv == ASSUME IInv, RedbStep PROVE IInv'
<1>1. HistoryOK' /\ DbOK(db)' BY DEF IInv, RedbStep, HistoryOK
<1>2. RedbInv(SumsRequests) /\ handlers' = handlers /\ main' = main
  BY DEF IInv, RedbStep
<1>3. CASE WorkerRecv
  <2>1. RedbInv(SumsRequests)' /\ calls' = calls BY <1>2, <1>3, RecvInv
  <2>2. CallersOK' BY <1>2, <2>1 DEF IInv, CallersOK
  <2> QED BY <1>1, <2>1, <2>2 DEF IInv
<1>4. ASSUME NEW c \in Callers, Send(c) PROVE IInv'
  <2> DEFINE v == [at |-> "awaiting", request |-> calls[c].request]
  <2>1. /\ RedbInv(SumsRequests)' /\ calls[c].at = "sending" /\ OnlyCall(c, v)
    BY <1>2, <1>4, SendInv
  <2>2. v.at = "awaiting" /\ v.request = calls[c].request /\ ReplyFits(v)
    BY DEF ReplyFits
  <2> HIDE DEF v
  <2>3. CallersOK' BY <1>2, <2>1, <2>2, CallMoves DEF IInv
  <2> QED BY <1>1, <2>1, <2>3 DEF IInv
<1> QED BY <1>3, <1>4 DEF RedbStep

(* The worker answers with `reply` and leaves the tables `d`.              *)
LEMMA WorkerInv ==
  ASSUME IInv, NEW reply, Reply(reply), ReplyOK(worker[1].request, reply),
         DbOK(db'), HistoryOK', handlers' = handlers, main' = main
  PROVE  IInv'
<1> DEFINE c == worker[1].from
           v == RepliedCall(worker[1].request, reply)
<1>1. /\ RedbInv(SumsRequests)' /\ worker # <<>>
      /\ c = Nobody => calls' = calls
      /\ c # Nobody => OnlyCall(c, v)
  BY ReplyInv DEF IInv
<1>2. c # Nobody => /\ c \in Callers /\ calls[c].at = "awaiting"
                    /\ calls[c].request = worker[1].request
  BY <1>1, AnsweredCall DEF IInv
<1>3. v.at = "replied" /\ v.request = worker[1].request /\ ReplyFits(v)
  BY DEF ReplyFits, RepliedCall
<1> HIDE DEF v, c
<1>4. CASE c = Nobody BY <1>1, <1>4 DEF IInv, CallersOK
<1>5. CASE c # Nobody
  <2>1. CallersOK' BY <1>1, <1>2, <1>3, <1>5, CallMoves DEF IInv
  <2> QED BY <1>1, <2>1 DEF IInv
<1> QED BY <1>4, <1>5

LEMMA WorkerHandleInv ==
  ASSUME IInv, WorkerHandle
  PROVE  /\ IInv' /\ worker # <<>> /\ worker[1].request \in SumsRequests
         /\ db' = Handled(db, worker[1].request).db
         /\ Reply(Handled(db, worker[1].request).reply)
<1> DEFINE result == Handled(db, worker[1].request)
<1>1. /\ worker # <<>> /\ db' = result.db /\ Reply(result.reply)
      /\ handlers' = handlers /\ main' = main
  BY DEF WorkerHandle
<1>2. HistoryOK' BY DEF IInv, HistoryOK, WorkerHandle
<1>3. worker[1].request \in SumsRequests BY <1>1, AnsweredCall DEF IInv
<1>4. HandledOK(db, worker[1].request) BY <1>3, EveryRequestOK DEF IInv
<1>5. DbOK(result.db) /\ ReplyOK(worker[1].request, result.reply)
  BY <1>4 DEF HandledOK
<1> HIDE DEF result
<1>6. IInv' BY <1>1, <1>2, <1>5, WorkerInv
<1> QED BY <1>1, <1>3, <1>6 DEF result

LEMMA WorkerFailsInv == ASSUME IInv, WorkerFails PROVE IInv'
<1>1. ReplyOK(worker[1].request, Err) BY DEF ReplyOK
<1>2. HistoryOK' BY SumsAssumption DEF IInv, HistoryOK, WorkerFails
<1>3. DbOK(db') BY DEF IInv, WorkerFails
<1> QED BY <1>1, <1>2, <1>3, WorkerInv DEF WorkerFails

(* main and the end of the process.                                        *)
LEMMA MainMoves ==
  ASSUME CallersOK, NEW v, OnlyCall("main", v), handlers' = handlers,
         MainOK(main', v)
  PROVE  CallersOK'
<1>1. \A c \in Clients : c # "main" /\ c \in Callers BY SumsAssumption
<1>2. \A c \in Clients : calls'[c] = calls[c] BY <1>1 DEF OnlyCall
<1> QED BY <1>2 DEF CallersOK, OnlyCall

LEMMA StartInv ==
  ASSUME IInv, Start
  PROVE  IInv' /\ Pipeline' = Pipeline /\ \E v : OnlyCall("main", v)
<1> DEFINE v == [at |-> "sending", request |-> IncCounter("LAUNCH")]
<1>1. "main" \in Callers /\ IncCounter("LAUNCH") \in SumsRequests
  BY SumsAssumption, AwaitedRequests
<1>2. /\ RedbInv(SumsRequests)' /\ Pipeline' = Pipeline
      /\ OnlyCall("main", v)
  BY <1>1, RunInv DEF IInv, Start
<1>3. main' \in [at : {"starting"}, counter_runs : Nat]
  BY DEF IInv, CallersOK, MainOK, Start
<1>4. MainOK(main', v) BY <1>3 DEF MainOK, ReplyFits
<1>5. handlers' = handlers /\ db' = db BY DEF Start
<1> HIDE DEF v
<1>6. CallersOK' BY <1>2, <1>4, <1>5, MainMoves DEF IInv
<1>7. HistoryOK' BY DEF IInv, HistoryOK, Start
<1> QED BY <1>2, <1>5, <1>6, <1>7 DEF IInv

LEMMA LaunchedInv ==
  ASSUME IInv, Launched
  PROVE  IInv' /\ Pipeline' = Pipeline /\ \E v : OnlyCall("main", v)
<1> DEFINE reply == calls["main"].reply
<1>1. "main" \in Callers BY SumsAssumption
<1>2. /\ RedbInv(SumsRequests)' /\ Pipeline' = Pipeline
      /\ OnlyCall("main", NoCall)
  BY <1>1, FinishInv DEF IInv, Launched
<1>3. /\ calls["main"].at = "replied"
      /\ calls["main"].request = IncCounter("LAUNCH")
      /\ ReplyOK(IncCounter("LAUNCH"), reply)
  BY DEF IInv, CallersOK, MainOK, ReplyFits, NoCall, Launched
<1>4. reply.ok => reply.value \in Nat
  <2>1. CASE reply = Err
    <3>1. reply.ok = FALSE BY <2>1 DEF Err
    <3> QED BY <3>1
  <2>2. CASE IsSumsReply(IncCounter("LAUNCH"), reply)
    <3>1. IncCounter("LAUNCH").do = "IncCounter" BY DEF IncCounter
    <3>2. reply \in [ok : {TRUE}, value : Nat \ {0}]
      BY <2>2, <3>1 DEF IsSumsReply
    <3> QED BY <3>2
  <2> QED BY <1>3, <2>1, <2>2 DEF ReplyOK
<1>5. main' = IF reply.ok THEN [at |-> "up", counter_runs |-> reply.value]
              ELSE Down
  BY DEF Launched
<1> HIDE DEF reply
<1>6. MainOK(main', NoCall) BY <1>4, <1>5 DEF MainOK, Down, NoCall, ReplyFits
<1>7. handlers' = handlers /\ db' = db BY DEF Launched
<1>8. CallersOK' BY <1>2, <1>6, <1>7, MainMoves DEF IInv
<1>9. HistoryOK' BY DEF IInv, HistoryOK, Launched
<1> QED BY <1>2, <1>7, <1>8, <1>9 DEF IInv

LEMMA StopInv == ASSUME IInv, Stop PROVE IInv' /\ Pipeline' = <<>>
<1>1. RedbInv(SumsRequests)' /\ Pipeline' = <<>> BY RestartInv DEF Stop
<1>2. CallersOK'
  BY SumsAssumption
  DEF Stop, RedbRestart, CallersOK, ClientOK, MainOK, ReplyFits, NoCall, Down
<1>3. HistoryOK' BY SumsAssumption DEF IInv, HistoryOK, Stop
<1>4. DbOK(db)' BY DEF IInv, Stop
<1> QED BY <1>1, <1>2, <1>3, <1>4 DEF IInv

(* A handler begins.                                                       *)
Began(c, request) ==
  /\ handlers[c] = Idle
  /\ \E h : /\ handlers' = [handlers EXCEPT ![c] = h]
            /\ h.at \in {"json", "string", "journal", "sums"}
            /\ h.since = At(db.journal_meta, "idx")
  /\ OnlyCall(c, [at |-> "sending", request |-> request])
  /\ UNCHANGED <<db, answers, Pipeline>>

LEMMA BeginInv ==
  ASSUME IInv, NEW c \in Clients,
         NEW route \in {"json", "string", "journal", "sums"}, NEW body,
         Begin(c, route, body), NEW request, Run(c, request),
         \A h : h.at = route /\ h.body = body => Awaits(h, request)
  PROVE  IInv' /\ Began(c, request)
<1> DEFINE h == [at |-> route, body |-> body,
                 since |-> At(db.journal_meta, "idx")]
           v == [at |-> "sending", request |-> request]
<1>1. /\ handlers[c] = Idle /\ handlers' = [handlers EXCEPT ![c] = h]
      /\ db' = db /\ main' = main /\ answers' = answers
  BY DEF Begin
<1>2. /\ DOMAIN h = {"at", "body", "since"} /\ h.at = route
      /\ h.since = At(db.journal_meta, "idx")
      /\ Awaits(h, request)
  OBVIOUS
<1>3. request \in SumsRequests BY <1>2, AwaitedRequests
<1>4. c \in Callers BY SumsAssumption
<1>5. RedbInv(SumsRequests)' /\ Pipeline' = Pipeline /\ OnlyCall(c, v)
  BY <1>3, <1>4, RunInv DEF IInv
<1>6. ClientOK(h, v) BY <1>2 DEF ClientOK, ReplyFits
<1>7. HistoryOK' BY SumsAssumption DEF IInv, HistoryOK, Begin
<1> HIDE DEF h
<1>8. Began(c, request) BY <1>1, <1>2, <1>5 DEF Began
<1> HIDE DEF v
<1>9. CallersOK' BY <1>1, <1>5, <1>6, ClientMoves DEF IInv
<1> QED BY <1>1, <1>5, <1>7, <1>8, <1>9 DEF IInv

LEMMA HandlerBegins ==
  ASSUME IInv, NEW c \in Clients,
         json_handler(c) \/ string_handler(c) \/ journal_handler(c)
           \/ sums_handler(c)
  PROVE  IInv' /\ \E request : Began(c, request)
<1>1. CASE json_handler(c)
  BY <1>1, BeginInv DEF json_handler, Awaits
<1>2. CASE string_handler(c)
  BY <1>2, BeginInv DEF string_handler, Awaits
<1>3. CASE journal_handler(c)
  BY <1>3, BeginInv DEF journal_handler, Awaits
<1>4. CASE sums_handler(c)
  BY <1>4, BeginInv DEF sums_handler, Awaits
<1> QED BY <1>1, <1>2, <1>3, <1>4

(* A handler answers and is done.                                          *)
Responded(c, status, value) ==
  /\ handlers' = [handlers EXCEPT ![c] = Idle]
  /\ OnlyCall(c, NoCall)
  /\ \E answer \in Answers :
       /\ answer.to = handlers[c].at /\ answer.body = handlers[c].body
       /\ answer.status = status /\ answer.value = value
       /\ answers' = Append(answers, answer)
  /\ UNCHANGED <<db, Pipeline>>

LEMMA RespondInv ==
  ASSUME IInv, NEW c \in Clients, NEW place, Replies(c, place),
         NEW status \in {"OK", "DEFAULT", "BAD_REQUEST", "CONFLICT",
                         "INTERNAL_SERVER_ERROR"},
         NEW value \in Nat \cup Seq(Sums), Respond(c, status, value)
  PROVE  IInv' /\ Responded(c, status, value)
<1> DEFINE answer == [to |-> handlers[c].at, body |-> handlers[c].body,
                      status |-> status, value |-> value]
<1>1. /\ handlers' = [handlers EXCEPT ![c] = Idle] /\ main' = main
      /\ db' = db /\ answers' = Append(answers, answer)
  BY DEF Respond, Replies
<1>2. c \in Callers BY SumsAssumption
<1>3. /\ RedbInv(SumsRequests)' /\ Pipeline' = Pipeline
      /\ OnlyCall(c, NoCall)
  BY <1>2, FinishInv DEF IInv, Respond
<1>4. ClientOK(Idle, NoCall) BY DEF ClientOK, ReplyFits, NoCall
<1>5. CallersOK' BY <1>1, <1>3, <1>4, ClientMoves DEF IInv
<1>6. Awaits(handlers[c], calls[c].request)
  BY DEF IInv, CallersOK, Replies, ClientOK, NoCall
<1>7. answer \in Answers BY <1>6 DEF Awaits, Answers
<1> HIDE DEF answer
<1>8. HistoryOK' BY <1>1, <1>7 DEF IInv, HistoryOK, Replies
<1>9. /\ answer.to = handlers[c].at /\ answer.body = handlers[c].body
      /\ answer.status = status /\ answer.value = value
  BY DEF answer
<1>10. Responded(c, status, value) BY <1>1, <1>3, <1>7, <1>9 DEF Responded
<1> QED BY <1>1, <1>3, <1>5, <1>8, <1>10 DEF IInv

LEMMA RepliesWaits ==
  ASSUME IInv, NEW c \in Clients, NEW place, Replies(c, place)
  PROVE  /\ DOMAIN handlers[c] = {"at", "body", "since"}
         /\ handlers[c].at = place /\ calls[c].at = "replied"
         /\ Awaits(handlers[c], calls[c].request)
         /\ ReplyOK(calls[c].request, calls[c].reply)
BY DEF IInv, CallersOK, Replies, ClientOK, NoCall, ReplyFits

LEMMA ShowInv ==
  ASSUME IInv, NEW c \in Clients, Show(c)
  PROVE  /\ IInv'
         /\ handlers[c].at \in {"json", "string", "journal"}
         /\ calls[c].at = "replied"
         /\ \E status, value :
              /\ Responded(c, status, value)
              /\ status = "OK" => calls[c].reply = Ok(value)
<1>1. PICK place \in {"json", "string", "journal"} :
        /\ Replies(c, place)
        /\ IF calls[c].reply.ok THEN Respond(c, "OK", calls[c].reply.value)
           ELSE Respond(c, "DEFAULT", <<>>)
  BY DEF Show
<1>2. /\ handlers[c].at = place /\ Awaits(handlers[c], calls[c].request)
      /\ calls[c].at = "replied"
      /\ ReplyOK(calls[c].request, calls[c].reply)
  BY <1>1, RepliesWaits
<1>3. calls[c].request.do \in {"IncCounter", "IncString", "GetJournal"}
  BY <1>1, <1>2 DEF Awaits, IncCounter, IncString, GetJournal
<1> DEFINE reply == calls[c].reply
<1>4. CASE reply.ok
  <2>1. reply # Err BY <1>4 DEF Err
  <2>2. IsSumsReply(calls[c].request, reply) BY <1>2, <2>1 DEF ReplyOK
  <2>3. /\ reply.value \in Nat \cup Seq(Sums)
        /\ reply = [ok |-> TRUE, value |-> reply.value]
    <3>1. CASE calls[c].request.do \in {"IncCounter", "IncString"}
      <4>1. reply \in [ok : {TRUE}, value : Nat \ {0}]
        BY <2>2, <3>1 DEF IsSumsReply
      <4> QED BY <4>1
    <3>2. CASE calls[c].request.do = "GetJournal"
      <4>1. reply \in [ok : {TRUE}, value : Seq(Sums)]
        BY <2>2, <3>2 DEF IsSumsReply
      <4> QED BY <4>1
    <3> QED BY <1>3, <3>1, <3>2
  <2>4. Respond(c, "OK", reply.value) BY <1>1, <1>4
  <2>5. reply = Ok(reply.value) BY <2>3 DEF Ok
  <2> HIDE DEF reply
  <2>6. IInv' /\ Responded(c, "OK", reply.value)
    BY <1>1, <2>3, <2>4, RespondInv
  <2>7. \E status, value : /\ Responded(c, status, value)
                           /\ status = "OK" => reply = Ok(value)
    BY <2>5, <2>6
  <2> QED BY <1>1, <1>2, <2>6, <2>7 DEF reply
<1>5. CASE ~reply.ok
  <2>1. Respond(c, "DEFAULT", <<>>) /\ <<>> \in Nat \cup Seq(Sums)
    BY <1>1, <1>5
  <2>2. IInv' /\ Responded(c, "DEFAULT", <<>>) BY <1>1, <2>1, RespondInv
  <2>3. \E status, value : /\ Responded(c, status, value)
                           /\ status = "OK" => reply = Ok(value)
    BY <2>2
  <2> QED BY <1>1, <1>2, <2>2, <2>3
<1> QED BY <1>4, <1>5

LEMMA AcceptedInv ==
  ASSUME IInv, NEW c \in Clients, Accepted(c)
  PROVE  /\ IInv' /\ handlers[c].at = "sums_journal"
         /\ calls[c].at = "replied" /\ Responded(c, "OK", <<>>)
<1>1. Replies(c, "sums_journal") /\ Respond(c, "OK", <<>>)
      /\ <<>> \in Nat \cup Seq(Sums)
  BY DEF Accepted
<1> QED BY <1>1, RespondInv, RepliesWaits

(* The id is new and the sum is right.                                     *)
Journals(c) ==
  /\ calls[c].at = "replied" /\ calls[c].reply = Ok(TRUE)
  /\ handlers' = [handlers EXCEPT ![c].at = "sums_journal"]
  /\ OnlyCall(c, [at |-> "sending", request |-> AddToJournal(handlers[c].body)])
  /\ UNCHANGED <<db, answers, Pipeline>>

LEMMA CheckedInv ==
  ASSUME IInv, NEW c \in Clients, Checked(c)
  PROVE  /\ IInv' /\ handlers[c].at = "sums"
         /\ Journals(c) \/ \E status : Responded(c, status, <<>>)
<1>1. Replies(c, "sums") BY DEF Checked
<1>2. /\ handlers[c].at = "sums" /\ calls[c].at = "replied"
      /\ DOMAIN handlers[c] = {"at", "body", "since"}
      /\ Awaits(handlers[c], calls[c].request)
  BY <1>1, RepliesWaits
<1>3. ASSUME NEW status \in {"BAD_REQUEST", "CONFLICT",
                             "INTERNAL_SERVER_ERROR"},
             Respond(c, status, <<>>)
      PROVE  IInv' /\ Responded(c, status, <<>>)
  <2>1. <<>> \in Nat \cup Seq(Sums) OBVIOUS
  <2> QED BY <1>1, <1>3, <2>1, RespondInv
<1>4. ASSUME calls[c].reply = Ok(TRUE), Run(c, AddToJournal(handlers[c].body)),
             handlers' = [handlers EXCEPT ![c].at = "sums_journal"],
             answers' = answers
      PROVE  IInv' /\ Journals(c)
  <2> DEFINE request == AddToJournal(handlers[c].body)
             h == [handlers[c] EXCEPT !.at = "sums_journal"]
             v == [at |-> "sending", request |-> request]
  <2>1. handlers[c].body \in Sums BY <1>2, Kinds
  <2>2. /\ DOMAIN h = {"at", "body", "since"} /\ h.at = "sums_journal"
        /\ h.body = handlers[c].body
    BY <1>2
  <2>3. Awaits(h, request) BY <2>1, <2>2 DEF Awaits
  <2>4. request \in SumsRequests BY <2>3, AwaitedRequests
  <2>5. c \in Callers BY SumsAssumption
  <2>6. RedbInv(SumsRequests)' /\ Pipeline' = Pipeline /\ OnlyCall(c, v)
    BY <1>4, <2>4, <2>5, RunInv DEF IInv
  <2>7. ClientOK(h, v) BY <2>2, <2>3 DEF ClientOK, ReplyFits
  <2>8. handlers' = [handlers EXCEPT ![c] = h] BY <1>4
  <2>9. main' = main /\ db' = db BY <1>1 DEF Replies
  <2>10. HistoryOK' BY <1>1, <1>4 DEF IInv, HistoryOK, Replies
  <2>11. Journals(c) BY <1>2, <1>4, <2>6, <2>9 DEF Journals
  <2> HIDE DEF h, v
  <2>12. CallersOK' BY <2>6, <2>7, <2>8, <2>9, ClientMoves DEF IInv
  <2> QED BY <2>6, <2>9, <2>10, <2>11, <2>12 DEF IInv
<1> QED BY <1>2, <1>3, <1>4 DEF Checked, Unique

LEMMA DisconnectInv ==
  ASSUME IInv, NEW c \in Clients, Disconnect(c)
  PROVE  /\ IInv'
         /\ handlers' = [handlers EXCEPT ![c] = Idle]
         /\ OnlyCall(c, NoCall) /\ Pipeline' = Disowned(Pipeline, c)
         /\ db' = db /\ answers' = answers
<1>1. /\ handlers' = [handlers EXCEPT ![c] = Idle] /\ main' = main
      /\ db' = db /\ answers' = answers
  BY DEF Disconnect
<1>2. c \in Callers BY SumsAssumption
<1>3. /\ RedbInv(SumsRequests)' /\ Pipeline' = Disowned(Pipeline, c)
      /\ OnlyCall(c, NoCall)
  BY <1>2, HangupInv DEF IInv, Disconnect
<1>4. ClientOK(Idle, NoCall) BY DEF ClientOK, ReplyFits, NoCall
<1>5. CallersOK' BY <1>1, <1>3, <1>4, ClientMoves DEF IInv
<1>6. HistoryOK' BY DEF IInv, HistoryOK, Disconnect
<1> QED BY <1>1, <1>3, <1>5, <1>6 DEF IInv

LEMMA Unchanged == ASSUME IInv, UNCHANGED vars PROVE IInv'
<1>1. /\ RedbInv(SumsRequests)'
  BY DEF IInv, vars, redb, RedbInv, RedbShape, CallsInFlight, Pipeline
<1>2. CallersOK' BY DEF IInv, vars, redb, CallersOK
<1>3. HistoryOK' BY DEF IInv, vars, HistoryOK
<1>4. DbOK(db)' BY DEF IInv, vars
<1> QED BY <1>1, <1>2, <1>3, <1>4 DEF IInv

LEMMA NextInv == ASSUME IInv, [Next]_vars PROVE IInv'
<1>1. ASSUME NEW c \in Clients, HandlerStep(c) PROVE IInv'
  BY <1>1, ShowInv, CheckedInv, AcceptedInv DEF HandlerStep
<1>2. CASE UNCHANGED vars \/ Ended BY <1>2, Unchanged DEF Ended
<1> QED
  BY <1>1, <1>2, RedbStepInv, WorkerHandleInv, WorkerFailsInv, StartInv,
     LaunchedInv, StopInv, HandlerBegins, DisconnectInv
  DEF Next

LEMMA IInvAlways == Spec => []IInv
BY IInvInit, NextInv, PTL DEF Spec

(* Every variable keeps its type: a reply is of the type its request is    *)
(* downcast to, and the journal has no gap below its index.                *)
THEOREM TypesCorrect == Spec => []TypeOK
<1>1. IInv => TypeOK
  <2> SUFFICES ASSUME IInv PROVE TypeOK OBVIOUS
  <2>1. RedbTypeOK(SumsRequests, IsSumsReply)
    <3>1. ASSUME NEW c \in Callers PROVE ReplyFits(calls[c])
      BY SumsAssumption DEF IInv, CallersOK, ClientOK, MainOK
    <3> QED BY <3>1 DEF ReplyFits, ReplyOK, RedbTypeOK, IInv, RedbInv
  <2>2. /\ DOMAIN db.counters \subseteq {"LAUNCH", "ENDPOINT"}
        /\ DOMAIN db.strings \subseteq {1}
        /\ db.processed_ids \subseteq {s.id : s \in Sums}
        /\ DOMAIN db.sums_journal = 0 .. At(db.journal_meta, "idx") - 1
        /\ \A i \in DOMAIN db.sums_journal : db.sums_journal[i] \in Sums
    BY DEF IInv, DbOK, CountsIn, SumIds
  <2>3. main \in [at : {"down", "starting", "up"}, counter_runs : Nat]
    BY DEF IInv, CallersOK, MainOK
  <2>4. \A c \in Clients :
          handlers[c].at \in {"idle", "json", "string", "journal", "sums",
                              "sums_journal"}
    BY DEF IInv, CallersOK, ClientOK, Awaits, Idle
  <2> QED BY <2>1, <2>2, <2>3, <2>4 DEF IInv, HistoryOK, TypeOK
<1> QED BY <1>1, IInvAlways, PTL

(* Every call of `run` is where its caller believes it to be, whoever hung *)
(* up, whatever failed and however often the process ended.                *)
THEOREM CallsCorrect == Spec => []CallsInFlight
<1>1. IInv => CallsInFlight BY DEF IInv, RedbInv
<1> QED BY <1>1, IInvAlways, PTL

-----------------------------------------------------------------------------
(* No id is accepted twice.  Of an id `x` there may be a handler that      *)
(* holds it (it was told that the id is new), writes of the journal that   *)
(* nobody waits for, rows of the journal, and answers that accepted it.    *)

AtMostOne(S) == \A i, j \in S : i = j

HoldsId(h, call, x) ==
  /\ h.at \in {"sums", "sums_journal"} /\ h.body.id = x
  /\ h.at = "sums" => call.at = "replied" /\ call.reply = Ok(TRUE)

Written(h, call) == h.at = "sums_journal" /\ call.at = "replied"

Adds(request, x) == request.do = "AddToJournal" /\ request.entry.id = x

Orphans(p, x) == {i \in DOMAIN p : p[i].from = Nobody /\ Adds(p[i].request, x)}

Holders(x)      == {c \in Clients : HoldsId(handlers[c], calls[c], x)}
Writers         == {c \in Clients : Written(handlers[c], calls[c])}
Rows(x)         == {k \in DOMAIN db.sums_journal : db.sums_journal[k].id = x}
AcceptedWith(x) == {i \in AcceptedSums : answers[i].body.id = x}

(* While a handler holds the id nobody else may write or accept it, and it *)
(* is in the journal only once its own write was replied to.               *)
IdOK(used, holders, writers, orphans, rows, accepted) ==
  /\ AtMostOne(holders) /\ AtMostOne(orphans)
  /\ AtMostOne(rows) /\ AtMostOne(accepted)
  /\ ~used => holders = {} /\ orphans = {} /\ rows = {} /\ accepted = {}
  /\ holders # {} => orphans = {} /\ accepted = {}
  /\ rows # {} => orphans = {} /\ holders \subseteq writers

IdInv(x) == IdOK(x \in db.processed_ids, Holders(x), Writers,
                 Orphans(Pipeline, x), Rows(x), AcceptedWith(x))

(* What the sets become.                                                   *)

LEMMA OrphansAppended ==
  ASSUME NEW E, NEW p \in Seq(E), NEW e \in E, e.from # Nobody, NEW x
  PROVE  Orphans(Append(p, e), x) = Orphans(p, x)
<1> DEFINE new == Append(p, e)
           n   == Len(p) + 1
<1>1. /\ Len(p) \in Nat /\ DOMAIN p = 1 .. Len(p) /\ DOMAIN new = 1 .. n
      /\ \A i \in 1 .. Len(p) : new[i] = p[i]
      /\ new[n] = e
  OBVIOUS
<1> HIDE DEF new
<1> QED BY <1>1 DEF Orphans, new

LEMMA OrphansTail ==
  ASSUME NEW E, NEW p \in Seq(E), p # <<>>, NEW x, AtMostOne(Orphans(p, x))
  PROVE  /\ AtMostOne(Orphans(Tail(p), x))
         /\ Orphans(p, x) = {} => Orphans(Tail(p), x) = {}
         /\ 1 \in Orphans(p, x) => Orphans(Tail(p), x) = {}
<1> DEFINE new == Tail(p)
<1>1. /\ DOMAIN p \subseteq Nat
      /\ DOMAIN new = {i \in Nat : i + 1 \in DOMAIN p /\ i # 0}
      /\ \A i \in DOMAIN new : new[i] = p[i + 1]
  BY TailPlaces
<1> HIDE DEF new
<1>2. \A i \in Orphans(new, x) : i \in Nat \ {0} /\ i + 1 \in Orphans(p, x)
  BY <1>1 DEF Orphans
<1>3. AtMostOne(Orphans(new, x)) BY <1>2 DEF AtMostOne
<1>4. 1 \in Orphans(p, x) => Orphans(new, x) = {} BY <1>2 DEF AtMostOne
<1> QED BY <1>2, <1>3, <1>4 DEF new

LEMMA OrphansDisowned ==
  ASSUME NEW p \in Seq(Entries(SumsRequests)), NEW c \in Callers, NEW call,
         OnItsWay(p, c, call), NEW x
  PROVE  \/ Orphans(Disowned(p, c), x) = Orphans(p, x)
         \/ /\ call.at = "awaiting" /\ Adds(call.request, x)
            /\ \E i : Orphans(Disowned(p, c), x) = Orphans(p, x) \cup {i}
<1> DEFINE new == Disowned(p, c)
<1>1. /\ DOMAIN new = DOMAIN p
      /\ \A i \in DOMAIN p :
           /\ new[i].request = p[i].request
           /\ new[i].from = IF p[i].from = c THEN Nobody ELSE p[i].from
  BY DisownedPlaces
<1>2. c # Nobody BY RedbAssumption
<1> HIDE DEF new
<1>3. CASE Places(p, c) = {}
  <2>1. \A i \in DOMAIN p : new[i].from = p[i].from BY <1>1, <1>3 DEF Places
  <2> QED BY <1>1, <2>1 DEF Orphans, new
<1>4. CASE Places(p, c) # {}
  <2>1. call.at = "awaiting" BY <1>4 DEF OnItsWay
  <2>2. PICK i \in DOMAIN p : Places(p, c) = {i} /\ p[i].request = call.request
    BY <2>1 DEF OnItsWay
  <2>3. /\ p[i].from = c
        /\ \A j \in DOMAIN p \ {i} : p[j].from # c
    BY <2>2 DEF Places
  <2>4. CASE Adds(call.request, x)
    <3>1. Orphans(new, x) = Orphans(p, x) \cup {i}
      BY <1>1, <1>2, <2>2, <2>3, <2>4 DEF Orphans
    <3> QED BY <2>1, <2>4, <3>1 DEF new
  <2>5. CASE ~Adds(call.request, x)
    <3>1. Orphans(new, x) = Orphans(p, x)
      BY <1>1, <1>2, <2>2, <2>3, <2>5 DEF Orphans
    <3> QED BY <3>1 DEF new
  <2> QED BY <2>4, <2>5
<1> QED BY <1>3, <1>4

LEMMA HoldersMove ==
  ASSUME NEW c \in Clients, NEW h, NEW v, OnlyCall(c, v),
         handlers'[c] = h, \A d \in Clients \ {c} : handlers'[d] = handlers[d],
         NEW x
  PROVE  /\ Holders(x)' \ {c} = Holders(x) \ {c}
         /\ c \in Holders(x)' <=> HoldsId(h, v, x)
         /\ Writers' \ {c} = Writers \ {c}
         /\ c \in Writers' <=> Written(h, v)
<1>1. \A d \in Clients \ {c} : calls'[d] = calls[d]
  BY SumsAssumption DEF OnlyCall
<1>2. calls'[c] = v BY DEF OnlyCall
<1> QED BY <1>1, <1>2 DEF Holders, Writers

LEMMA HoldersStay ==
  ASSUME handlers' = handlers, \A c \in Clients : calls'[c] = calls[c], NEW x
  PROVE  Holders(x)' = Holders(x) /\ Writers' = Writers
BY DEF Holders, Writers

LEMMA AcceptedGrows ==
  ASSUME answers \in Seq(Answers), NEW answer \in Answers,
         answers' = Append(answers, answer), NEW x
  PROVE  AcceptedWith(x)' =
           IF /\ answer.to = "sums_journal" /\ answer.status = "OK"
              /\ answer.body.id = x
           THEN AcceptedWith(x) \cup {Len(answers) + 1} ELSE AcceptedWith(x)
<1> DEFINE n == Len(answers) + 1
<1>1. /\ Len(answers) \in Nat /\ DOMAIN answers = 1 .. Len(answers)
      /\ DOMAIN answers' = 1 .. n
      /\ \A i \in 1 .. Len(answers) : answers'[i] = answers[i]
      /\ answers'[n] = answer
  OBVIOUS
<1>2. DOMAIN answers' = DOMAIN answers \cup {n} /\ n \notin DOMAIN answers
  BY <1>1
<1>3. \A i \in DOMAIN answers : answers'[i] = answers[i] BY <1>1
<1> HIDE DEF n
<1> QED BY <1>1, <1>2, <1>3 DEF AcceptedWith, AcceptedSums, AnswersOf, n

LEMMA HandledOther ==
  ASSUME NEW d, DbOK(d), NEW request \in SumsRequests,
         request.do \notin {"CheckAndStoreId", "AddToJournal"}
  PROVE  /\ Handled(d, request).db.processed_ids = d.processed_ids
         /\ Handled(d, request).db.sums_journal = d.sums_journal
<1>1. CASE request.do = "IncCounter"
  BY <1>1 DEF Handled, Incremented, Result, DbOK
<1>2. CASE request.do = "IncString"
  BY <1>2 DEF Handled, Lengthened, Result, DbOK
<1>3. CASE request.do = "GetJournal"
  BY <1>3 DEF Handled, LatestEntries, Result
<1> QED
  BY <1>1, <1>2, <1>3, RequestKinds
  DEF IncCounter, IncString, CheckAndStoreId, AddToJournal, GetJournal

(* What the actions leave of the id.                                       *)

LEMMA IdKept ==
  ASSUME NEW x, IdInv(x), db' = db, answers' = answers, Pipeline' = Pipeline,
         Holders(x)' \subseteq Holders(x),
         Holders(x)' \cap Writers \subseteq Writers'
  PROVE  IdInv(x)'
<1>1. /\ Rows(x)' = Rows(x) /\ AcceptedWith(x)' = AcceptedWith(x)
      /\ Orphans(Pipeline, x)' = Orphans(Pipeline, x)
  BY DEF Rows, AcceptedWith, AcceptedSums, AnswersOf, Orphans
<1> QED BY <1>1 DEF IdInv, IdOK, AtMostOne

LEMMA BeganId ==
  ASSUME IInv, NEW c \in Clients, NEW request, Began(c, request),
         NEW x, IdInv(x)
  PROVE  IdInv(x)'
<1>1. PICK h : /\ handlers' = [handlers EXCEPT ![c] = h]
               /\ h.at \in {"json", "string", "journal", "sums"}
  BY DEF Began
<1> DEFINE v == [at |-> "sending", request |-> request]
<1>2. OnlyCall(c, v) BY DEF Began
<1>3. /\ handlers'[c] = h
      /\ \A d \in Clients \ {c} : handlers'[d] = handlers[d]
  BY <1>1 DEF IInv, CallersOK
<1>4. v.at = "sending" OBVIOUS
<1> HIDE DEF v
<1>5. ~HoldsId(h, v, x) BY <1>1, <1>4 DEF HoldsId
<1>6. handlers[c].at = "idle" BY DEF Began, Idle
<1>7. c \notin Writers BY <1>6 DEF Writers, Written
<1>8. /\ Holders(x)' \subseteq Holders(x)
      /\ Holders(x)' \cap Writers \subseteq Writers'
  BY <1>2, <1>3, <1>5, <1>7, HoldersMove
<1> QED BY <1>8, IdKept DEF Began

LEMMA RespondedId ==
  ASSUME IInv, NEW c \in Clients, NEW status, NEW value,
         Responded(c, status, value), NEW x, IdInv(x)
  PROVE  IdInv(x)'
<1>1. PICK answer \in Answers :
        /\ answer.to = handlers[c].at /\ answer.body = handlers[c].body
        /\ answer.status = status /\ answers' = Append(answers, answer)
  BY DEF Responded
<1>2. OnlyCall(c, NoCall) /\ db' = db /\ Pipeline' = Pipeline BY DEF Responded
<1>3. /\ handlers'[c] = Idle
      /\ \A d \in Clients \ {c} : handlers'[d] = handlers[d]
  BY DEF Responded, IInv, CallersOK
<1>4. ~HoldsId(Idle, NoCall, x) BY DEF HoldsId, Idle
<1>5. /\ Holders(x)' = Holders(x) \ {c}
      /\ Writers \ {c} \subseteq Writers'
  BY <1>2, <1>3, <1>4, HoldersMove
<1>6. Rows(x)' = Rows(x) /\ Orphans(Pipeline, x)' = Orphans(Pipeline, x)
  BY <1>2 DEF Rows, Orphans
<1> DEFINE accepts == /\ answer.to = "sums_journal" /\ answer.status = "OK"
                      /\ answer.body.id = x
           n == Len(answers) + 1
<1>7. AcceptedWith(x)' = IF accepts THEN AcceptedWith(x) \cup {n}
                         ELSE AcceptedWith(x)
  BY <1>1, AcceptedGrows DEF IInv, HistoryOK
<1>8. accepts => c \in Holders(x) BY <1>1 DEF Holders, HoldsId
<1> HIDE DEF accepts, n
<1>9. CASE accepts
  BY <1>2, <1>5, <1>6, <1>7, <1>8, <1>9 DEF IdInv, IdOK, AtMostOne
<1>10. CASE ~accepts
  BY <1>2, <1>5, <1>6, <1>7, <1>10 DEF IdInv, IdOK, AtMostOne
<1> QED BY <1>9, <1>10

LEMMA JournalsId ==
  ASSUME IInv, NEW c \in Clients, handlers[c].at = "sums",
         DOMAIN handlers[c] = {"at", "body", "since"}, Journals(c),
         NEW x, IdInv(x)
  PROVE  IdInv(x)'
<1> DEFINE h == [handlers[c] EXCEPT !.at = "sums_journal"]
           v == [at |-> "sending", request |-> AddToJournal(handlers[c].body)]
<1>1. h.at = "sums_journal" /\ h.body = handlers[c].body OBVIOUS
<1>2. OnlyCall(c, v) BY DEF Journals
<1>3. /\ handlers'[c] = h
      /\ \A d \in Clients \ {c} : handlers'[d] = handlers[d]
  BY DEF Journals, IInv, CallersOK
<1> HIDE DEF h, v
<1>4. HoldsId(h, v, x) => c \in Holders(x)
  BY <1>1 DEF HoldsId, Holders, Journals
<1>5. c \notin Writers BY DEF Writers, Written
<1>6. /\ Holders(x)' \subseteq Holders(x)
      /\ Holders(x)' \cap Writers \subseteq Writers'
  BY <1>2, <1>3, <1>4, <1>5, HoldersMove
<1> QED BY <1>6, IdKept DEF Journals

LEMMA DisconnectId ==
  ASSUME IInv, NEW c \in Clients, Disconnect(c), NEW x, IdInv(x)
  PROVE  IdInv(x)'
<1>1. /\ handlers' = [handlers EXCEPT ![c] = Idle]
      /\ OnlyCall(c, NoCall) /\ Pipeline' = Disowned(Pipeline, c)
      /\ db' = db /\ answers' = answers
  BY DisconnectInv
<1>2. /\ handlers'[c] = Idle
      /\ \A d \in Clients \ {c} : handlers'[d] = handlers[d]
  BY <1>1 DEF IInv, CallersOK
<1>3. ~HoldsId(Idle, NoCall, x) BY DEF HoldsId, Idle
<1>4. /\ Holders(x)' = Holders(x) \ {c}
      /\ Writers \ {c} \subseteq Writers'
  BY <1>1, <1>2, <1>3, HoldersMove
<1>5. Rows(x)' = Rows(x) /\ AcceptedWith(x)' = AcceptedWith(x)
  BY <1>1 DEF Rows, AcceptedWith, AcceptedSums, AnswersOf
<1>6. c \in Callers BY SumsAssumption
<1>7. \/ Orphans(Pipeline', x) = Orphans(Pipeline, x)
      \/ /\ calls[c].at = "awaiting" /\ Adds(calls[c].request, x)
         /\ \E i : Orphans(Pipeline', x) = Orphans(Pipeline, x) \cup {i}
  <2>1. Pipeline \in Seq(Entries(SumsRequests))
    BY PipelineShape DEF IInv, RedbInv
  <2>2. OnItsWay(Pipeline, c, calls[c])
    BY <1>6 DEF IInv, RedbInv, CallsInFlight
  <2> DEFINE p == Pipeline
             call == calls[c]
  <2> HIDE DEF p, call
  <2>3. \/ Orphans(Disowned(p, c), x) = Orphans(p, x)
        \/ /\ call.at = "awaiting" /\ Adds(call.request, x)
           /\ \E i : Orphans(Disowned(p, c), x) = Orphans(p, x) \cup {i}
    BY <1>6, <2>1, <2>2, OrphansDisowned DEF p, call
  <2> QED BY <1>1, <2>3 DEF p, call
<1>8. CASE Orphans(Pipeline', x) = Orphans(Pipeline, x)
  BY <1>1, <1>4, <1>5, <1>8 DEF IdInv, IdOK, AtMostOne
<1>9. ASSUME calls[c].at = "awaiting", Adds(calls[c].request, x),
             NEW i, Orphans(Pipeline', x) = Orphans(Pipeline, x) \cup {i}
      PROVE  IdInv(x)'
  <2>1. Awaits(handlers[c], calls[c].request)
    BY <1>9 DEF IInv, CallersOK, ClientOK, NoCall
  <2>2. /\ handlers[c].at = "sums_journal"
        /\ calls[c].request = AddToJournal(handlers[c].body)
    BY <1>9, <2>1, Kinds DEF Adds
  <2>3. handlers[c].body.id = x BY <1>9, <2>2 DEF Adds, AddToJournal
  <2>4. c \in Holders(x) /\ c \notin Writers
    BY <1>9, <2>2, <2>3 DEF Holders, HoldsId, Writers, Written
  <2> QED BY <1>1, <1>4, <1>5, <1>9, <2>4 DEF IdInv, IdOK, AtMostOne
<1> QED BY <1>7, <1>8, <1>9

LEMMA WorkerHolders ==
  ASSUME IInv, NEW reply, Reply(reply), handlers' = handlers, NEW x
  PROVE  /\ Writers \subseteq Writers'
         /\ \/ Holders(x)' = Holders(x)
            \/ /\ worker[1].request.do = "CheckAndStoreId"
               /\ worker[1].request.id = x /\ reply = Ok(TRUE)
               /\ \E c : Holders(x)' \subseteq Holders(x) \cup {c}
<1> DEFINE c == worker[1].from
           request == worker[1].request
           v == RepliedCall(request, reply)
<1>1. /\ worker # <<>>
      /\ c = Nobody => calls' = calls
      /\ c # Nobody => OnlyCall(c, v)
  BY ReplyInv DEF IInv
<1>2. /\ c \in Callers \cup {Nobody}
      /\ c # Nobody => calls[c].at = "awaiting" /\ calls[c].request = request
  BY <1>1, AnsweredCall DEF IInv
<1>3. v.at = "replied" /\ v.request = request /\ v.reply = reply
  BY DEF RepliedCall
<1> HIDE DEF v, c, request
<1>4. CASE c = Nobody
  <2>1. \A d \in Clients : calls'[d] = calls[d] BY <1>1, <1>4
  <2> QED BY <2>1, HoldersStay
<1>5. CASE c # Nobody /\ c \notin Clients
  <2>1. \A d \in Clients : calls'[d] = calls[d]
    BY <1>1, <1>5, SumsAssumption DEF OnlyCall
  <2> QED BY <2>1, HoldersStay
<1>6. CASE c # Nobody /\ c \in Clients
  <2>1. /\ Holders(x)' \ {c} = Holders(x) \ {c}
        /\ c \in Holders(x)' <=> HoldsId(handlers[c], v, x)
        /\ Writers' \ {c} = Writers \ {c}
    BY <1>1, <1>6, HoldersMove
  <2>2. c \notin Writers BY <1>2, <1>6 DEF Writers, Written
  <2>3. c \in Holders(x) <=> HoldsId(handlers[c], calls[c], x)
    BY <1>6 DEF Holders
  <2>4. Awaits(handlers[c], request)
    BY <1>2, <1>6 DEF IInv, CallersOK, ClientOK, NoCall
  <2>5. CASE HoldsId(handlers[c], v, x) /\ handlers[c].at = "sums"
    <3>1. request = CheckAndStoreId(handlers[c].body.id) BY <2>4, <2>5, Kinds
    <3>2. request.do = "CheckAndStoreId" /\ request.id = x /\ reply = Ok(TRUE)
      BY <1>3, <2>5, <3>1 DEF HoldsId, CheckAndStoreId
    <3>3. Holders(x)' \subseteq Holders(x) \cup {c} BY <2>1
    <3> QED BY <2>1, <2>2, <3>2, <3>3 DEF request
  <2>6. CASE ~(HoldsId(handlers[c], v, x) /\ handlers[c].at = "sums")
    <3>1. HoldsId(handlers[c], v, x) <=> HoldsId(handlers[c], calls[c], x)
      BY <1>2, <1>6, <2>6 DEF HoldsId
    <3>2. Holders(x)' = Holders(x) BY <2>1, <2>3, <3>1
    <3> QED BY <2>1, <2>2, <3>2
  <2> QED BY <2>5, <2>6
<1> QED BY <1>4, <1>5, <1>6

(* Of the writes that nobody waits for, the worker takes one away.         *)
LEMMA WorkerOrphans ==
  ASSUME IInv, NEW reply, Reply(reply), NEW x, AtMostOne(Orphans(Pipeline, x))
  PROVE  /\ AtMostOne(Orphans(Pipeline, x)')
         /\ Orphans(Pipeline, x) = {} => Orphans(Pipeline, x)' = {}
         /\ worker[1].from = Nobody /\ Adds(worker[1].request, x) =>
              Orphans(Pipeline, x) # {} /\ Orphans(Pipeline, x)' = {}
<1>1. worker # <<>> /\ Pipeline' = Tail(Pipeline) BY ReplyInv DEF IInv
<1> DEFINE p == Pipeline
<1>2. /\ p \in Seq(Entries(SumsRequests)) /\ p # <<>>
      /\ 1 \in DOMAIN p /\ p[1] = worker[1]
  BY <1>1, AnsweredCall DEF IInv
<1>3. worker[1].from = Nobody /\ Adds(worker[1].request, x)
        => 1 \in Orphans(p, x)
  BY <1>2 DEF Orphans
<1>4. Orphans(Pipeline, x)' = Orphans(Tail(p), x) BY <1>1 DEF Orphans
<1> HIDE DEF p
<1>5. /\ AtMostOne(Orphans(Tail(p), x))
      /\ Orphans(p, x) = {} => Orphans(Tail(p), x) = {}
      /\ 1 \in Orphans(p, x) => Orphans(Tail(p), x) = {}
  BY <1>2, OrphansTail DEF p
<1> QED BY <1>3, <1>4, <1>5 DEF p

(* A reply that tells no handler that `x` is new, and adds no row of it.   *)
LEMMA OtherReplyId ==
  ASSUME IInv, NEW reply, Reply(reply), handlers' = handlers,
         answers' = answers, NEW x, IdInv(x),
         Rows(x)' = Rows(x), db.processed_ids \subseteq db'.processed_ids,
         \/ worker[1].request.do # "CheckAndStoreId"
         \/ worker[1].request.id # x
         \/ reply # Ok(TRUE)
  PROVE  IdInv(x)'
<1>1. Holders(x)' = Holders(x) /\ Writers \subseteq Writers' BY WorkerHolders
<1>2. /\ AtMostOne(Orphans(Pipeline, x)')
      /\ Orphans(Pipeline, x) = {} => Orphans(Pipeline, x)' = {}
  BY WorkerOrphans DEF IdInv, IdOK
<1>3. AcceptedWith(x)' = AcceptedWith(x)
  BY DEF AcceptedWith, AcceptedSums, AnswersOf
<1> QED BY <1>1, <1>2, <1>3 DEF IdInv, IdOK, AtMostOne

LEMMA WorkerFailsId ==
  ASSUME IInv, WorkerFails, NEW x, IdInv(x)
  PROVE  IdInv(x)'
<1>1. Err # Ok(TRUE)
  <2>1. Err.ok = FALSE BY DEF Err
  <2>2. Ok(TRUE).ok = TRUE BY DEF Ok
  <2> QED BY <2>1, <2>2
<1>2. Rows(x)' = Rows(x) BY DEF Rows, WorkerFails
<1> QED BY <1>1, <1>2, OtherReplyId DEF WorkerFails

LEMMA WorkerHandleId ==
  ASSUME IInv, WorkerHandle, NEW x, IdInv(x)
  PROVE  IdInv(x)'
<1> DEFINE request == worker[1].request
           c == worker[1].from
           reply == Handled(db, request).reply
<1>1. /\ worker # <<>> /\ request \in SumsRequests
      /\ db' = Handled(db, request).db /\ Reply(reply)
  BY WorkerHandleInv
<1>2. handlers' = handlers /\ answers' = answers BY DEF WorkerHandle
<1>3. DbOK(db) BY DEF IInv
<1>4. CASE request.do \notin {"CheckAndStoreId", "AddToJournal"}
  <2>1. /\ db'.processed_ids = db.processed_ids
        /\ db'.sums_journal = db.sums_journal
    BY <1>1, <1>3, <1>4, HandledOther
  <2>2. Rows(x)' = Rows(x) BY <2>1 DEF Rows
  <2> HIDE DEF reply
  <2> QED BY <1>1, <1>2, <1>4, <2>1, <2>2, OtherReplyId
<1>5. ASSUME NEW id \in SumIds, request = CheckAndStoreId(id) PROVE IdInv(x)'
  <2>1. /\ db'.processed_ids = db.processed_ids \cup {id}
        /\ db'.sums_journal = db.sums_journal
        /\ reply = Ok(id \notin db.processed_ids)
    BY <1>1, <1>3, <1>5, CheckAndStoreIdOK
  <2>2. Rows(x)' = Rows(x) BY <2>1 DEF Rows
  <2>3. request.id = id BY <1>5 DEF CheckAndStoreId
  <2> HIDE DEF reply
  <2>4. CASE id # x
    <3>1. db.processed_ids \subseteq db'.processed_ids BY <2>1
    <3> QED BY <1>1, <1>2, <2>2, <2>3, <2>4, <3>1, OtherReplyId
  <2>5. CASE id = x /\ x \in db.processed_ids
    <3>1. db.processed_ids \subseteq db'.processed_ids BY <2>1
    <3>2. reply # Ok(TRUE)
      <4>1. reply = Ok(FALSE) BY <2>1, <2>5
      <4>2. Ok(FALSE).value = FALSE /\ Ok(TRUE).value = TRUE BY DEF Ok
      <4> QED BY <4>1, <4>2
    <3> QED BY <1>1, <1>2, <2>2, <3>1, <3>2, OtherReplyId
  <2>6. CASE id = x /\ x \notin db.processed_ids
    <3>1. /\ Holders(x) = {} /\ Orphans(Pipeline, x) = {}
          /\ Rows(x) = {} /\ AcceptedWith(x) = {}
      BY <2>6 DEF IdInv, IdOK
    <3>2. AtMostOne(Orphans(Pipeline, x)) BY DEF IdInv, IdOK
    <3>3. Orphans(Pipeline, x)' = {} BY <1>1, <3>1, <3>2, WorkerOrphans
    <3>4. PICK d : Holders(x)' \subseteq {d}
      <4>1. Holders(x)' = {} \/ \E d : Holders(x)' \subseteq {d}
        BY <1>1, <1>2, <3>1, WorkerHolders
      <4> QED BY <4>1
    <3>5. AcceptedWith(x)' = {}
      BY <1>2, <3>1 DEF AcceptedWith, AcceptedSums, AnswersOf
    <3>6. x \in db'.processed_ids /\ Rows(x)' = {} BY <2>1, <2>2, <2>6, <3>1
    <3> QED BY <3>3, <3>4, <3>5, <3>6 DEF IdInv, IdOK, AtMostOne
  <2> QED BY <2>4, <2>5, <2>6
<1>6. ASSUME NEW entry \in Sums, request = AddToJournal(entry) PROVE IdInv(x)'
  <2> DEFINE idx == At(db.journal_meta, "idx")
  <2>1. /\ idx \notin DOMAIN db.sums_journal
        /\ db'.sums_journal = Inserted(db.sums_journal, idx, entry)
        /\ db'.processed_ids = db.processed_ids
    BY <1>1, <1>3, <1>6, AddToJournalOK
  <2> HIDE DEF idx
  <2>2. request.do = "AddToJournal" /\ request.entry = entry
    BY <1>6 DEF AddToJournal
  <2> HIDE DEF reply
  <2>3. Rows(x)' = IF entry.id = x THEN Rows(x) \cup {idx} ELSE Rows(x)
    BY <2>1 DEF Rows, Inserted
  <2>4. CASE entry.id # x
    <3>1. Rows(x)' = Rows(x) BY <2>3, <2>4
    <3> QED BY <1>1, <1>2, <2>1, <2>2, <3>1, OtherReplyId
  <2>5. CASE entry.id = x
    <3>1. Adds(request, x) BY <2>2, <2>5 DEF Adds
    <3>2. /\ Holders(x)' = Holders(x) /\ Writers \subseteq Writers'
      BY <1>1, <1>2, <2>2, WorkerHolders
    <3>3. AcceptedWith(x)' = AcceptedWith(x)
      BY <1>2 DEF AcceptedWith, AcceptedSums, AnswersOf
    <3>4. /\ AtMostOne(Orphans(Pipeline, x))
          /\ Orphans(Pipeline, x) = {} => Orphans(Pipeline, x)' = {}
          /\ c = Nobody => /\ Orphans(Pipeline, x) # {}
                           /\ Orphans(Pipeline, x)' = {}
      <4>1. AtMostOne(Orphans(Pipeline, x)) BY DEF IdInv, IdOK
      <4> QED BY <1>1, <3>1, <4>1, WorkerOrphans
    <3>5. CASE c = Nobody
      BY <2>1, <2>3, <2>5, <3>2, <3>3, <3>4, <3>5 DEF IdInv, IdOK, AtMostOne
    <3>6. CASE c # Nobody
      <4>1. /\ c \in Callers /\ calls[c].at = "awaiting"
            /\ calls[c].request = request
        BY <1>1, <3>6, AnsweredCall DEF IInv
      <4>2. c \in Clients
        <5>1. calls["main"].request = request =>
                calls["main"].at # "awaiting"
          BY <2>2 DEF IInv, CallersOK, MainOK, NoCall, IncCounter
        <5> QED BY <4>1, <5>1, SumsAssumption
      <4>3. Awaits(handlers[c], request)
        BY <4>1, <4>2 DEF IInv, CallersOK, ClientOK, NoCall
      <4>4. /\ handlers[c].at = "sums_journal"
            /\ request = AddToJournal(handlers[c].body)
        BY <2>2, <4>3, Kinds
      <4>5. handlers[c].body = entry BY <2>2, <4>4 DEF AddToJournal
      <4>6. c \in Holders(x) /\ c \notin Writers
        BY <2>5, <4>1, <4>2, <4>4, <4>5 DEF Holders, HoldsId, Writers, Written
      <4>7. c \in Writers'
        <5> DEFINE v == RepliedCall(request, reply)
        <5>1. OnlyCall(c, v) BY <1>1, <3>6, ReplyInv DEF IInv
        <5>2. v.at = "replied" BY DEF RepliedCall
        <5> HIDE DEF v
        <5>3. calls'[c].at = "replied" BY <5>1, <5>2 DEF OnlyCall
        <5> QED BY <1>2, <4>2, <4>4, <5>3 DEF Writers, Written
      <4> HIDE DEF c
      <4>8. /\ Rows(x) = {} /\ Orphans(Pipeline, x) = {} /\ Holders(x) = {c}
            /\ AcceptedWith(x) = {} /\ x \in db.processed_ids
        BY <4>6 DEF IdInv, IdOK, AtMostOne
      <4>9. Rows(x)' = {idx} BY <2>3, <2>5, <4>8
      <4>10. Orphans(Pipeline, x)' = {} BY <3>4, <4>8
      <4> QED BY <2>1, <3>2, <3>3, <4>7, <4>8, <4>9, <4>10
              DEF IdInv, IdOK, AtMostOne
    <3> QED BY <3>5, <3>6
  <2> QED BY <2>4, <2>5
<1> QED BY <1>1, <1>4, <1>5, <1>6, RequestKinds
        DEF IncCounter, IncString, GetJournal

LEMMA IdInit == ASSUME Init, NEW x PROVE IdInv(x)
<1>1. Pipeline = <<>> BY InitialInv DEF Init
<1>2. Orphans(Pipeline, x) = {} /\ Rows(x) = {} /\ AcceptedWith(x) = {}
  BY <1>1 DEF Init, EmptyDb, Orphans, Rows, AcceptedWith, AcceptedSums,
              AnswersOf
<1>3. Holders(x) = {} BY DEF Init, Idle, Holders, HoldsId
<1> QED BY <1>2, <1>3 DEF IdInv, IdOK, AtMostOne

LEMMA IdNext ==
  ASSUME IInv, [Next]_vars, NEW x, IdInv(x)
  PROVE  IdInv(x)'
<1>1. CASE RedbStep
  <2>1. db' = db /\ answers' = answers /\ handlers' = handlers
    BY <1>1 DEF RedbStep
  <2>2. CASE WorkerRecv
    <3>1. Pipeline' = Pipeline /\ calls' = calls
      BY <2>2, RecvInv DEF IInv
    <3>2. Holders(x)' = Holders(x) /\ Writers' = Writers
      BY <2>1, <3>1 DEF Holders, Writers
    <3> QED BY <2>1, <3>1, <3>2, IdKept
  <2>3. ASSUME NEW c \in Callers, Send(c) PROVE IdInv(x)'
    <3> DEFINE request == calls[c].request
               v == [at |-> "awaiting", request |-> request]
               e == Entry(c, request)
    <3>1. /\ calls[c].at = "sending" /\ request \in SumsRequests
          /\ Pipeline' = Append(Pipeline, e) /\ OnlyCall(c, v)
      BY <2>3, SendInv DEF IInv
    <3>2. v.at = "awaiting" OBVIOUS
    <3>3. e \in Entries(SumsRequests) /\ e.from # Nobody
      BY <3>1, RedbAssumption DEF Entries, Entry
    <3>4. Pipeline \in Seq(Entries(SumsRequests))
      BY PipelineShape DEF IInv, RedbInv
    <3> HIDE DEF v, e, request
    <3>5. Orphans(Pipeline, x)' = Orphans(Pipeline, x)
      <4>1. Orphans(Pipeline, x)' = Orphans(Append(Pipeline, e), x)
        BY <3>1 DEF Orphans
      <4> QED BY <3>3, <3>4, <4>1, OrphansAppended
    <3>6. Holders(x)' = Holders(x) /\ Writers' = Writers
      <4>1. \A d \in Clients :
              \/ calls'[d] = calls[d]
              \/ calls'[d].at # "replied" /\ calls[d].at # "replied"
        BY <3>1, <3>2, SumsAssumption DEF OnlyCall
      <4> QED BY <2>1, <4>1 DEF Holders, Writers, HoldsId, Written
    <3>7. Rows(x)' = Rows(x) /\ AcceptedWith(x)' = AcceptedWith(x)
      BY <2>1 DEF Rows, AcceptedWith, AcceptedSums, AnswersOf
    <3> QED BY <2>1, <3>5, <3>6, <3>7 DEF IdInv
  <2> QED BY <1>1, <2>2, <2>3 DEF RedbStep
<1>2. CASE WorkerHandle BY <1>2, WorkerHandleId
<1>3. CASE WorkerFails BY <1>3, WorkerFailsId
<1>4. CASE Start \/ Launched
  <2>1. \E v : OnlyCall("main", v)
    BY <1>4, StartInv, LaunchedInv
  <2>2. \A c \in Clients : calls'[c] = calls[c]
    BY <2>1, SumsAssumption DEF OnlyCall
  <2>3. handlers' = handlers /\ db' = db /\ answers' = answers
    BY <1>4 DEF Start, Launched
  <2>4. Pipeline' = Pipeline BY <1>4, StartInv, LaunchedInv
  <2> QED BY <2>2, <2>3, <2>4, HoldersStay, IdKept
<1>5. CASE Stop
  <2>1. Orphans(Pipeline, x)' = {} BY <1>5, StopInv DEF Orphans
  <2>2. Holders(x)' = {} BY <1>5 DEF Stop, Holders, HoldsId, Idle
  <2>3. db' = db /\ Rows(x)' = Rows(x) /\ AcceptedWith(x)' = AcceptedWith(x)
    BY <1>5 DEF Stop, Rows, AcceptedWith, AcceptedSums, AnswersOf
  <2> QED BY <2>1, <2>2, <2>3 DEF IdInv, IdOK, AtMostOne
<1>6. ASSUME NEW c \in Clients,
             json_handler(c) \/ string_handler(c) \/ journal_handler(c)
               \/ sums_handler(c)
      PROVE  IdInv(x)'
  BY <1>6, HandlerBegins, BeganId
<1>7. ASSUME NEW c \in Clients, HandlerStep(c) PROVE IdInv(x)'
  <2>1. CASE Show(c) BY <2>1, ShowInv, RespondedId
  <2>2. CASE Accepted(c) BY <2>2, AcceptedInv, RespondedId
  <2>3. CASE Checked(c)
    <3>1. DOMAIN handlers[c] = {"at", "body", "since"}
      BY <2>3, RepliesWaits DEF Checked
    <3> QED BY <2>3, <3>1, CheckedInv, RespondedId, JournalsId
  <2> QED BY <1>7, <2>1, <2>2, <2>3 DEF HandlerStep
<1>8. ASSUME NEW c \in Clients, Disconnect(c) PROVE IdInv(x)'
  BY <1>8, DisconnectId
<1>9. CASE UNCHANGED vars \/ Ended
  <2>1. UNCHANGED vars BY <1>9 DEF Ended
  <2>2. /\ calls' = calls /\ queue' = queue /\ worker' = worker
        /\ db' = db /\ handlers' = handlers /\ answers' = answers
    BY <2>1 DEF vars, redb
  <2>3. Pipeline' = Pipeline BY <2>2 DEF Pipeline
  <2> QED BY <2>2, <2>3, HoldersStay, IdKept
<1> QED
  BY <1>1, <1>2, <1>3, <1>4, <1>5, <1>6, <1>7, <1>8, <1>9 DEF Next

(* An id is accepted once and journaled once in the life of the database   *)
(* file, whatever handlers are dropped and however often the process ends. *)
THEOREM OnceCorrect == Spec => []IdsAcceptedOnce
<1> DEFINE AllIds == IInv /\ \A x : IdInv(x)
<1>1. Init => AllIds BY IInvInit, IdInit
<1>2. AllIds /\ [Next]_vars => AllIds' BY NextInv, IdNext
<1>3. AllIds => IdsAcceptedOnce
  BY DEF IdInv, IdOK, AtMostOne, Rows, AcceptedWith, IdsAcceptedOnce
<1> QED BY <1>1, <1>2, <1>3, PTL DEF Spec

-----------------------------------------------------------------------------
(* What holds of every step, for the proofs about answers, pages, counts.  *)

Idx(d) == At(d.journal_meta, "idx")

CountingRequests == {IncCounter("LAUNCH"), IncCounter("ENDPOINT"), IncString(1)}

(* The count that a request adds to.                                       *)
Count(d, request) ==
  IF request = IncString(1) THEN At(d.strings, 1)
  ELSE At(d.counters, request.counter)

(* A database request takes nothing back: no row of the journal, no index  *)
(* and no count.                                                           *)
RowsKept(d, e) ==
  /\ Idx(d) \in Nat /\ Idx(e) \in Nat /\ Idx(d) <= Idx(e)
  /\ \A k \in DOMAIN d.sums_journal :
       k \in DOMAIN e.sums_journal /\ e.sums_journal[k] = d.sums_journal[k]

(* No client has a new reply, except the one that the worker replied to.   *)
Quiet ==
  /\ db' = db /\ answers' = answers /\ failures' = failures
  /\ \A c \in Clients :
       \/ handlers'[c] = handlers[c] /\ calls'[c] = calls[c]
       \/ /\ calls'[c].at # "replied"
          /\ handlers'[c].at = "journal" =>
               \/ handlers'[c] = handlers[c]
               \/ handlers'[c].since = Idx(db)

RepliedTo(c, request, reply) ==
  /\ handlers'[c] = handlers[c]
  /\ calls[c].at = "awaiting" /\ calls[c].request = request
  /\ calls'[c] = RepliedCall(request, reply)
  /\ Awaits(handlers[c], request)

WorkerReplied(reply) ==
  /\ worker # <<>> /\ worker[1].request \in SumsRequests
  /\ handlers' = handlers /\ answers' = answers
  /\ \A c \in Clients :
       \/ calls'[c] = calls[c]
       \/ c = worker[1].from /\ RepliedTo(c, worker[1].request, reply)

Answered(c) ==
  /\ db' = db /\ failures' = failures
  /\ \A d \in Clients \ {c} : handlers'[d] = handlers[d] /\ calls'[d] = calls[d]
  /\ handlers'[c] = Idle /\ calls'[c] = NoCall
  /\ calls[c].at = "replied"
  /\ \E answer \in Answers :
       /\ answer.to = handlers[c].at /\ answer.body = handlers[c].body
       /\ answers' = Append(answers, answer)
       /\ answer.to \in {"json", "string"} /\ answer.status = "OK" =>
            calls[c].reply = Ok(answer.value)

LEMMA CountsHandled ==
  ASSUME NEW d, DbOK(d), NEW q \in CountingRequests,
         NEW request \in SumsRequests
  PROVE  /\ Count(d, q) \in Nat
         /\ request = q =>
              /\ Count(Handled(d, q).db, q) = Count(d, q) + 1
              /\ Handled(d, q).reply = Ok(Count(d, q) + 1)
         /\ request # q => Count(Handled(d, request).db, q) = Count(d, q)
<1>1. Count(d, q) \in Nat
  BY CountOf DEF Count, CountingRequests, DbOK, IncCounter, IncString
<1>2. ASSUME NEW counter \in {"LAUNCH", "ENDPOINT"},
             request = IncCounter(counter)
      PROVE  /\ Handled(d, request).reply = Ok(At(d.counters, counter) + 1)
             /\ Handled(d, request).db.strings = d.strings
             /\ Handled(d, request).db.counters
                  = Inserted(d.counters, counter, At(d.counters, counter) + 1)
  <2> DEFINE n == At(d.counters, counter) + 1
             new == [d EXCEPT !.counters = Inserted(d.counters, counter, n)]
  <2>1. Handled(d, request) = Result(new, Ok(n))
    BY <1>2 DEF Handled, IncCounter, Incremented
  <2> HIDE DEF n
  <2>2. /\ new.counters = Inserted(d.counters, counter, n)
        /\ new.strings = d.strings
    BY DEF DbOK
  <2> HIDE DEF new
  <2>3. Handled(d, request).db = new /\ Handled(d, request).reply = Ok(n)
    BY <2>1 DEF Result
  <2> QED BY <2>2, <2>3 DEF n
<1>3. ASSUME request = IncString(1)
      PROVE  /\ Handled(d, request).reply = Ok(At(d.strings, 1) + 1)
             /\ Handled(d, request).db.counters = d.counters
             /\ Handled(d, request).db.strings
                  = Inserted(d.strings, 1, At(d.strings, 1) + 1)
  <2> DEFINE n == At(d.strings, 1) + 1
             new == [d EXCEPT !.strings = Inserted(d.strings, 1, n)]
  <2>1. Handled(d, request) = Result(new, Ok(n))
    BY <1>3 DEF Handled, IncString, Lengthened
  <2> HIDE DEF n
  <2>2. new.strings = Inserted(d.strings, 1, n) /\ new.counters = d.counters
    BY DEF DbOK
  <2> HIDE DEF new
  <2>3. Handled(d, request).db = new /\ Handled(d, request).reply = Ok(n)
    BY <2>1 DEF Result
  <2> QED BY <2>2, <2>3 DEF n
<1>4. ASSUME request \notin CountingRequests
      PROVE  /\ Handled(d, request).db.strings = d.strings
             /\ Handled(d, request).db.counters = d.counters
  <2>1. request.do \in {"CheckAndStoreId", "AddToJournal", "GetJournal"}
    BY <1>4, RequestKinds
    DEF CountingRequests, CheckAndStoreId, AddToJournal, GetJournal
  <2>2. CASE request.do = "CheckAndStoreId"
    BY <2>2 DEF Handled, CheckedAndStored, Result, DbOK
  <2>3. CASE request.do = "AddToJournal"
    BY <2>3 DEF Handled, Journaled, Result, DbOK
  <2>4. CASE request.do = "GetJournal"
    BY <2>4 DEF Handled, LatestEntries, Result
  <2> QED BY <2>1, <2>2, <2>3, <2>4
<1>5. \A counter : IncCounter(counter) # IncString(1)
                   /\ IncCounter(counter).counter = counter
  BY DEF IncCounter, IncString
<1>6. CASE request \notin CountingRequests BY <1>1, <1>4, <1>6 DEF Count
<1>7. CASE request = IncString(1)
  <2>1. q # request => \E counter : q = IncCounter(counter)
    BY <1>7 DEF CountingRequests
  <2>2. At(Inserted(d.strings, 1, At(d.strings, 1) + 1), 1)
          = At(d.strings, 1) + 1
    BY DEF At, Inserted
  <2> QED BY <1>1, <1>3, <1>5, <1>7, <2>1, <2>2 DEF Count
<1>8. ASSUME NEW counter \in {"LAUNCH", "ENDPOINT"},
             request = IncCounter(counter)
      PROVE  /\ request = q =>
                  /\ Count(Handled(d, q).db, q) = Count(d, q) + 1
                  /\ Handled(d, q).reply = Ok(Count(d, q) + 1)
             /\ request # q => Count(Handled(d, request).db, q) = Count(d, q)
  <2> DEFINE n == At(d.counters, counter) + 1
  <2>1. /\ Handled(d, request).reply = Ok(n)
        /\ Handled(d, request).db.strings = d.strings
        /\ Handled(d, request).db.counters = Inserted(d.counters, counter, n)
    BY <1>2, <1>8
  <2>2. CASE q = IncString(1) BY <1>5, <1>8, <2>1, <2>2 DEF Count
  <2>3. ASSUME NEW other \in {"LAUNCH", "ENDPOINT"}, q = IncCounter(other)
        PROVE  /\ request = q <=> counter = other
               /\ Count(Handled(d, request).db, q)
                    = IF counter = other THEN n ELSE Count(d, q)
               /\ counter = other => n = Count(d, q) + 1
    <3>1. request = q <=> counter = other BY <1>5, <1>8, <2>3
    <3>2. Count(Handled(d, request).db, q)
            = At(Inserted(d.counters, counter, n), other)
      BY <1>5, <2>1, <2>3 DEF Count
    <3>3. Count(d, q) = At(d.counters, other) BY <1>5, <2>3 DEF Count
    <3>4. At(Inserted(d.counters, counter, n), other)
            = IF counter = other THEN n ELSE At(d.counters, other)
      BY DEF At, Inserted
    <3> QED BY <3>1, <3>2, <3>3, <3>4
  <2> HIDE DEF n
  <2> QED BY <2>1, <2>2, <2>3 DEF CountingRequests
<1> QED BY <1>1, <1>6, <1>7, <1>8 DEF CountingRequests

LEMMA RowsHandled ==
  ASSUME NEW d, DbOK(d), NEW request \in SumsRequests
  PROVE  RowsKept(d, Handled(d, request).db)
<1> DEFINE e == Handled(d, request).db
<1>1. DbOK(e) BY EveryRequestOK DEF HandledOK
<1>2. Idx(d) \in Nat /\ Idx(e) \in Nat
  <2> HIDE DEF e
  <2> QED BY <1>1, CountOf DEF DbOK, Idx
<1>3. DOMAIN d.sums_journal = 0 .. Idx(d) - 1
      /\ DOMAIN e.sums_journal = 0 .. Idx(e) - 1
  BY <1>1 DEF DbOK, Idx
<1>4. ASSUME e.sums_journal = d.sums_journal PROVE RowsKept(d, e)
  <2> HIDE DEF e
  <2>1. Idx(d) <= Idx(e)
    <3>1. CASE Idx(d) = 0 BY <1>2, <3>1
    <3>2. CASE Idx(d) # 0
      <4>1. Idx(d) - 1 \in 0 .. Idx(d) - 1 BY <1>2, <3>2
      <4>2. Idx(d) - 1 \in 0 .. Idx(e) - 1 BY <1>3, <1>4, <4>1
      <4> QED BY <1>2, <4>2
    <3> QED BY <3>1, <3>2
  <2> QED BY <1>2, <1>4, <2>1 DEF RowsKept
<1>5. CASE request.do # "AddToJournal"
  <2>1. e.sums_journal = d.sums_journal
    <3>1. CASE request.do = "CheckAndStoreId"
      <4>1. PICK id \in SumIds : request = CheckAndStoreId(id)
        BY <3>1, RequestKinds
        DEF IncCounter, IncString, AddToJournal, GetJournal
      <4> QED BY <4>1, CheckAndStoreIdOK
    <3>2. CASE request.do # "CheckAndStoreId" BY <1>5, <3>2, HandledOther
    <3> QED BY <3>1, <3>2
  <2> QED BY <1>4, <2>1
<1>6. ASSUME NEW entry \in Sums, request = AddToJournal(entry)
      PROVE  RowsKept(d, e)
  <2>1. /\ Idx(d) \notin DOMAIN d.sums_journal
        /\ e.sums_journal = Inserted(d.sums_journal, Idx(d), entry)
    BY <1>6, AddToJournalOK DEF Idx
  <2> HIDE DEF e
  <2>2. /\ DOMAIN e.sums_journal = DOMAIN d.sums_journal \cup {Idx(d)}
        /\ \A k \in DOMAIN d.sums_journal :
             e.sums_journal[k] = d.sums_journal[k]
    BY <2>1 DEF Inserted
  <2>3. Idx(d) \in 0 .. Idx(e) - 1 BY <1>3, <2>2
  <2>4. Idx(d) <= Idx(e) BY <1>2, <2>3
  <2> QED BY <1>2, <2>2, <2>4 DEF RowsKept
<1> QED BY <1>5, <1>6, RequestKinds
        DEF IncCounter, IncString, CheckAndStoreId, GetJournal

LEMMA WorkerReplies ==
  ASSUME IInv, NEW reply, Reply(reply), handlers' = handlers,
         answers' = answers
  PROVE  WorkerReplied(reply)
<1> DEFINE c == worker[1].from
           request == worker[1].request
           v == RepliedCall(request, reply)
<1>1. /\ worker # <<>>
      /\ c = Nobody => calls' = calls
      /\ c # Nobody => OnlyCall(c, v)
  BY ReplyInv DEF IInv
<1>2. /\ request \in SumsRequests
      /\ c # Nobody => calls[c].at = "awaiting" /\ calls[c].request = request
  BY <1>1, AnsweredCall DEF IInv
<1>3. Clients \subseteq Callers BY SumsAssumption
<1> HIDE DEF v, request, c
<1>4. ASSUME NEW d \in Clients
      PROVE  \/ calls'[d] = calls[d]
             \/ d = c /\ RepliedTo(d, request, reply)
  <2>1. CASE c = Nobody BY <1>1, <2>1
  <2>2. CASE c # Nobody /\ d # c BY <1>1, <1>3, <2>2 DEF OnlyCall
  <2>3. CASE c # Nobody /\ d = c
    <3>1. Awaits(handlers[d], request)
      BY <1>2, <2>3 DEF IInv, CallersOK, ClientOK, NoCall
    <3>2. calls'[d] = v BY <1>1, <2>3 DEF OnlyCall
    <3> QED BY <1>2, <2>3, <3>1, <3>2 DEF RepliedTo, v
  <2> QED BY <2>1, <2>2, <2>3
<1> QED BY <1>1, <1>2, <1>4 DEF WorkerReplied, c, request

LEMMA ClientQuiet ==
  ASSUME IInv, NEW c \in Clients, NEW h, NEW v,
         handlers' = [handlers EXCEPT ![c] = h], OnlyCall(c, v),
         db' = db, answers' = answers, failures' = failures,
         v.at # "replied",
         h.at = "journal" => h.since = Idx(db)
  PROVE  Quiet
<1>1. /\ handlers'[c] = h
      /\ \A d \in Clients \ {c} : handlers'[d] = handlers[d]
  BY DEF IInv, CallersOK
<1>2. calls'[c] = v /\ \A d \in Clients \ {c} : calls'[d] = calls[d]
  BY SumsAssumption DEF OnlyCall
<1> QED BY <1>1, <1>2 DEF Quiet

LEMMA RespondedAnswered ==
  ASSUME IInv, NEW c \in Clients, NEW status, NEW value,
         Responded(c, status, value), failures' = failures,
         calls[c].at = "replied",
         handlers[c].at \in {"json", "string"} /\ status = "OK" =>
           calls[c].reply = Ok(value)
  PROVE  Answered(c)
<1>1. /\ handlers'[c] = Idle
      /\ \A d \in Clients \ {c} : handlers'[d] = handlers[d]
  BY DEF Responded, IInv, CallersOK
<1>2. /\ calls'[c] = NoCall
      /\ \A d \in Clients \ {c} : calls'[d] = calls[d]
  BY SumsAssumption DEF Responded, OnlyCall
<1> QED BY <1>1, <1>2 DEF Answered, Responded

(* What a step is to the clients: nothing new, a reply, or an answer.      *)
LEMMA StepKinds ==
  ASSUME IInv, [Next]_vars
  PROVE  \/ Quiet
         \/ WorkerHandle /\ WorkerReplied(Handled(db, worker[1].request).reply)
         \/ WorkerFails /\ WorkerReplied(Err)
         \/ \E c \in Clients : Answered(c)
<1>1. CASE RedbStep
  <2>1. /\ db' = db /\ answers' = answers /\ failures' = failures
        /\ handlers' = handlers
    BY <1>1 DEF RedbStep
  <2>2. CASE WorkerRecv
    <3>1. calls' = calls BY <2>2, RecvInv DEF IInv
    <3> QED BY <2>1, <3>1 DEF Quiet
  <2>3. ASSUME NEW c \in Callers, Send(c) PROVE Quiet
    <3> DEFINE v == [at |-> "awaiting", request |-> calls[c].request]
    <3>1. OnlyCall(c, v) BY <2>3, SendInv DEF IInv
    <3>2. v.at # "replied" OBVIOUS
    <3> HIDE DEF v
    <3> QED BY <2>1, <3>1, <3>2, SumsAssumption DEF Quiet, OnlyCall
  <2> QED BY <1>1, <2>2, <2>3 DEF RedbStep
<1>2. CASE WorkerHandle
  <2>1. Reply(Handled(db, worker[1].request).reply) BY <1>2, WorkerHandleInv
  <2>2. handlers' = handlers /\ answers' = answers BY <1>2 DEF WorkerHandle
  <2> QED BY <1>2, <2>1, <2>2, WorkerReplies
<1>3. CASE WorkerFails BY <1>3, WorkerReplies DEF WorkerFails
<1>4. CASE Start \/ Launched
  <2>1. PICK v : OnlyCall("main", v) BY <1>4, StartInv, LaunchedInv
  <2>2. \A c \in Clients : calls'[c] = calls[c]
    BY <2>1, SumsAssumption DEF OnlyCall
  <2>3. /\ handlers' = handlers /\ db' = db /\ answers' = answers
        /\ failures' = failures
    BY <1>4 DEF Start, Launched
  <2> QED BY <2>2, <2>3 DEF Quiet
<1>5. CASE Stop
  <2>1. \A c \in Clients : handlers'[c] = Idle /\ calls'[c] = NoCall
    BY <1>5, SumsAssumption DEF Stop, RedbRestart
  <2>2. db' = db /\ answers' = answers /\ failures' = failures
    BY <1>5 DEF Stop
  <2> QED BY <2>1, <2>2 DEF Quiet, Idle, NoCall
<1>6. ASSUME NEW c \in Clients,
             json_handler(c) \/ string_handler(c) \/ journal_handler(c)
               \/ sums_handler(c)
      PROVE  Quiet
  <2>1. PICK request : Began(c, request) BY <1>6, HandlerBegins
  <2>2. PICK h : /\ handlers' = [handlers EXCEPT ![c] = h]
                 /\ h.since = At(db.journal_meta, "idx")
    BY <2>1 DEF Began
  <2>3. failures' = failures
    BY <1>6 DEF json_handler, string_handler, journal_handler, sums_handler,
                Begin
  <2> DEFINE v == [at |-> "sending", request |-> request]
  <2>4. OnlyCall(c, v) /\ db' = db /\ answers' = answers BY <2>1 DEF Began
  <2>5. v.at # "replied" OBVIOUS
  <2> HIDE DEF v
  <2> QED BY <2>2, <2>3, <2>4, <2>5, ClientQuiet DEF Idx
<1>7. ASSUME NEW c \in Clients, HandlerStep(c) PROVE Quiet \/ Answered(c)
  <2>1. failures' = failures
    BY <1>7 DEF HandlerStep, Show, Checked, Accepted, Replies
  <2>2. CASE Show(c) BY <2>1, <2>2, ShowInv, RespondedAnswered
  <2>3. CASE Accepted(c) BY <2>1, <2>3, AcceptedInv, RespondedAnswered
  <2>4. CASE Checked(c)
    <3>1. /\ DOMAIN handlers[c] = {"at", "body", "since"}
          /\ calls[c].at = "replied"
      BY <2>4, RepliesWaits DEF Checked
    <3>2. CASE Journals(c)
      <4> DEFINE h == [handlers[c] EXCEPT !.at = "sums_journal"]
                 v == [at |-> "sending",
                       request |-> AddToJournal(handlers[c].body)]
      <4>1. handlers' = [handlers EXCEPT ![c] = h] BY <3>2 DEF Journals
      <4>2. OnlyCall(c, v) /\ db' = db /\ answers' = answers
        BY <3>2 DEF Journals
      <4>3. h.at = "sums_journal" /\ v.at = "sending" BY <3>1
      <4> HIDE DEF h, v
      <4> QED BY <2>1, <4>1, <4>2, <4>3, ClientQuiet
    <3> QED BY <2>1, <2>4, <3>1, <3>2, CheckedInv, RespondedAnswered
  <2> QED BY <1>7, <2>2, <2>3, <2>4 DEF HandlerStep
<1>8. ASSUME NEW c \in Clients, Disconnect(c) PROVE Quiet
  <2>1. failures' = failures BY <1>8 DEF Disconnect
  <2>2. Idle.at = "idle" /\ NoCall.at = "none" BY DEF Idle, NoCall
  <2> QED BY <1>8, <2>1, <2>2, DisconnectInv, ClientQuiet
<1>9. CASE UNCHANGED vars \/ Ended
  <2>1. UNCHANGED vars BY <1>9 DEF Ended
  <2> QED BY <2>1 DEF vars, redb, Quiet
<1> QED
  BY <1>1, <1>2, <1>3, <1>4, <1>5, <1>6, <1>7, <1>8, <1>9 DEF Next

LEMMA StepKeepsRows ==
  ASSUME IInv, [Next]_vars
  PROVE  RowsKept(db, db')
<1>1. CASE db' = db
  <2>1. Idx(db) \in Nat BY CountOf DEF IInv, DbOK, Idx
  <2> QED BY <1>1, <2>1 DEF RowsKept
<1>2. CASE WorkerHandle BY <1>2, WorkerHandleInv, RowsHandled DEF IInv
<1> QED BY <1>1, <1>2, StepKinds DEF Quiet, WorkerFails, Answered

-----------------------------------------------------------------------------
(* What is accepted is journaled, but for what failed transactions cost.   *)
(* The write has been replied to before a handler accepts, so it is the    *)
(* handlers at that place that count too.                                  *)

InJournal(d, body) ==
  \E k \in DOMAIN d.sums_journal : d.sums_journal[k] = body

LostWrites == {c \in Writers : ~InJournal(db, handlers[c].body)}

JournalInv ==
  /\ IsFiniteSet(Unjournaled) /\ IsFiniteSet(LostWrites)
  /\ Cardinality(Unjournaled) + Cardinality(LostWrites) <= failures

LEMMA InJournalKept ==
  ASSUME NEW d, NEW e, RowsKept(d, e), NEW body, InJournal(d, body)
  PROVE  InJournal(e, body)
BY DEF RowsKept, InJournal

LEMMA JournalInit == ASSUME Init PROVE JournalInv
<1>1. AcceptedSums = {} /\ failures = 0 BY DEF Init, AcceptedSums, AnswersOf
<1>2. Writers = {} BY DEF Init, Idle, Writers, Written
<1>3. Unjournaled = {} /\ LostWrites = {}
  BY <1>1, <1>2 DEF Unjournaled, LostWrites
<1> QED BY <1>1, <1>3, FS_EmptySet DEF JournalInv

LEMMA SubsetSize ==
  ASSUME NEW U, IsFiniteSet(U), NEW C, C \subseteq U
  PROVE  /\ IsFiniteSet(C) /\ Cardinality(C) \in Nat
         /\ Cardinality(U) \in Nat /\ Cardinality(C) <= Cardinality(U)
BY FS_Subset, FS_CardinalityType

LEMMA NoMoreLost ==
  ASSUME NEW S, IsFiniteSet(S), NEW T, IsFiniteSet(T), NEW n \in Nat,
         Cardinality(S) + Cardinality(T) <= n,
         NEW A, NEW B, A \subseteq S, B \subseteq T
  PROVE  /\ IsFiniteSet(A) /\ IsFiniteSet(B)
         /\ Cardinality(A) + Cardinality(B) <= n
<1>1. /\ IsFiniteSet(A) /\ Cardinality(A) \in Nat
      /\ Cardinality(S) \in Nat /\ Cardinality(A) <= Cardinality(S)
  BY SubsetSize
<1>2. /\ IsFiniteSet(B) /\ Cardinality(B) \in Nat
      /\ Cardinality(T) \in Nat /\ Cardinality(B) <= Cardinality(T)
  BY SubsetSize
<1> QED BY <1>1, <1>2

(* A failure may lose one more.                                            *)
LEMMA OneMoreLost ==
  ASSUME NEW S, IsFiniteSet(S), NEW T, IsFiniteSet(T), NEW n \in Nat,
         Cardinality(S) + Cardinality(T) <= n, NEW y,
         NEW A, NEW B, A \subseteq S, B \subseteq T \cup {y}
  PROVE  /\ IsFiniteSet(A) /\ IsFiniteSet(B)
         /\ Cardinality(A) + Cardinality(B) <= n + 1
<1> DEFINE more == T \cup {y}
<1>1. /\ IsFiniteSet(more)
      /\ Cardinality(more) =
           IF y \in T THEN Cardinality(T) ELSE Cardinality(T) + 1
  BY FS_AddElement
<1>2. Cardinality(S) \in Nat /\ Cardinality(T) \in Nat
  BY FS_CardinalityType
<1> HIDE DEF more
<1>3. Cardinality(S) + Cardinality(more) <= n + 1 BY <1>1, <1>2
<1>4. B \subseteq more BY DEF more
<1> QED BY <1>1, <1>3, <1>4, NoMoreLost

(* One that is lost may become one of the other kind.                      *)
LEMMA LostElsewhere ==
  ASSUME NEW S, IsFiniteSet(S), NEW T, IsFiniteSet(T), NEW n \in Nat,
         Cardinality(S) + Cardinality(T) <= n, NEW x, NEW y, y \in T
  PROVE  /\ IsFiniteSet(S \cup {x}) /\ IsFiniteSet(T \ {y})
         /\ Cardinality(S \cup {x}) + Cardinality(T \ {y}) <= n
<1> DEFINE more == S \cup {x}
           less == T \ {y}
<1>1. /\ IsFiniteSet(more)
      /\ Cardinality(more) =
           IF x \in S THEN Cardinality(S) ELSE Cardinality(S) + 1
  BY FS_AddElement
<1>2. /\ IsFiniteSet(less)
      /\ Cardinality(less) = Cardinality(T) - 1
  BY FS_RemoveElement
<1>3. Cardinality(S) \in Nat /\ Cardinality(T) \in Nat
  BY FS_CardinalityType
<1> HIDE DEF more, less
<1>4. Cardinality(more) + Cardinality(less) <= n BY <1>1, <1>2, <1>3
<1> QED BY <1>1, <1>2, <1>4 DEF more, less

LEMMA AppendedPlaces ==
  ASSUME NEW S, NEW s \in Seq(S), NEW e \in S
  PROVE  /\ DOMAIN Append(s, e) = DOMAIN s \cup {Len(s) + 1}
         /\ Append(s, e)[Len(s) + 1] = e
         /\ \A i \in DOMAIN s : i # Len(s) + 1 /\ Append(s, e)[i] = s[i]
<1> DEFINE new == Append(s, e)
           n   == Len(s) + 1
<1>1. /\ Len(s) \in Nat /\ DOMAIN s = 1 .. Len(s) /\ DOMAIN new = 1 .. n
      /\ \A i \in 1 .. Len(s) : new[i] = s[i]
      /\ new[n] = e
  OBVIOUS
<1> HIDE DEF new
<1> QED BY <1>1 DEF new

LEMMA AcceptedSame ==
  ASSUME answers' = answers
  PROVE  AcceptedSums' = AcceptedSums
BY DEF AcceptedSums, AnswersOf

LEMMA JournalNext ==
  ASSUME IInv, [Next]_vars, JournalInv
  PROVE  JournalInv'
<1> DEFINE lost   == Unjournaled
           writes == LostWrites
<1>1. RowsKept(db, db') BY StepKeepsRows
<1>2. /\ failures \in Nat /\ IsFiniteSet(lost) /\ IsFiniteSet(writes)
      /\ Cardinality(lost) + Cardinality(writes) <= failures
  BY SumsAssumption DEF JournalInv, IInv, HistoryOK
<1>3. \A i : i \in Unjournaled <=>
            i \in AcceptedSums /\ ~InJournal(db, answers[i].body)
  BY DEF Unjournaled, InJournal
<1>4. \A i : i \in Unjournaled' <=>
            i \in AcceptedSums' /\ ~InJournal(db', answers'[i].body)
  BY DEF Unjournaled, InJournal
<1>5. \A body : InJournal(db, body) => InJournal(db', body)
  BY <1>1, InJournalKept
<1>6. ASSUME answers' = answers PROVE Unjournaled' \subseteq lost
  <2>1. AcceptedSums' = AcceptedSums BY <1>6, AcceptedSame
  <2> QED BY <1>3, <1>4, <1>5, <1>6, <2>1
<1> HIDE DEF lost, writes
<1>7. CASE Quiet
  <2>1. \A c \in Writers' : c \in Writers /\ handlers'[c] = handlers[c]
    BY <1>7 DEF Quiet, Writers, Written
  <2>2. /\ Unjournaled' \subseteq lost /\ failures' = failures
        /\ LostWrites' \subseteq writes
    BY <1>5, <1>6, <1>7, <2>1 DEF Quiet, LostWrites, writes
  <2> QED BY <1>2, <2>2, NoMoreLost DEF JournalInv
<1>8. CASE WorkerHandle /\ WorkerReplied(Handled(db, worker[1].request).reply)
  <2> DEFINE request == worker[1].request
             reply == Handled(db, request).reply
  <2>1. /\ request \in SumsRequests /\ db' = Handled(db, request).db
    BY <1>8, WorkerHandleInv
  <2>2. failures' = failures /\ Unjournaled' \subseteq lost
    BY <1>6, <1>8 DEF WorkerHandle
  <2>3. ASSUME NEW c \in Writers'
        PROVE  /\ handlers'[c] = handlers[c]
               /\ c \in Writers \/ InJournal(db', handlers[c].body)
    <3>1. c \in Clients /\ handlers' = handlers
      BY <1>8, <2>3 DEF Writers, WorkerReplied
    <3>2. CASE calls'[c] = calls[c]
      BY <2>3, <3>1, <3>2 DEF Writers, Written
    <3>3. CASE RepliedTo(c, request, reply)
      <4>1. handlers[c].at = "sums_journal" BY <2>3, <3>1 DEF Writers, Written
      <4>2. /\ request = AddToJournal(handlers[c].body)
            /\ handlers[c].body \in Sums
        BY <3>3, <4>1, Kinds DEF RepliedTo
      <4> DEFINE entry == handlers[c].body
                 idx == At(db.journal_meta, "idx")
      <4>3. db'.sums_journal = Inserted(db.sums_journal, idx, entry)
        BY <2>1, <4>2, AddToJournalOK DEF IInv
      <4> HIDE DEF idx, entry
      <4>4. idx \in DOMAIN db'.sums_journal /\ db'.sums_journal[idx] = entry
        BY <4>3 DEF Inserted
      <4> QED BY <3>1, <4>4 DEF InJournal, entry
    <3> QED BY <1>8, <3>1, <3>2, <3>3 DEF WorkerReplied
  <2> HIDE DEF request, reply
  <2>4. LostWrites' \subseteq writes BY <1>5, <2>3 DEF LostWrites, writes
  <2> QED BY <1>2, <2>2, <2>4, NoMoreLost DEF JournalInv
<1>9. CASE WorkerFails /\ WorkerReplied(Err)
  <2>1. failures' = failures + 1 /\ Unjournaled' \subseteq lost
    BY <1>6, <1>9 DEF WorkerFails
  <2> DEFINE client == worker[1].from
  <2>2. ASSUME NEW c \in Writers', c # client
        PROVE  c \in Writers /\ handlers'[c] = handlers[c]
    BY <1>9, <2>2 DEF WorkerReplied, Writers, Written
  <2> HIDE DEF client
  <2>3. LostWrites' \subseteq writes \cup {client}
    BY <1>5, <2>2 DEF LostWrites, writes
  <2> QED BY <1>2, <2>1, <2>3, OneMoreLost DEF JournalInv
<1>10. ASSUME NEW c \in Clients, Answered(c) PROVE JournalInv'
  <2>1. PICK answer \in Answers :
          /\ answer.to = handlers[c].at /\ answer.body = handlers[c].body
          /\ answers' = Append(answers, answer)
    BY <1>10 DEF Answered
  <2>2. /\ db' = db /\ failures' = failures /\ calls[c].at = "replied"
        /\ \A d \in Writers' :
             d # c /\ d \in Writers /\ handlers'[d] = handlers[d]
    BY <1>10 DEF Answered, Idle, Writers, Written
  <2> DEFINE n == Len(answers) + 1
  <2>3. answers \in Seq(Answers) BY DEF IInv, HistoryOK
  <2>4. /\ DOMAIN answers' = DOMAIN answers \cup {n}
        /\ answers'[n] = answer
        /\ \A i \in DOMAIN answers : i # n /\ answers'[i] = answers[i]
    BY <2>1, <2>3, AppendedPlaces
  <2> HIDE DEF n
  <2>5. ASSUME NEW i \in AcceptedSums'
        PROVE  \/ i \in AcceptedSums /\ answers'[i] = answers[i]
               \/ i = n /\ c \in Writers /\ answers'[i].body = handlers[c].body
    <3>1. /\ i \in DOMAIN answers' /\ answers'[i].to = "sums_journal"
          /\ answers'[i].status = "OK"
      BY <2>5 DEF AcceptedSums, AnswersOf
    <3>2. CASE i = n
      BY <1>10, <2>1, <2>2, <2>4, <3>1, <3>2 DEF Writers, Written
    <3>3. CASE i \in DOMAIN answers
      BY <2>4, <3>1, <3>3 DEF AcceptedSums, AnswersOf
    <3> QED BY <2>4, <3>1, <3>2, <3>3
  <2>6. LostWrites' \subseteq writes \ {c}
    BY <2>2 DEF LostWrites, writes
  <2>7. CASE c \in writes
    <3>1. Unjournaled' \subseteq lost \cup {n}
      BY <1>3, <1>4, <2>2, <2>5 DEF lost
    <3> DEFINE more == lost \cup {n}
               less == writes \ {c}
    <3>2. /\ IsFiniteSet(more) /\ IsFiniteSet(less)
          /\ Cardinality(more) + Cardinality(less) <= failures
      BY ONLY <1>2, <2>7, LostElsewhere
    <3>3. Unjournaled' \subseteq more /\ LostWrites' \subseteq less
      BY <2>6, <3>1
    <3> HIDE DEF more, less
    <3> QED BY <1>2, <2>2, <3>2, <3>3, NoMoreLost DEF JournalInv
  <2>8. CASE c \notin writes
    <3>1. c \in Writers => InJournal(db, handlers[c].body)
      BY <2>8 DEF LostWrites, writes
    <3>2. Unjournaled' \subseteq lost
      BY <1>3, <1>4, <2>2, <2>5, <3>1 DEF lost
    <3>3. LostWrites' \subseteq writes BY <2>6
    <3> QED BY <1>2, <2>2, <3>2, <3>3, NoMoreLost DEF JournalInv
  <2> QED BY <2>7, <2>8
<1> QED BY <1>7, <1>8, <1>9, <1>10, StepKinds

(* A failed transaction costs the journal at most one of the sums whose    *)
(* clients were told OK, and nothing else does, whatever is dropped,       *)
(* stopped and journaled after it.                                         *)
THEOREM JournaledCorrect == Spec => []AcceptedAreJournaled
<1> DEFINE Inv == IInv /\ JournalInv
<1>1. Init => Inv BY IInvInit, JournalInit
<1>2. Inv /\ [Next]_vars => Inv' BY NextInv, JournalNext
<1>3. Inv => AcceptedAreJournaled
  <2> SUFFICES ASSUME Inv PROVE AcceptedAreJournaled OBVIOUS
  <2> HIDE DEF Inv
  <2>1. /\ IsFiniteSet(Unjournaled) /\ IsFiniteSet(LostWrites)
        /\ Cardinality(Unjournaled) + Cardinality(LostWrites) <= failures
        /\ failures \in Nat
    BY SumsAssumption DEF Inv, JournalInv, IInv, HistoryOK
  <2>2. Cardinality(Unjournaled) \in Nat /\ Cardinality(LostWrites) \in Nat
    BY <2>1, FS_CardinalityType
  <2> QED BY <2>1, <2>2 DEF AcceptedAreJournaled
<1> QED BY <1>1, <1>2, <1>3, PTL DEF Spec

-----------------------------------------------------------------------------
(* A page of the journal.                                                  *)

Latest(d, page, size, since) ==
  \E last \in since .. Idx(d) :
    /\ Len(page) = Min({size, last})
    /\ \A k \in DOMAIN page :
         page[k] = d.sums_journal[last - Len(page) + k - 1]

PageOK(d, h, call) ==
  h.at = "journal" =>
    /\ h.since \in 0 .. Idx(d)
    /\ \A page : call.at = "replied" /\ call.reply = Ok(page) =>
         Latest(d, page, Min({h.body, MaxRequestSize}), h.since)

PagesInv == \A c \in Clients : PageOK(db, handlers[c], calls[c])

LEMMA LeastOfTwo ==
  ASSUME NEW a \in Nat, NEW b \in Nat
  PROVE  /\ Min({a, b}) \in Nat
         /\ Min({a, b}) = IF a <= b THEN a ELSE b
<1> DEFINE S == {a, b}
<1>1. \E x \in S : \A y \in S : x <= y OBVIOUS
<1>2. Min(S) \in S /\ \A y \in S : Min(S) <= y BY <1>1 DEF Min
<1> QED BY <1>2

LEMMA LeastInTwoSteps ==
  ASSUME NEW a \in Nat, NEW b \in Nat, NEW c \in Nat
  PROVE  Min({a, b, c}) = Min({Min({a, c}), b})
<1>1. /\ Min({a, c}) \in Nat
      /\ Min({a, c}) = IF a <= c THEN a ELSE c
  BY LeastOfTwo
<1>2. Min({Min({a, c}), b})
        = IF Min({a, c}) <= b THEN Min({a, c}) ELSE b
  BY <1>1, LeastOfTwo
<1>3. /\ Min({a, b, c}) \in {a, b, c}
      /\ Min({a, b, c}) <= a /\ Min({a, b, c}) <= b /\ Min({a, b, c}) <= c
  BY LeastOfThree
<1> DEFINE m == Min({a, b, c})
           m2 == Min({a, c})
           m3 == Min({m2, b})
<1> HIDE DEF m, m2, m3
<1>4. m3 = IF m2 <= b THEN m2 ELSE b BY <1>2 DEF m2, m3
<1>5. m2 = IF a <= c THEN a ELSE c BY <1>1 DEF m2
<1>6. m \in {a, b, c} /\ m <= a /\ m <= b /\ m <= c BY <1>3 DEF m
<1>7. m = m3 BY <1>4, <1>5, <1>6
<1> QED BY <1>7 DEF m, m2, m3

(* The page is what is latest now, so also what was latest since.          *)
LEMMA PageHandled ==
  ASSUME NEW d, DbOK(d), NEW n \in JournalSizes, NEW since \in 0 .. Idx(d),
         NEW page, Handled(d, GetJournal(n)).reply = Ok(page)
  PROVE  Latest(d, page, Min({n, MaxRequestSize}), since)
<1> DEFINE idx  == Idx(d)
           m    == Min({n, idx, MaxRequestSize})
           rows == [k \in 1 .. m |-> d.sums_journal[idx - m + k - 1]]
<1>1. Handled(d, GetJournal(n))
        = Result(d, IF DOMAIN d.journal_meta = {} THEN Err ELSE Ok(rows))
  BY DEF Handled, GetJournal, LatestEntries, Idx
<1>2. idx \in Nat /\ n \in Nat /\ MaxRequestSize \in Nat
  BY CountOf, SumsAssumption DEF DbOK, Idx
<1> HIDE DEF idx
<1>3. m \in Nat /\ m = Min({Min({n, MaxRequestSize}), idx})
  BY <1>2, LeastOfThree, LeastInTwoSteps
<1> HIDE DEF m
<1>4. page = rows
  <2>1. Err.ok = FALSE /\ Ok(page).ok = TRUE BY DEF Err, Ok
  <2>2. Ok(page) # Err BY <2>1
  <2> HIDE DEF rows
  <2>3. Ok(page) = IF DOMAIN d.journal_meta = {} THEN Err ELSE Ok(rows)
    BY <1>1 DEF Result
  <2>4. Ok(page) = Ok(rows) BY <2>2, <2>3
  <2>5. Ok(page).value = page /\ Ok(rows).value = rows BY DEF Ok
  <2> QED BY <2>4, <2>5
<1>5. Len(page) = m /\ DOMAIN page = 1 .. m BY <1>3, <1>4
<1>6. \A k \in DOMAIN page :
        page[k] = d.sums_journal[idx - Len(page) + k - 1]
  BY <1>4, <1>5
<1>7. idx \in since .. Idx(d) BY <1>2 DEF idx
<1> HIDE DEF rows
<1> QED BY <1>3, <1>5, <1>6, <1>7 DEF Latest

LEMMA LatestKept ==
  ASSUME NEW d, DbOK(d), NEW e, RowsKept(d, e), NEW page \in Seq(Sums),
         NEW size \in Nat, NEW since \in Nat, Latest(d, page, size, since)
  PROVE  Latest(e, page, size, since)
<1>1. PICK last \in since .. Idx(d) :
        /\ Len(page) = Min({size, last})
        /\ \A k \in DOMAIN page :
             page[k] = d.sums_journal[last - Len(page) + k - 1]
  BY DEF Latest
<1>2. /\ Idx(d) \in Nat /\ Idx(e) \in Nat /\ Idx(d) <= Idx(e)
      /\ DOMAIN d.sums_journal = 0 .. Idx(d) - 1
      /\ \A k \in DOMAIN d.sums_journal :
           e.sums_journal[k] = d.sums_journal[k]
  BY DEF RowsKept, DbOK, Idx
<1>3. last \in Nat /\ last \in since .. Idx(e) BY <1>1, <1>2
<1>4. Len(page) \in Nat /\ Len(page) <= last
  <2>1. Min({size, last}) = IF size <= last THEN size ELSE last
    BY <1>3, LeastOfTwo
  <2> QED BY <1>1, <1>3, <2>1
<1>5. ASSUME NEW k \in DOMAIN page
      PROVE  page[k] = e.sums_journal[last - Len(page) + k - 1]
  <2>1. k \in 1 .. Len(page) OBVIOUS
  <2>2. last - Len(page) + k - 1 \in 0 .. Idx(d) - 1
    BY <1>1, <1>2, <1>4, <2>1
  <2> QED BY <1>1, <1>2, <2>2
<1> QED BY <1>1, <1>3, <1>5 DEF Latest

LEMMA PagesInit == ASSUME Init PROVE PagesInv
BY DEF Init, Idle, PagesInv, PageOK

(* A page is a sequence of sums.                                           *)
LEMMA PageShape ==
  ASSUME IInv, NEW c \in Clients, handlers[c].at = "journal",
         calls[c].at = "replied", NEW page, calls[c].reply = Ok(page)
  PROVE  page \in Seq(Sums) /\ handlers[c].body \in JournalSizes
<1>1. /\ Awaits(handlers[c], calls[c].request)
      /\ ReplyOK(calls[c].request, calls[c].reply)
  BY DEF IInv, CallersOK, ClientOK, NoCall, ReplyFits
<1>2. /\ handlers[c].body \in JournalSizes
      /\ calls[c].request.do = "GetJournal"
  BY <1>1 DEF Awaits, GetJournal
<1>3. Err.ok = FALSE /\ Ok(page).ok = TRUE BY DEF Err, Ok
<1>4. IsSumsReply(calls[c].request, Ok(page)) BY <1>1, <1>3 DEF ReplyOK
<1>5. Ok(page) \in [ok : {TRUE}, value : Seq(Sums)]
  BY <1>2, <1>4 DEF IsSumsReply
<1>6. page \in Seq(Sums) BY <1>5 DEF Ok
<1> QED BY <1>2, <1>6

LEMMA PageKept ==
  ASSUME IInv, NEW c \in Clients, PageOK(db, handlers[c], calls[c]),
         NEW e, RowsKept(db, e)
  PROVE  PageOK(e, handlers[c], calls[c])
<1> DEFINE h == handlers[c]
           size == Min({h.body, MaxRequestSize})
<1>1. SUFFICES ASSUME h.at = "journal"
               PROVE  /\ h.since \in 0 .. Idx(e)
                      /\ \A page :
                           calls[c].at = "replied" /\ calls[c].reply = Ok(page)
                             => Latest(e, page, size, h.since)
  BY DEF PageOK
<1>2. /\ h.since \in 0 .. Idx(db)
      /\ \A page : calls[c].at = "replied" /\ calls[c].reply = Ok(page) =>
           Latest(db, page, size, h.since)
  BY <1>1 DEF PageOK
<1>3. h.since \in Nat /\ h.since \in 0 .. Idx(e) BY <1>2 DEF RowsKept
<1>4. ASSUME NEW page, calls[c].at = "replied", calls[c].reply = Ok(page)
      PROVE  Latest(e, page, size, h.since)
  <2>1. page \in Seq(Sums) /\ h.body \in JournalSizes
    BY <1>1, <1>4, PageShape
  <2>2. size \in Nat BY <2>1, SumsAssumption, LeastOfTwo
  <2>3. Latest(db, page, size, h.since) BY <1>2, <1>4
  <2> HIDE DEF size, h
  <2> QED BY <1>3, <2>1, <2>2, <2>3, LatestKept DEF IInv
<1> QED BY <1>3, <1>4

LEMMA PagesNext ==
  ASSUME IInv, [Next]_vars, PagesInv, NEW c \in Clients
  PROVE  PageOK(db', handlers'[c], calls'[c])
<1>1. RowsKept(db, db') BY StepKeepsRows
<1>2. PageOK(db', handlers[c], calls[c]) BY <1>1, PageKept DEF PagesInv
<1>3. CASE handlers'[c] = handlers[c] /\ calls'[c] = calls[c] BY <1>2, <1>3
<1>4. CASE handlers'[c].at # "journal" BY <1>4 DEF PageOK
<1>5. CASE /\ calls'[c].at # "replied" /\ handlers'[c].at = "journal"
           /\ handlers'[c] = handlers[c] \/ handlers'[c].since = Idx(db)
  <2>1. Idx(db) \in 0 .. Idx(db') BY <1>1 DEF RowsKept
  <2> QED BY <1>2, <1>5, <2>1 DEF PageOK
<1>6. ASSUME NEW request, NEW reply, RepliedTo(c, request, reply),
             handlers'[c].at = "journal", reply = Err
      PROVE  PageOK(db', handlers'[c], calls'[c])
  <2>1. calls'[c].reply = Err BY <1>6 DEF RepliedTo, RepliedCall
  <2>2. \A page : Ok(page) # Err
    <3> SUFFICES ASSUME NEW page PROVE Ok(page) # Err OBVIOUS
    <3>1. Err.ok = FALSE /\ Ok(page).ok = TRUE BY DEF Err, Ok
    <3> QED BY <3>1
  <2>3. handlers'[c] = handlers[c] BY <1>6 DEF RepliedTo
  <2> QED BY <1>2, <1>6, <2>1, <2>2, <2>3 DEF PageOK
<1>7. ASSUME WorkerHandle, handlers'[c].at = "journal",
             RepliedTo(c, worker[1].request,
                       Handled(db, worker[1].request).reply)
      PROVE  PageOK(db', handlers'[c], calls'[c])
  <2> DEFINE h == handlers[c]
             reply == Handled(db, worker[1].request).reply
  <2>1. /\ handlers'[c] = h /\ h.at = "journal"
        /\ calls'[c].reply = reply
        /\ worker[1].request = GetJournal(h.body) /\ h.body \in JournalSizes
    BY <1>7 DEF RepliedTo, RepliedCall, Awaits
  <2>2. db' = Handled(db, worker[1].request).db BY <1>7, WorkerHandleInv
  <2>3. db' = db BY <2>1, <2>2, GetJournalOK DEF IInv
  <2>4. h.since \in 0 .. Idx(db) BY <2>1 DEF PagesInv, PageOK
  <2>5. ASSUME NEW page, reply = Ok(page)
        PROVE  Latest(db, page, Min({h.body, MaxRequestSize}), h.since)
    <3>1. Handled(db, GetJournal(h.body)).reply = Ok(page) BY <2>1, <2>5
    <3>2. DbOK(db) BY DEF IInv
    <3> HIDE DEF h, reply
    <3> QED BY <2>1, <2>4, <3>1, <3>2, PageHandled
  <2> HIDE DEF h, reply
  <2> QED BY <2>1, <2>3, <2>4, <2>5 DEF PageOK
<1>8. CASE Quiet BY <1>3, <1>4, <1>5, <1>8 DEF Quiet
<1>9. CASE WorkerHandle /\ WorkerReplied(Handled(db, worker[1].request).reply)
  <2>1. handlers'[c] = handlers[c] BY <1>9 DEF WorkerReplied
  <2> QED BY <1>3, <1>4, <1>7, <1>9, <2>1 DEF WorkerReplied
<1>10. CASE WorkerFails /\ WorkerReplied(Err)
  <2>1. handlers'[c] = handlers[c] BY <1>10 DEF WorkerReplied
  <2> QED BY <1>3, <1>4, <1>6, <1>10, <2>1 DEF WorkerReplied
<1>11. ASSUME NEW d \in Clients, Answered(d)
       PROVE  PageOK(db', handlers'[c], calls'[c])
  <2>1. \/ handlers'[c].at = "idle"
        \/ handlers'[c] = handlers[c] /\ calls'[c] = calls[c]
    <3>1. Idle.at = "idle" BY DEF Idle
    <3>2. /\ handlers'[d] = Idle
          /\ \A b \in Clients \ {d} :
               handlers'[b] = handlers[b] /\ calls'[b] = calls[b]
      BY <1>11 DEF Answered
    <3>3. CASE c = d BY <3>1, <3>2, <3>3
    <3>4. CASE c # d BY <3>2, <3>4
    <3> QED BY <3>3, <3>4
  <2> QED BY <1>3, <1>4, <2>1
<1> QED BY <1>8, <1>9, <1>10, <1>11, StepKinds

(* A page of the journal is what was latest at one moment since the page   *)
(* was asked for, whatever is journaled between the question and now.      *)
THEOREM PagesCorrect == Spec => []PagesAreLatest
<1> DEFINE Inv == IInv /\ PagesInv
<1>1. Init => Inv BY IInvInit, PagesInit
<1>2. Inv /\ [Next]_vars => Inv'
  <2>1. ASSUME Inv, [Next]_vars PROVE PagesInv'
    <3>1. \A c \in Clients : PageOK(db', handlers'[c], calls'[c])
      BY <2>1, PagesNext
    <3> QED BY <3>1 DEF PagesInv, PageOK, Latest, Idx
  <2> QED BY <2>1, NextInv
<1>3. Inv => PagesAreLatest
  <2> SUFFICES ASSUME Inv, NEW c \in Clients, handlers[c].at = "journal",
                      calls[c].at = "replied", calls[c].reply.ok
               PROVE  \E last \in handlers[c].since ..
                                    At(db.journal_meta, "idx") :
                        LET page == calls[c].reply.value
                            size == Min({handlers[c].body, MaxRequestSize})
                        IN /\ Len(page) = Min({size, last})
                           /\ \A k \in DOMAIN page :
                                page[k] =
                                  db.sums_journal[last - Len(page) + k - 1]
    BY DEF PagesAreLatest
  <2>1. /\ Awaits(handlers[c], calls[c].request)
        /\ ReplyOK(calls[c].request, calls[c].reply)
    BY DEF IInv, CallersOK, ClientOK, NoCall, ReplyFits
  <2>2. calls[c].request.do = "GetJournal" BY <2>1 DEF Awaits, GetJournal
  <2>3. calls[c].reply # Err BY DEF Err
  <2>4. calls[c].reply \in [ok : {TRUE}, value : Seq(Sums)]
    BY <2>1, <2>2, <2>3 DEF ReplyOK, IsSumsReply
  <2>5. calls[c].reply = Ok(calls[c].reply.value) BY <2>4 DEF Ok
  <2>6. Latest(db, calls[c].reply.value,
               Min({handlers[c].body, MaxRequestSize}), handlers[c].since)
    BY <2>5 DEF PagesInv, PageOK
  <2> QED BY <2>6 DEF Latest, Idx
<1> QED BY <1>1, <1>2, <1>3, PTL DEF Spec

-----------------------------------------------------------------------------
(* Counts.  A count `n` of a route is with one handler that was told it,   *)
(* or in one answer, and with nobody before the table has reached it.      *)

RouteRequest(route) ==
  IF route = "json" THEN IncCounter("ENDPOINT") ELSE IncString(1)

Told(route, n) ==
  {c \in Clients : /\ handlers[c].at = route /\ calls[c].at = "replied"
                   /\ calls[c].reply = Ok(n)}

AnsweredWith(route, n) == {i \in AnswersOf(route, "OK") : answers[i].value = n}

CountOK(reached, told, answered) ==
  /\ AtMostOne(told) /\ AtMostOne(answered)
  /\ told # {} => answered = {}
  /\ ~reached => told = {} /\ answered = {}

CountInv(route, n) ==
  CountOK(n \in 0 .. Count(db, RouteRequest(route)),
          Told(route, n), AnsweredWith(route, n))

LEMMA RoutesCount ==
  ASSUME NEW route \in {"json", "string"}
  PROVE  /\ RouteRequest(route) \in CountingRequests
         /\ \A h, request : Awaits(h, request) =>
              (h.at = route <=> request = RouteRequest(route))
<1>1. RouteRequest(route) \in CountingRequests
  BY DEF RouteRequest, CountingRequests
<1>2. ASSUME NEW h, NEW request, Awaits(h, request)
      PROVE  h.at = route <=> request = RouteRequest(route)
  BY <1>2 DEF Awaits, RouteRequest, IncCounter, IncString, CheckAndStoreId,
              AddToJournal, GetJournal
<1> QED BY <1>1, <1>2

LEMMA CountInit ==
  ASSUME Init, NEW route \in {"json", "string"}, NEW n
  PROVE  CountInv(route, n)
<1>1. Told(route, n) = {} BY DEF Init, Idle, Told
<1>2. AnsweredWith(route, n) = {} BY DEF Init, AnsweredWith, AnswersOf
<1> QED BY <1>1, <1>2 DEF CountInv, CountOK, AtMostOne

LEMMA ReplyCounts ==
  ASSUME IInv, NEW reply, WorkerReplied(reply),
         NEW route \in {"json", "string"}, NEW n
  PROVE  /\ AnsweredWith(route, n)' = AnsweredWith(route, n)
         /\ \/ Told(route, n)' \subseteq Told(route, n)
            \/ /\ worker[1].request = RouteRequest(route) /\ reply = Ok(n)
               /\ Told(route, n)' \subseteq
                    Told(route, n) \cup {worker[1].from}
<1>1. AnsweredWith(route, n)' = AnsweredWith(route, n)
  BY DEF WorkerReplied, AnsweredWith, AnswersOf
<1>2. ASSUME NEW c \in Told(route, n)', c \notin Told(route, n)
      PROVE  /\ worker[1].request = RouteRequest(route) /\ reply = Ok(n)
             /\ c = worker[1].from
  <2>1. /\ c \in Clients /\ handlers'[c] = handlers[c]
        /\ handlers[c].at = route
        /\ calls'[c].at = "replied" /\ calls'[c].reply = Ok(n)
    BY <1>2 DEF Told, WorkerReplied
  <2>2. calls'[c] # calls[c] BY <1>2, <2>1 DEF Told
  <2>3. c = worker[1].from /\ RepliedTo(c, worker[1].request, reply)
    BY <2>1, <2>2 DEF WorkerReplied
  <2>4. worker[1].request = RouteRequest(route)
    BY <2>1, <2>3, RoutesCount DEF RepliedTo
  <2>5. reply = Ok(n) BY <2>1, <2>3 DEF RepliedTo, RepliedCall
  <2> QED BY <2>3, <2>4, <2>5
<1> QED BY <1>1, <1>2

LEMMA CountNext ==
  ASSUME IInv, [Next]_vars, NEW route \in {"json", "string"}, NEW n,
         CountInv(route, n)
  PROVE  CountInv(route, n)'
<1> DEFINE q == RouteRequest(route)
           top == Count(db, q)
<1>1. q \in CountingRequests BY RoutesCount
<1>2. CASE Quiet
  <2>1. Told(route, n)' \subseteq Told(route, n) BY <1>2 DEF Quiet, Told
  <2>2. AnsweredWith(route, n)' = AnsweredWith(route, n) /\ db' = db
    BY <1>2 DEF Quiet, AnsweredWith, AnswersOf
  <2> QED BY <2>1, <2>2 DEF CountInv, CountOK, AtMostOne
<1>3. CASE WorkerHandle /\ WorkerReplied(Handled(db, worker[1].request).reply)
  <2> DEFINE request == worker[1].request
             reply == Handled(db, request).reply
             told == Told(route, n)
             answered == AnsweredWith(route, n)
  <2>1. request \in SumsRequests /\ db' = Handled(db, request).db
    BY <1>3, WorkerHandleInv
  <2>2. /\ top \in Nat
        /\ request = q => Count(db', q) = top + 1 /\ reply = Ok(top + 1)
        /\ request # q => Count(db', q) = top
    BY <1>1, <2>1, CountsHandled DEF IInv
  <2>3. /\ AnsweredWith(route, n)' = answered
        /\ \/ Told(route, n)' \subseteq told
           \/ /\ request = q /\ reply = Ok(n)
              /\ Told(route, n)' \subseteq told \cup {worker[1].from}
    BY <1>3, ReplyCounts
  <2>4. /\ CountOK(n \in 0 .. top, told, answered)
        /\ CountInv(route, n)' <=>
             CountOK(n \in 0 .. Count(db', q), Told(route, n)',
                     AnsweredWith(route, n)')
    BY DEF CountInv, Count
  <2> HIDE DEF request, reply, told, answered, top, q
  <2>5. n \in 0 .. top => n \in 0 .. Count(db', q) BY <2>2
  <2>6. CASE Told(route, n)' \subseteq told
    BY <2>3, <2>4, <2>5, <2>6 DEF CountOK, AtMostOne
  <2>7. CASE request = q /\ reply = Ok(n)
    <3>1. n = top + 1
      <4>1. Ok(n) = Ok(top + 1) BY <2>2, <2>7
      <4>2. Ok(n).value = n /\ Ok(top + 1).value = top + 1 BY DEF Ok
      <4> QED BY <4>1, <4>2
    <3>2. n \notin 0 .. top /\ n \in 0 .. Count(db', q) BY <2>2, <2>7, <3>1
    <3>3. told = {} /\ answered = {} BY <2>4, <3>2 DEF CountOK
    <3> QED BY <2>3, <2>4, <3>2, <3>3 DEF CountOK, AtMostOne
  <2> QED BY <2>3, <2>6, <2>7
<1>4. CASE WorkerFails /\ WorkerReplied(Err)
  <2>1. Err.ok = FALSE /\ Ok(n).ok = TRUE BY DEF Err, Ok
  <2>2. Err # Ok(n) BY <2>1
  <2>3. /\ Told(route, n)' \subseteq Told(route, n)
        /\ AnsweredWith(route, n)' = AnsweredWith(route, n)
    BY <1>4, <2>2, ReplyCounts
  <2>4. db' = db BY <1>4 DEF WorkerFails
  <2> QED BY <2>3, <2>4 DEF CountInv, CountOK, AtMostOne
<1>5. ASSUME NEW c \in Clients, Answered(c) PROVE CountInv(route, n)'
  <2>1. PICK answer \in Answers :
          /\ answer.to = handlers[c].at
          /\ answers' = Append(answers, answer)
          /\ answer.to \in {"json", "string"} /\ answer.status = "OK" =>
               calls[c].reply = Ok(answer.value)
    BY <1>5 DEF Answered
  <2>2. db' = db /\ calls[c].at = "replied" BY <1>5 DEF Answered
  <2>3. Told(route, n)' \subseteq Told(route, n) \ {c}
    <3>1. /\ handlers'[c] = Idle /\ Idle.at = "idle"
          /\ \A d \in Clients \ {c} :
               handlers'[d] = handlers[d] /\ calls'[d] = calls[d]
      BY <1>5 DEF Answered, Idle
    <3> QED BY <3>1 DEF Told
  <2> DEFINE accepts == /\ answer.to = route /\ answer.status = "OK"
                        /\ answer.value = n
             m == Len(answers) + 1
  <2>4. answers \in Seq(Answers) BY DEF IInv, HistoryOK
  <2>5. /\ DOMAIN answers' = DOMAIN answers \cup {m}
        /\ answers'[m] = answer
        /\ \A i \in DOMAIN answers : i # m /\ answers'[i] = answers[i]
    BY <2>1, <2>4, AppendedPlaces
  <2> HIDE DEF m
  <2>6. AnsweredWith(route, n)'
          = IF accepts THEN AnsweredWith(route, n) \cup {m}
            ELSE AnsweredWith(route, n)
    BY <2>5 DEF AnsweredWith, AnswersOf
  <2>7. accepts => c \in Told(route, n) BY <2>1, <2>2 DEF Told
  <2> HIDE DEF accepts
  <2>8. CASE accepts
    BY <2>2, <2>3, <2>6, <2>7, <2>8 DEF CountInv, CountOK, AtMostOne
  <2>9. CASE ~accepts
    BY <2>2, <2>3, <2>6, <2>9 DEF CountInv, CountOK, AtMostOne
  <2> QED BY <2>8, <2>9
<1> QED BY <1>2, <1>3, <1>4, <1>5, StepKinds

-----------------------------------------------------------------------------
(* Launches.  main awaits its launch, so no launch is left to the worker   *)
(* by nobody: at most the running process has counted without an end.      *)

Launch == IncCounter("LAUNCH")

Launches == Count(db, Launch)

LeftLaunches(p) ==
  {i \in DOMAIN p : p[i].from = Nobody /\ p[i].request = Launch}

MainCounted(m, call, launches, ends) ==
  \/ m.at = "down" /\ launches <= ends
  \/ /\ m.at = "starting" /\ launches <= ends
     /\ call.at = "replied" => call.reply = Err
  \/ /\ m.at = "starting" /\ launches <= ends + 1
     /\ call.at = "replied" /\ call.reply = Ok(launches)
  \/ /\ m.at = "up" /\ launches <= ends + 1
     /\ m.counter_runs = launches

LaunchInv ==
  /\ LeftLaunches(Pipeline) = {}
  /\ MainCounted(main, calls["main"], Launches, stops)

LEMMA LaunchInit == ASSUME Init PROVE LaunchInv
<1>1. LeftLaunches(Pipeline) = {} BY InitialInv DEF Init, LeftLaunches
<1>2. Launches = 0
  BY DEF Init, EmptyDb, Launches, Launch, Count, IncCounter, IncString, At
<1>3. main.at = "down" /\ stops = 0 BY DEF Init, Down
<1> QED BY <1>1, <1>2, <1>3 DEF LaunchInv, MainCounted

LEMMA ClientsDoNotLaunch ==
  ASSUME IInv, NEW c \in Clients
  PROVE  calls[c].at = "none" \/ calls[c].request # Launch
<1>1. \A h, request : Awaits(h, request) => request # Launch
  BY DEF Awaits, Launch, IncCounter, IncString, CheckAndStoreId,
         AddToJournal, GetJournal
<1> QED BY <1>1 DEF IInv, CallersOK, ClientOK, NoCall

LEMMA MainQuiet ==
  ASSUME LaunchInv, main' = main, calls'["main"] = calls["main"], db' = db,
         stops' = stops, LeftLaunches(Pipeline') = {}
  PROVE  LaunchInv'
BY DEF LaunchInv, Launches, MainCounted

(* The worker replies, to main or to somebody else.                        *)
LEMMA WorkerLaunch ==
  ASSUME IInv, LaunchInv, NEW reply, Reply(reply), main' = main,
         stops' = stops,
         \/ reply = Err /\ Launches' = Launches
         \/ worker[1].request # Launch /\ Launches' = Launches
         \/ /\ worker[1].request = Launch /\ Launches' = Launches + 1
            /\ reply = Ok(Launches + 1)
  PROVE  LaunchInv'
<1> DEFINE c == worker[1].from
           request == worker[1].request
           v == RepliedCall(request, reply)
<1>1. /\ worker # <<>> /\ Pipeline' = Tail(Pipeline)
      /\ c = Nobody => calls' = calls
      /\ c # Nobody => OnlyCall(c, v)
  BY ReplyInv DEF IInv
<1>2. /\ Pipeline \in Seq(Entries(SumsRequests)) /\ Pipeline # <<>>
      /\ Pipeline[1] = worker[1] /\ 1 \in DOMAIN Pipeline
      /\ c # Nobody => /\ c \in Callers /\ calls[c].at = "awaiting"
                       /\ calls[c].request = request
  BY <1>1, AnsweredCall DEF IInv
<1>3. LeftLaunches(Pipeline') = {}
  <2> DEFINE p == Pipeline
             new == Tail(p)
  <2>1. /\ DOMAIN new = {i \in Nat : i + 1 \in DOMAIN p /\ i # 0}
        /\ \A i \in DOMAIN new : new[i] = p[i + 1]
    BY <1>2, TailPlaces
  <2>2. LeftLaunches(p) = {} BY DEF LaunchInv
  <2> HIDE DEF p, new
  <2>3. LeftLaunches(new) = {} BY <2>1, <2>2 DEF LeftLaunches
  <2> QED BY <1>1, <2>3 DEF p, new
<1>4. request = Launch => c = "main"
  <2>1. request = Launch => c # Nobody
    BY <1>2 DEF LaunchInv, LeftLaunches
  <2> QED BY <1>2, <2>1, ClientsDoNotLaunch, SumsAssumption
<1>5. "main" \in Callers /\ "main" # Nobody
  BY SumsAssumption, RedbAssumption
<1>6. Launches \in Nat /\ stops \in Nat
  BY CountsHandled, AwaitedRequests, SumsAssumption
  DEF IInv, HistoryOK, Launches, Launch, CountingRequests
<1> HIDE DEF c, v, request
<1>7. CASE c # "main"
  <2>1. calls'["main"] = calls["main"] BY <1>1, <1>5, <1>7 DEF OnlyCall
  <2>2. Launches' = Launches BY <1>4, <1>7 DEF request
  <2> QED BY <1>3, <2>1, <2>2 DEF LaunchInv, MainCounted
<1>8. CASE c = "main"
  <2>1. calls'["main"] = v BY <1>1, <1>5, <1>8 DEF OnlyCall
  <2>2. v.at = "replied" /\ v.reply = reply BY DEF v, RepliedCall
  <2>3. calls["main"].at = "awaiting" /\ calls["main"].request = request
    BY <1>2, <1>5, <1>8
  <2>4. main.at = "starting" /\ request = Launch
    BY <2>3 DEF IInv, CallersOK, MainOK, NoCall, Launch
  <2>5. Launches <= stops BY <2>3, <2>4 DEF LaunchInv, MainCounted
  <2>6. CASE reply = Err /\ Launches' = Launches
    BY <1>3, <2>1, <2>2, <2>4, <2>5, <2>6 DEF LaunchInv, MainCounted
  <2>7. CASE Launches' = Launches + 1 /\ reply = Ok(Launches + 1)
    <3>1. Launches' <= stops' + 1 BY <1>6, <2>5, <2>7
    <3> QED BY <1>3, <2>1, <2>2, <2>4, <2>7, <3>1 DEF LaunchInv, MainCounted
  <2> QED BY <2>4, <2>6, <2>7 DEF request
<1> QED BY <1>7, <1>8

LEMMA LaunchNext ==
  ASSUME IInv, [Next]_vars, LaunchInv
  PROVE  LaunchInv'
<1>1. /\ Clients \subseteq Callers /\ "main" \in Callers
      /\ "main" \notin Clients /\ Nobody \notin Callers
  BY SumsAssumption, RedbAssumption
<1>2. Launches \in Nat /\ stops \in Nat
  BY CountsHandled, AwaitedRequests, SumsAssumption
  DEF IInv, HistoryOK, Launches, Launch, CountingRequests
<1>3. LeftLaunches(Pipeline) = {} BY DEF LaunchInv
<1>4. CASE RedbStep
  <2>1. main' = main /\ db' = db /\ stops' = stops BY <1>4 DEF RedbStep
  <2>2. CASE WorkerRecv
    <3>1. Pipeline' = Pipeline /\ calls' = calls BY <2>2, RecvInv DEF IInv
    <3> QED BY <1>3, <2>1, <3>1, MainQuiet
  <2>3. ASSUME NEW c \in Callers, Send(c) PROVE LaunchInv'
    <3> DEFINE request == calls[c].request
               v == [at |-> "awaiting", request |-> request]
               e == Entry(c, request)
               p == Pipeline
    <3>1. /\ calls[c].at = "sending" /\ request \in SumsRequests
          /\ Pipeline' = Append(p, e) /\ OnlyCall(c, v)
      BY <2>3, SendInv DEF IInv
    <3>2. v.at = "awaiting" OBVIOUS
    <3>3. e \in Entries(SumsRequests) /\ e.from # Nobody
      BY <1>1, <3>1 DEF Entries, Entry
    <3>4. p \in Seq(Entries(SumsRequests)) BY PipelineShape DEF IInv, RedbInv
    <3> HIDE DEF v, e, request, p
    <3>5. LeftLaunches(Pipeline') = {}
      <4> DEFINE new == Append(p, e)
                 n == Len(p) + 1
      <4>1. /\ DOMAIN new = DOMAIN p \cup {n} /\ new[n] = e
            /\ \A i \in DOMAIN p : new[i] = p[i]
        BY <3>3, <3>4, AppendedPlaces
      <4> HIDE DEF new, n
      <4>2. LeftLaunches(new) = {}
        BY <1>3, <3>3, <4>1 DEF LeftLaunches, p
      <4> QED BY <3>1, <4>2 DEF new
    <3>6. CASE c = "main"
      <4>1. calls'["main"].at = "awaiting" /\ calls["main"].at = "sending"
        BY <3>1, <3>2, <3>6 DEF OnlyCall
      <4> QED BY <2>1, <3>5, <4>1 DEF LaunchInv, Launches, MainCounted
    <3>7. CASE c # "main"
      <4>1. calls'["main"] = calls["main"] BY <1>1, <3>1, <3>7 DEF OnlyCall
      <4> QED BY <2>1, <3>5, <4>1, MainQuiet
    <3> QED BY <3>6, <3>7
  <2> QED BY <1>4, <2>2, <2>3 DEF RedbStep
<1>5. CASE WorkerHandle
  <2> DEFINE request == worker[1].request
             reply == Handled(db, request).reply
  <2>1. /\ request \in SumsRequests /\ db' = Handled(db, request).db
        /\ Reply(reply)
    BY <1>5, WorkerHandleInv
  <2>2. /\ request = Launch => /\ Launches' = Launches + 1
                               /\ reply = Ok(Launches + 1)
        /\ request # Launch => Launches' = Launches
    <3>1. Launch \in CountingRequests BY DEF Launch, CountingRequests
    <3> HIDE DEF request
    <3>2. /\ request = Launch =>
               /\ Count(db', Launch) = Count(db, Launch) + 1
               /\ reply = Ok(Count(db, Launch) + 1)
          /\ request # Launch => Count(db', Launch) = Count(db, Launch)
      BY <2>1, <3>1, CountsHandled DEF IInv
    <3>3. Launches' = Count(db', Launch) BY DEF Launches, Launch, Count
    <3> QED BY <3>2, <3>3 DEF Launches
  <2>3. main' = main /\ stops' = stops BY <1>5 DEF WorkerHandle
  <2> HIDE DEF reply
  <2> QED BY <2>1, <2>2, <2>3, WorkerLaunch
<1>6. CASE WorkerFails
  <2>1. Reply(Err) /\ main' = main /\ stops' = stops /\ db' = db
    BY <1>6 DEF WorkerFails
  <2>2. Launches' = Launches BY <2>1 DEF Launches
  <2> QED BY <2>1, <2>2, WorkerLaunch
<1>7. CASE Start
  <2> DEFINE v == [at |-> "sending", request |-> Launch]
  <2>1. OnlyCall("main", v)
    BY <1>1, <1>7, AwaitedRequests, RunInv DEF Start, IInv, Launch
  <2>2. calls'["main"] = v BY <2>1 DEF OnlyCall
  <2>3. v.at = "sending" OBVIOUS
  <2> HIDE DEF v
  <2>4. main.at = "down" /\ main'.at = "starting"
    BY <1>7 DEF Start, IInv, CallersOK, MainOK
  <2>5. Pipeline' = Pipeline /\ db' = db /\ stops' = stops
    BY <1>7, StartInv DEF Start
  <2>6. Launches <= stops BY <2>4 DEF LaunchInv, MainCounted
  <2> QED BY <1>3, <2>2, <2>3, <2>4, <2>5, <2>6
          DEF LaunchInv, Launches, MainCounted
<1>8. CASE Launched
  <2>1. Pipeline' = Pipeline /\ db' = db /\ stops' = stops
    BY <1>8, LaunchedInv DEF Launched
  <2>2. /\ calls["main"].at = "replied"
        /\ main' = IF calls["main"].reply.ok
                   THEN [at |-> "up",
                         counter_runs |-> calls["main"].reply.value]
                   ELSE Down
    BY <1>8 DEF Launched
  <2>3. main.at = "starting"
    BY <2>2 DEF IInv, CallersOK, MainOK, NoCall
  <2>4. CASE Launches <= stops /\ calls["main"].reply = Err
    <3>1. calls["main"].reply.ok = FALSE BY <2>4 DEF Err
    <3>2. main' = Down /\ Down.at = "down" BY <2>2, <3>1 DEF Down
    <3> QED BY <1>3, <2>1, <2>4, <3>2 DEF LaunchInv, Launches, MainCounted
  <2>5. CASE Launches <= stops + 1 /\ calls["main"].reply = Ok(Launches)
    <3>1. /\ calls["main"].reply.ok = TRUE
          /\ calls["main"].reply.value = Launches
      BY <2>5 DEF Ok
    <3>2. main'.at = "up" /\ main'.counter_runs = Launches BY <2>2, <3>1
    <3> QED BY <1>3, <2>1, <2>5, <3>2 DEF LaunchInv, Launches, MainCounted
  <2> QED BY <2>2, <2>3, <2>4, <2>5 DEF LaunchInv, MainCounted
<1>9. CASE Stop
  <2>1. Pipeline' = <<>> BY <1>9, StopInv
  <2>2. LeftLaunches(Pipeline') = {} BY <2>1 DEF LeftLaunches
  <2>3. main'.at = "down" /\ stops' = stops + 1 /\ Launches' = Launches
    BY <1>9 DEF Stop, Down, Launches
  <2>4. Launches <= stops + 1 BY <1>2 DEF LaunchInv, MainCounted
  <2> QED BY <2>2, <2>3, <2>4 DEF LaunchInv, MainCounted
<1>10. ASSUME NEW c \in Clients, NEW v, OnlyCall(c, v), Pipeline' = Pipeline,
              db' = db, main' = main, stops' = stops
       PROVE  LaunchInv'
  <2>1. calls'["main"] = calls["main"] BY <1>1, <1>10 DEF OnlyCall
  <2> QED BY <1>3, <1>10, <2>1, MainQuiet
<1>11. ASSUME NEW c \in Clients,
              json_handler(c) \/ string_handler(c) \/ journal_handler(c)
                \/ sums_handler(c)
       PROVE  LaunchInv'
  <2>1. PICK request : Began(c, request) BY <1>11, HandlerBegins
  <2>2. main' = main /\ stops' = stops
    BY <1>11 DEF json_handler, string_handler, journal_handler, sums_handler,
                 Begin
  <2> QED BY <1>10, <2>1, <2>2 DEF Began
<1>12. ASSUME NEW c \in Clients, HandlerStep(c) PROVE LaunchInv'
  <2>1. main' = main /\ stops' = stops
    BY <1>12 DEF HandlerStep, Show, Checked, Accepted, Replies
  <2>2. Journals(c) \/ \E status, value : Responded(c, status, value)
    BY <1>12, ShowInv, CheckedInv, AcceptedInv DEF HandlerStep
  <2> QED BY <1>10, <2>1, <2>2 DEF Journals, Responded
<1>13. ASSUME NEW c \in Clients, Disconnect(c) PROVE LaunchInv'
  <2> DEFINE p == Pipeline
             new == Disowned(p, c)
  <2>1. /\ OnlyCall(c, NoCall) /\ Pipeline' = new /\ db' = db
    BY <1>13, DisconnectInv
  <2>2. main' = main /\ stops' = stops BY <1>13 DEF Disconnect
  <2>3. p \in Seq(Entries(SumsRequests)) /\ OnItsWay(p, c, calls[c])
    BY <1>1, PipelineShape DEF IInv, RedbInv, CallsInFlight
  <2>4. /\ DOMAIN new = DOMAIN p
        /\ \A i \in DOMAIN p :
             /\ new[i].request = p[i].request
             /\ new[i].from = IF p[i].from = c THEN Nobody ELSE p[i].from
    BY <1>1, <2>3, DisownedPlaces
  <2>5. \A i \in DOMAIN p : p[i].from = c => p[i].request # Launch
    BY <2>3, ClientsDoNotLaunch DEF OnItsWay, Places
  <2> HIDE DEF new
  <2>6. LeftLaunches(new) = {} BY <1>3, <2>4, <2>5 DEF LeftLaunches
  <2>7. calls'["main"] = calls["main"] BY <1>1, <2>1 DEF OnlyCall
  <2> QED BY <2>1, <2>2, <2>6, <2>7, MainQuiet
<1>14. CASE UNCHANGED vars \/ Ended
  <2>1. UNCHANGED vars BY <1>14 DEF Ended
  <2>2. /\ calls' = calls /\ queue' = queue /\ worker' = worker
        /\ db' = db /\ main' = main /\ stops' = stops
    BY <2>1 DEF vars, redb
  <2>3. Pipeline' = Pipeline BY <2>2 DEF Pipeline
  <2> QED BY <1>3, <2>2, <2>3, MainQuiet
<1> QED
  BY <1>4, <1>5, <1>6, <1>7, <1>8, <1>9, <1>11, <1>12, <1>13, <1>14 DEF Next

(* No two requests are counted as one, and no two launches, whoever is     *)
(* dropped and whatever ends between the count and its answer.             *)
THEOREM CountsCorrect == Spec => []CountedOnce
<1> DEFINE Inv ==
      /\ IInv /\ LaunchInv
      /\ \A route \in {"json", "string"} : \A n : CountInv(route, n)
<1>1. Init => Inv BY IInvInit, LaunchInit, CountInit
<1>2. Inv /\ [Next]_vars => Inv' BY NextInv, LaunchNext, CountNext
<1>3. Inv => CountedOnce
  <2> SUFFICES ASSUME Inv PROVE CountedOnce OBVIOUS
  <2>1. ASSUME NEW route \in {"json", "string"},
               NEW i \in AnswersOf(route, "OK"),
               NEW j \in AnswersOf(route, "OK"),
               answers[i].value = answers[j].value
        PROVE  i = j
    <3>1. CountInv(route, answers[i].value) OBVIOUS
    <3> QED BY <2>1, <3>1 DEF CountInv, CountOK, AtMostOne, AnsweredWith
  <2>2. ASSUME NEW i \in AnswersOf("json", "OK")
        PROVE  answers[i].value <= At(db.counters, "ENDPOINT")
    <3> DEFINE n == answers[i].value
    <3>1. CountInv("json", n) OBVIOUS
    <3>2. i \in AnsweredWith("json", n) BY <2>2 DEF AnsweredWith
    <3> HIDE DEF n
    <3>3. n \in 0 .. Count(db, RouteRequest("json"))
      BY <3>1, <3>2 DEF CountInv, CountOK
    <3>4. Count(db, RouteRequest("json")) = At(db.counters, "ENDPOINT")
      BY DEF Count, RouteRequest, IncCounter, IncString
    <3>5. At(db.counters, "ENDPOINT") \in Nat BY CountOf DEF IInv, DbOK
    <3> QED BY <3>3, <3>4, <3>5 DEF n
  <2>3. main.at = "up" => /\ main.counter_runs = At(db.counters, "LAUNCH")
                          /\ main.counter_runs <= stops + 1
    <3>1. Launches = At(db.counters, "LAUNCH")
      BY DEF Launches, Launch, Count, IncCounter, IncString
    <3> QED BY <3>1 DEF LaunchInv, MainCounted
  <2> QED BY <2>1, <2>2, <2>3 DEF CountedOnce
<1> QED BY <1>1, <1>2, <1>3, PTL DEF Spec
=============================================================================
