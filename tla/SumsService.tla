---------------------------- MODULE SumsService ----------------------------
(***************************************************************************)
(* The server of step07_redb: counters, a string that grows, sums with     *)
(* unique ids and a journal of them, kept in a database behind AsyncRedb.  *)
(* A sum takes two transactions, one that burns its id and one that writes *)
(* the journal; its handler may be dropped and the process may end between *)
(* them.  /quit ends the process in a state in which no handler runs.      *)
(***************************************************************************)
EXTENDS AsyncRedb, Integers, FiniteSetsExt

CONSTANTS
  Clients,         \* HTTP connections
  Half,            \* the numbers are -Half .. Half - 1 (2^31 for an i32)
  Sums,            \* the bodies posted to /sums: [id, a, b, c]
  JournalSizes,    \* the `n` asked of /journal
  MaxRequestSize,  \* MAX_REQUEST_SIZE (100)
  MaxRequests,     \* bound: how many requests the clients make
  MaxFailures,     \* bound: how many transactions fail
  MaxStops         \* bound: how often the process ends

Numbers == -Half .. Half - 1

ASSUME SumsAssumption ==
  /\ "main" \notin Clients
  /\ Callers = Clients \cup {"main"}
  /\ Half \in Nat \ {0}
  /\ \A s \in Sums : s.a \in Numbers /\ s.b \in Numbers /\ s.c \in Numbers
  /\ JournalSizes \subseteq Nat
  /\ MaxRequestSize \in Nat /\ MaxRequests \in Nat
  /\ MaxFailures \in Nat /\ MaxStops \in Nat

VARIABLES
  db,         \* the tables
  main,       \* "down", "starting" or "up", and the count of launches
  handlers,   \* per client, where its handler is, what it was called with,
              \* and (history) the entries of the journal by then
  answers,    \* history: the answers the clients got, in order
  requests,   \* history: how many requests the clients made
  failures,   \* history: how many transactions failed
  stops       \* history: how often the process ended

vars == <<redb, db, main, handlers, answers, requests, failures, stops>>

-----------------------------------------------------------------------------
(* The database.  A table is created by its first write.                   *)

EmptyDb == [counters |-> <<>>, strings |-> <<>>, processed_ids |-> {},
            sums_journal |-> <<>>, journal_meta |-> <<>>]

(* `get(key)?.map(|v| v.value()).unwrap_or(0)`                             *)
At(table, key) == IF key \in DOMAIN table THEN table[key] ELSE 0

IncCounter(counter_type) == [do |-> "IncCounter", counter |-> counter_type]
IncString(idx)           == [do |-> "IncString", idx |-> idx]
CheckAndStoreId(id)      == [do |-> "CheckAndStoreId", id |-> id]
AddToJournal(entry)      == [do |-> "AddToJournal", entry |-> entry]
GetJournal(n)            == [do |-> "GetJournal", n |-> n]

Result(d, reply) == [db |-> d, reply |-> reply]

(* Mutant: the increment is computed and not written.                      *)
NotIncremented(d, counter) ==
  Result([d EXCEPT !.counters = Inserted(d.counters, counter,
                                         At(d.counters, counter))],
         Ok(At(d.counters, counter) + 1))

Incremented(d, counter) ==
  LET new_value == At(d.counters, counter) + 1
  IN Result([d EXCEPT !.counters = Inserted(d.counters, counter, new_value)],
            Ok(new_value))

(* A string of dots is its length.                                         *)
Lengthened(d, idx) ==
  LET new_value == At(d.strings, idx) + 1
  IN Result([d EXCEPT !.strings = Inserted(d.strings, idx, new_value)],
            Ok(new_value))

(* Mutant: the transaction is not committed.                               *)
OnlyChecked(d, id) == Result(d, Ok(id \notin d.processed_ids))

(* TRUE is `Unique`.                                                       *)
CheckedAndStored(d, id) ==
  Result([d EXCEPT !.processed_ids = @ \cup {id}], Ok(id \notin d.processed_ids))

(* Mutant: the index stays where it is.                                    *)
JournaledInPlace(d, entry) ==
  LET idx == At(d.journal_meta, "idx")
  IN Result([d EXCEPT !.sums_journal = Inserted(d.sums_journal, idx, entry),
                      !.journal_meta = Inserted(d.journal_meta, "idx", idx)],
            Ok(<<>>))

Journaled(d, entry) ==
  LET idx == At(d.journal_meta, "idx")
  IN Result([d EXCEPT !.sums_journal = Inserted(d.sums_journal, idx, entry),
                      !.journal_meta = Inserted(d.journal_meta, "idx", idx + 1)],
            Ok(<<>>))

(* Mutant: the first entries instead of the last.                          *)
EarliestEntries(d, n) ==
  LET m == Min({n, At(d.journal_meta, "idx"), MaxRequestSize})
  IN Result(d, IF DOMAIN d.journal_meta = {} THEN Err
               ELSE Ok([k \in 1 .. m |-> d.sums_journal[k - 1]]))

(* The last entries, the oldest first; without a table it fails.           *)
LatestEntries(d, n) ==
  LET idx == At(d.journal_meta, "idx")
      m   == Min({n, idx, MaxRequestSize})
  IN Result(d, IF DOMAIN d.journal_meta = {} THEN Err
               ELSE Ok([k \in 1 .. m |-> d.sums_journal[idx - m + k - 1]]))

Handled(d, request) ==
  CASE request.do = "IncCounter"      -> Incremented(d, request.counter)
    [] request.do = "IncString"       -> Lengthened(d, request.idx)
    [] request.do = "CheckAndStoreId" -> CheckedAndStored(d, request.id)
    [] request.do = "AddToJournal"    -> Journaled(d, request.entry)
    [] request.do = "GetJournal"      -> LatestEntries(d, request.n)

WorkerHandle ==
  /\ worker # <<>>
  /\ LET result == Handled(db, worker[1].request)
     IN db' = result.db /\ Reply(result.reply)
  /\ UNCHANGED <<main, handlers, answers, requests, failures, stops>>

(* A step of the transaction fails: it is rolled back.                     *)
WorkerFails ==
  /\ failures < MaxFailures
  /\ Reply(Err)
  /\ failures' = failures + 1
  /\ UNCHANGED <<db, main, handlers, answers, requests, stops>>

-----------------------------------------------------------------------------
(* main.                                                                   *)

Down == [at |-> "down", counter_runs |-> 0]
Idle == [at |-> "idle"]

Init ==
  /\ RedbInit
  /\ db = EmptyDb
  /\ main = Down
  /\ handlers = [c \in Clients |-> Idle]
  /\ answers = <<>> /\ requests = 0
  /\ failures = 0 /\ stops = 0

Start ==
  /\ main.at = "down"
  /\ main' = [main EXCEPT !.at = "starting"]
  /\ Run("main", IncCounter("LAUNCH"))
  /\ UNCHANGED <<db, handlers, answers, requests, failures, stops>>

(* Without a launch counted, main returns its error.                       *)
Launched ==
  /\ calls["main"].at = "replied"
  /\ LET reply == calls["main"].reply
     IN main' = IF reply.ok THEN [at |-> "up", counter_runs |-> reply.value]
                ELSE Down
  /\ Finish("main")
  /\ UNCHANGED <<db, handlers, answers, requests, failures, stops>>

(* A signal, /quit or whatever else ends the process.                      *)
Stop ==
  /\ main.at # "down" /\ stops < MaxStops
  /\ stops' = stops + 1
  /\ main' = Down
  /\ RedbRestart
  /\ handlers' = [c \in Clients |-> Idle]
  /\ UNCHANGED <<db, answers, requests, failures>>

-----------------------------------------------------------------------------
(* The handlers.                                                           *)

Begin(c, route, request) ==
  /\ main.at = "up" /\ handlers[c] = Idle
  /\ requests < MaxRequests
  /\ requests' = requests + 1
  /\ handlers' = [handlers EXCEPT ![c] =
                    [at |-> route, body |-> request,
                     since |-> At(db.journal_meta, "idx")]]
  /\ UNCHANGED <<db, main, answers, failures, stops>>

json_handler(c) ==
  /\ Begin(c, "json", <<>>)
  /\ Run(c, IncCounter("ENDPOINT"))

string_handler(c) ==
  /\ Begin(c, "string", <<>>)
  /\ Run(c, IncString(1))

journal_handler(c) ==
  \E n \in JournalSizes :
    /\ Begin(c, "journal", n)
    /\ Run(c, GetJournal(n))

sums_handler(c) ==
  \E s \in Sums :
    /\ Begin(c, "sums", s)
    /\ Run(c, CheckAndStoreId(s.id))

(* The database has replied to what the handler awaits.                    *)
Replies(c, place) ==
  /\ handlers[c].at = place
  /\ calls[c].at = "replied"
  /\ UNCHANGED <<db, main, requests, failures, stops>>

Respond(c, status, value) ==
  /\ handlers' = [handlers EXCEPT ![c] = Idle]
  /\ answers' = Append(answers, [to |-> handlers[c].at, body |-> handlers[c].body,
                                 status |-> status, value |-> value])
  /\ Finish(c)

(* `unwrap_or(0)`, `unwrap_or_default()`: a failure shows as 0, "" or [].  *)
Show(c) ==
  \E place \in {"json", "string", "journal"} :
    /\ Replies(c, place)
    /\ IF calls[c].reply.ok THEN Respond(c, "OK", calls[c].reply.value)
       ELSE Respond(c, "DEFAULT", <<>>)

(* `i32` addition in a release build.                                      *)
Wrap(x) == ((x + Half) % (2 * Half)) - Half

SumHolds(s) == s.c = Wrap(s.a + s.b)

(* The id is new.                                                          *)
Unique(c) ==
  \/ /\ SumHolds(handlers[c].body)
     /\ Run(c, AddToJournal(handlers[c].body))
     /\ handlers' = [handlers EXCEPT ![c].at = "sums_journal"]
     /\ UNCHANGED answers
  \/ /\ ~SumHolds(handlers[c].body)
     /\ Respond(c, "BAD_REQUEST", <<>>)

Checked(c) ==
  /\ Replies(c, "sums")
  /\ \/ calls[c].reply = Ok(TRUE) /\ Unique(c)
     \/ calls[c].reply = Ok(FALSE) /\ Respond(c, "CONFLICT", <<>>)
     \/ calls[c].reply = Err /\ Respond(c, "INTERNAL_SERVER_ERROR", <<>>)

(* `let _ =`: whatever became of the journal, the client is told OK.       *)
Accepted(c) ==
  /\ Replies(c, "sums_journal")
  /\ Respond(c, "OK", <<>>)

(* The client closes its connection; its handler is dropped.               *)
Disconnect(c) ==
  /\ Hangup(c)
  /\ handlers' = [handlers EXCEPT ![c] = Idle]
  /\ UNCHANGED <<db, main, answers, requests, failures, stops>>

RedbStep ==
  /\ WorkerRecv \/ \E c \in Callers : Send(c)
  /\ UNCHANGED <<db, main, handlers, answers, requests, failures, stops>>

HandlerStep(c) == Show(c) \/ Checked(c) \/ Accepted(c)

(* The clients have asked for all they will.                               *)
Ended ==
  /\ requests = MaxRequests /\ main.at = "up"
  /\ \A c \in Clients : handlers[c] = Idle
  /\ UNCHANGED vars

Next ==
  \/ RedbStep \/ WorkerHandle \/ WorkerFails
  \/ Start \/ Launched \/ Stop
  \/ \E c \in Clients :
       \/ json_handler(c) \/ string_handler(c) \/ journal_handler(c)
       \/ sums_handler(c) \/ HandlerStep(c) \/ Disconnect(c)
  \/ Ended

Spec == Init /\ [][Next]_vars

(* The thread and the runtime go on; the clients, the signals and the disk *)
(* owe nothing.                                                            *)
FairSpec ==
  /\ Spec
  /\ RedbFairness
  /\ WF_vars(WorkerHandle \/ WorkerFails)
  /\ WF_vars(Launched)
  /\ \A c \in Clients : WF_vars(HandlerStep(c))

-----------------------------------------------------------------------------
SumsRequests ==
  [do : {"IncCounter"}, counter : {"LAUNCH", "ENDPOINT"}]
    \cup [do : {"IncString"}, idx : {1}]
    \cup [do : {"CheckAndStoreId"}, id : {s.id : s \in Sums}]
    \cup [do : {"AddToJournal"}, entry : Sums]
    \cup [do : {"GetJournal"}, n : JournalSizes]

IsSumsReply(request, reply) ==
  reply \in
    [ok : {TRUE},
     value : CASE request.do \in {"IncCounter", "IncString"} -> Nat \ {0}
               [] request.do = "CheckAndStoreId" -> BOOLEAN
               [] request.do = "AddToJournal"    -> {<<>>}
               [] request.do = "GetJournal"      -> Seq(Sums)]

TypeOK ==
  /\ RedbTypeOK(SumsRequests, IsSumsReply)
  /\ DOMAIN db.counters \subseteq {"LAUNCH", "ENDPOINT"}
  /\ DOMAIN db.strings \subseteq {1}
  /\ db.processed_ids \subseteq {s.id : s \in Sums}
  /\ DOMAIN db.sums_journal = 0 .. At(db.journal_meta, "idx") - 1
  /\ \A i \in DOMAIN db.sums_journal : db.sums_journal[i] \in Sums
  /\ main \in [at : {"down", "starting", "up"}, counter_runs : Nat]
  /\ \A c \in Clients :
       handlers[c].at \in {"idle", "json", "string", "journal", "sums",
                           "sums_journal"}
  /\ requests \in 0 .. MaxRequests
  /\ failures \in 0 .. MaxFailures /\ stops \in 0 .. MaxStops

AnswersOf(route, status) ==
  {i \in DOMAIN answers : answers[i].to = route /\ answers[i].status = status}

AcceptedSums == AnswersOf("sums_journal", "OK")

(* An id is accepted once, and journaled once, in the life of the database *)
(* file: two requests with one id race for the worker, the first may lose  *)
(* its client or its process half-way, and the second is still refused.    *)
IdsAcceptedOnce ==
  /\ \A i, j \in AcceptedSums : answers[i].body.id = answers[j].body.id => i = j
  /\ \A i, j \in DOMAIN db.sums_journal :
       db.sums_journal[i].id = db.sums_journal[j].id => i = j

(* The clients that were told OK for a sum that is not in the journal.     *)
Unjournaled ==
  {i \in AcceptedSums :
     \A k \in DOMAIN db.sums_journal : db.sums_journal[k] # answers[i].body}

(* A failed transaction costs the journal at most one of the sums whose    *)
(* clients were told OK (the error is dropped), and nothing else does: not *)
(* a restart, a client that hangs up, or a later entry (main.rs:121-139,   *)
(* 244-254).                                                               *)
AcceptedAreJournaled == Cardinality(Unjournaled) <= failures

(* A page of the journal is what was latest at one moment since the page   *)
(* was asked for, the oldest first: as many as were asked for and allowed, *)
(* or all there were, though other sums are journaled meanwhile.           *)
PagesAreLatest ==
  \A c \in Clients :
    handlers[c].at = "journal" /\ calls[c].at = "replied" /\ calls[c].reply.ok =>
      LET page == calls[c].reply.value
          size == Min({handlers[c].body, MaxRequestSize})
      IN \E last \in handlers[c].since .. At(db.journal_meta, "idx") :
           /\ Len(page) = Min({size, last})
           /\ \A k \in DOMAIN page :
                page[k] = db.sums_journal[last - Len(page) + k - 1]

(* No two requests are counted as one, and no two launches, whatever runs  *)
(* at the same time or ends in between: no answer of /json or /string is   *)
(* given twice, none runs ahead of the table, and a process that is up     *)
(* knows the number of its own launch.                                     *)
CountedOnce ==
  /\ \A route \in {"json", "string"} :
       \A i, j \in AnswersOf(route, "OK") :
         answers[i].value = answers[j].value => i = j
  /\ \A i \in AnswersOf("json", "OK") :
       answers[i].value <= At(db.counters, "ENDPOINT")
  /\ main.at = "up" => /\ main.counter_runs = At(db.counters, "LAUNCH")
                       /\ main.counter_runs <= stops + 1

(* What the README of the code asks for: a sum whose `c` is not `a+b` is   *)
(* answered with an error.                                                 *)
WrongSumsRefused ==
  \A i \in AcceptedSums : answers[i].body.c = answers[i].body.a + answers[i].body.b

(* Every handler answers its client, unless the client or the process goes *)
(* away: the two transactions of a sum both get through the queue.         *)
HandlersAnswer == \A c \in Clients : handlers[c] # Idle ~> handlers[c] = Idle
=============================================================================
