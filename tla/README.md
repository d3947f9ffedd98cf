# Verification of rust-experiments

TLA+ models of the concurrent programs of this repository, the TLC runs that
check them on small instances, and TLAPS proofs of what matters most for every
value of the parameters.

The repository is a series of independent experiments (`step00` to `step12`)
with a small shared `lib/`. Four of them keep state that several actors share:
the Maroon state machine server (`step11`), the trade feed (`step12`), the sums
service (`step07`) and the clock broadcast (`step10`). Two more have tasks that
race (`step02`, `step06`); the rest are pure or sequential.

## 1. Inventory

| Part | State | Operations | Interacts by | What is hard |
|---|---|---|---|---|
| step11 machine, `global_step` | a stack of states, returns and values, a heap per task | one arm per state: pop, compute, push, finish | called by the executor with the variables it popped | three tables that must agree: entries popped per state, patterns, pushes; recursion; `u64` edges |
| step11 runtime | `task_id_generator`, `pending_operations` (heap by timestamp), `active_tasks` (map), all behind one async Mutex | schedule a task, step the due one, `/state`, `/quit` | Mutex; one bounded channel per client; `select!` in `main` | timestamp read before the Mutex is asked for; Mutex held across the await of a write; task out of the map meanwhile; slow clients; shutdown |
| step12 feed | tables `trades`, `trade_ids`, `trades_meta`; Redis connection; WebSocket | per trade: count, check, store id; per message: store batch, publish | calls to the database worker; Redis; HTTP readers | three requests per trade and one per message, a crash or an error between any two; reconnects |
| database worker (step07, step12) | the database, a queue of 32 requests | `run(request)` | bounded mpsc, oneshot replies, one thread | callers that go away, full queue, a failing handler, end of the process |
| step07 sums service | counters, strings, processed ids, journal | `/json`, `/string`, `/sums`, `/journal` | the database worker | two transactions per sum, concurrent duplicates |
| step02 server | a channel of one message, a `select!` over the server and two signals | pages, `/quit`, signals | mpsc, graceful shutdown | a second `/quit` finds the channel full or the receiver gone; who waits for whom at the end |
| step10 broadcast | a `watch` channel, the server of step02 | tick, subscribe, changed / borrow / send | watch channel | slow readers miss values; two reads of the channel per send; clients that never leave while the server shuts down |
| step06 Redis | a subscription, a cancellation token, a delayed publisher | listen, time out, publish later | Redis, the token, `select!` | races of the three; messages that are no text; arguments that are no duration |
| step11 `/ack` | a recursion that writes as it goes into the channel of a writer | one WebSocket session per request | the channel, the writer's task | async recursion with boxed futures; a client that stops reading |
| lib/http | none | `json_or_html`, `accept_header_contains_text_html` | called by handlers | parsing of the header |
| step04, step05 | none | PEG grammars | - | order of alternatives, greedy repetition |
| step03 | a text buffer shared by participants | create, arrow, drop | - | order of drops |
| step00, 01, 08, 09 | none | one expression or one call | - | `i8` overflow in step01 |

What makes each of them correct:

* machine: no state ever meets variables it does not expect; every request
  ends, and its texts are the mathematically right ones at the right times.
* runtime: every active task has one pending operation and every pending
  operation its task; nothing is lost; texts come in the order of their
  timestamps as far as the design can promise it; `/state` shows every live
  task; a vanished client does not disturb the others, and one that does not
  read only once its channel is full; `/quit` ends.
* feed: stored trades are never lost or reordered, whatever fails; nothing sent
  is lost while nothing fails; answers to readers are true; what is published
  was stored.
* worker: each request takes effect once, at a moment between call and reply.
* sums: each id is accepted once, each accepted sum is in the journal but for
  what a failed transaction costs.
* servers of step02 and step10: each `/quit` is answered and the process ends;
  a client of the clock never sees time go back and ends with the newest value.
* small programs: the subscriber hears its own message unless Redis failed it,
  and ends if it was told when; `/ack` is the function it is named for; a grammar accepts the names
  it is written for; a diagram can be read by what draws it.

## 2. Plan

Order of work, the most important first.

1. `MaroonTask`, `MaroonRuntime`, `MaroonScripts`, `MaroonService`,
   `MaroonImplementsService` (done): the machine, the runtime around it, the
   scripts of its requests, the abstract service and the refinement.
   `MaroonTaskProofs`, `MaroonRuntimeProofs` (done).
2. `AsyncRedb` (done): the database worker, a component of the next two.
3. `TradeFeed` over `AsyncRedb`, `TradeLog`, `TradeFeedImplementsLog` (done):
   transactions that fail, restarts, Redis errors, readers.
4. `SumsService` over `AsyncRedb` (done).
5. `GracefulServer` (step02), `ClockServer` over it (step10),
   `ClockServerProofs` (done).
6. `RedisSub` (step06), `AckRoute` (step11), `PegGrammars` (step04, step05),
   `AcceptHeader` (lib), `MermaidCanvas` (step03) (done).
7. Proofs about what is built over the worker: `AsyncRedbProofs`, one lemma per
   operation of the bridge, `SumsServiceProofs` and `TradeFeedProofs` over it,
   with `NoTradeLost` and the refinement of the log (done).
8. Proofs of what a client sees: `GapsFromFaults` for the feed,
   `AcceptedAreJournaled`, `PagesAreLatest` and `CountedOnce` for the sums,
   `StacksValidate` and `OrderedUnlessLate` for the runtime (done).
9. The proof that the Maroon server implements its service, `NoTaskLost` with
   it (done).
10. Proofs about the small programs, `SmallProgramsProofs`: the subscriber of
    step06, `/ack`, the canvas of step03, the Accept headers, the grammars of
    step04 and step05 (done).

## 3. The Maroon server (step11)

### Modules

* `MaroonTask` - no variables. The stack entries, `LocalVarsCount` and
  `ReturnLocalVarsCount` (the two tables), one operator per arm of
  `global_step` with its name, and `Advance`, which is what
  `execute_pending_operations_inner` does with one operation: pop the state,
  pop its variables, call `global_step`, interpret the result (`Resume` does
  the work of `Return`). A failing pattern, `unreachable!` or `.expect()` is
  the outcome `"Panic"`.
* `MaroonRuntime` - the variables of the server and one action per step of the
  actors.
* `MaroonScripts` - what each request is answered: texts with due times, by
  sums, products, divisors and Fibonacci numbers over the whole numbers, without
  stacks, heaps or wrap-around.
* `MaroonService` - the abstract specification, whose parameter is the `Script`
  of a request: each client is told the next text of its script when it is due.
* `MaroonImplementsService` - the refinement mapping, the properties that
  compare with the scripts, and what a client that does not read can do to the
  others.
* `MCMaroon` and `maroon_*.cfg` - instances for TLC.
* `FairQueue` - the queue of a fair tokio primitive: who waits, who leaves.
  `Maps` - insertion and removal. Both are shared with the other parts.
* `DataProofs`, `MaroonTaskProofs`, `MaroonRuntimeProofs` - the proofs.

### State and actions

| Model | Code (`src/step11_ws_state_machine/code/src/main.rs`) |
|---|---|
| `next_task_id`, `pending_operations`, `active_tasks` | the three fields of `MaroonRuntime` under `AppState.fsm` |
| `fsm_waiters` | the queue of the tokio Mutex, which is fair (FIFO) |
| `executor` | where `execute_pending_operations` is: asleep, awaiting the Mutex, awaiting `write_text` with the Mutex held, panicked |
| `sessions[c]` | the WebSocket handler of client `c` |
| `writers[c]` | `WebSocketWriter`: the channel, what its task has received and not yet sent, what the peer got |
| `observers[o]` | requests of `/state` |
| `server` | `main`: serving, `/quit` sent, draining, ended |
| `written` | history: every text with client and timestamp, in the order of writing |
| `Upgrade`, `RequestLock`, `schedule` | `*_handler`, then `AppState::schedule` up to and after its `lock().await` |
| `ExecutorWake`, `ExecutorBreak`, `ExecutorStep`, `ExecutorWritten` | the outer loop; `peek` and cutoff; one operation; after `write_text().await` |
| `WriterRecv`, `WriterSend` | the loop of the task in `WebSocketWriter::new` |
| `StateRequest`, `state_handler`, `StateCancel` | `/state`; a dropped request leaves the queue |
| `quit_handler`, `BeginShutdown`, `ServerDown` | `/quit`, the graceful shutdown, the `select!` in `main` |

A critical section without an `.await` is one action: no other task can see
its middle, for it holds the Mutex, and the variables it touches are all
behind it. The executor awaits once while it holds the Mutex, so a write is two
actions and nobody `Acquires` in between. A new request may be upgraded while
the server drains: its connection may have been accepted before.

Decisions where the code leaves a choice: operations with equal timestamps
come in any order (`Ord` compares timestamps only); the clock jumps to any
later instant of `Instants`; integers are `% WORD`, since the Dockerfile builds
`--release`, where `+`, `-` and `*` wrap; texts are tuples of what the format
shows.

### Runs

| Run | Instance | Shows |
|---|---|---|
| `maroon_pair` | two clients with tasks that share instants, channel of one text | types and bounds, `PendingMirrorsActive`, `OrderedUnlessLate`, and that the server implements the service |
| `maroon_solo` | one client, 15 requests of all four kinds | no panic, all stacks valid by the test build's validator and well shaped, no task lost, scripts met |
| `maroon_state` | one client that need not read, with texts that fit its channel or one too many, two `/state` requests, `/quit` | `/state` misses no live task; nothing but the full channel can stop `/state` and `/quit`, and `/quit` only with a `/state` request in flight |
| `maroon_stalled` | one client never reads; its texts fit its channel or do not | the other's session completes, unless the executor waits at the full channel for ever |
| `maroon_wrap` | delay of 2^64-1 ms in small | violated on purpose, see Findings |

The bounds. One request per client: a connection of the code carries one
request. Two clients are enough for every pairwise interleaving of the
critical sections; a third adds none of a new kind, since all of them do the
same two steps. A channel of one text makes the full channel a common case
(100 in the code). `WORD` is 2^16 in place of 2^64: the arithmetic is the same
and the values of the runs do not reach it, but for `maroon_wrap`, whose
subject it is. The instants are the due times of the scripts of the run, so
that every order of "due" and "not due" occurs. The late handler that
`OrderedUnlessLate` excepts does occur in `maroon_pair`: without the exception
TLC finds the texts out of order.

`CHECK_DEADLOCK` is on: a state where nothing can happen but stuttering is
reported, except after the end of the process (`Ended`).

### Fairness

`FairSpec` gives weak fairness to every step of a tokio task and to the
clock: the runtime polls whatever is ready. Weak is enough, since the Mutex is
FIFO and nobody can be overtaken. No fairness for clients: nobody has to
connect, disconnect, ask for `/state` or `/quit`. `WriterSend(c)` waits for the
peer; it is fair where it is bound to end (`SendEnds`): for `ReadingClients`,
which is an assumption on the environment and a parameter of each run, and for
a peer that has gone, to which a send fails.

With a client that stays, does not read and has more texts than its channel
holds, the executor blocks with the Mutex held and everyone waits. This is what
the code does, so the properties say exactly that: `StalledWrite` is the state
of such a write (the channel full, one more text before the socket, the peer
connected), and `SessionsComplete`, `StateAnswered` and `QuitEnds` promise their
answer unless that state lasts for ever. The exception does occur in the runs:
TLC finds each property violated without it. `QuitEnds` adds that `/quit` ends
the process even then, since `main` drops the executor, if no `/state` request
is in flight, for which the graceful shutdown would wait.

### Findings

* `maroon_wrap`: a delay near 2^64 ms wraps the timestamp in the release
  build, and the text announcing the delay is written at once.

## 4. The database worker, the feed and the sums (step07, step12)

### Modules

* `AsyncRedb` - `AsyncRedb::run` and its thread, the same code in both
  programs: a caller waits for a slot of the bounded queue (`senders`), its
  request is in the `queue`, then with the `worker`, then it holds its reply.
  The module has the actions of the bridge; the module that extends it says what
  a request does to its tables and replies (`Reply`), and when a caller calls
  (`Run`). A dropped future (`Hangup`) leaves `senders`, or leaves its request
  in the queue without anybody to answer.
* `TradeFeed` - step12. `feed` is where `ws_task` is and the locals of
  `handle_ws_message`: one action from each `.await` to the next. `Handled` is
  what the six database requests do, one transaction each (`WorkerHandle`) or
  rolled back (`WorkerFails`). Readers ask, take their answers and hang up.
  `Restart` ends the process at any point and runs the beginning of `main`
  (`Open`) on the tables that are left.
* `TradeLog` - the abstract specification: a log that only grows at its end,
  with gaps; what is published was in it before, in its order; an answer is
  true of the log at one moment between question and answer.
* `TradeFeedImplementsLog` - the refinement mapping. `MCTradeFeed`, `feed_*.cfg`.
* `SumsService` - step07: the launch counter, `/json`, `/string`, `/journal` and
  `/sums` with its two transactions. `MCSums`, `sums_*.cfg`.

| Model | Code |
|---|---|
| `Run`, `Send`, `Finish`, `Hangup` | `run`: the call, `request_tx.send().await`, the reply taken, the future dropped |
| `WorkerRecv`, `Reply` | `blocking_recv`, `response_tx.send` in the thread |
| `ReadTrades`, `Counted`, `Checked`, `StoredId`, `StoredBatch` | `handle_ws_message` up to and after each database request |
| `Loop` | the `for` over the trades, from the end of an iteration to the next request |
| `Abandon` | `?` after a request, and the `Err` arm of the reading loop |
| `Publish`, `PublishFails` | one `redis_connection.publish().await` |
| `Connect`, `Disconnected`, `ReadOther` | the loops of `ws_task` |
| `get_trades`, `get_trades_count`, `Respond`, `Disconnect` | the HTTP handlers of step12 |
| `json_handler` ... `sums_handler`, `Show`, `Checked`, `Accepted` | the handlers of step07 up to and after each database request |

A trade is known in the model by its ordinal among those the exchange sent
(`delivered`), which the program does not have: with it one can say that no
trade is lost and none stored out of order. Ids are pairs of index and price, as
the format makes them. A free slot of the queue is granted in the order of
waiting, but used in any order among those granted, as the semaphore of tokio
does. `start_index + limit` is not wrapped: where it would, the page is empty
either way.

### Runs

| Run | Instance | Shows |
|---|---|---|
| `feed_faults` | three trades, messages of one trade, two with an incomplete entry between, or none; one reader; two failures anywhere | types, that each call is where its caller believes it, that nothing is lost while nothing fails, that gaps come from failures and are bounded by the messages they hit, that the duplicate check never fires, that the table is the log promised |
| `feed_readers` | two readers that ask without end and hang up, a message of two trades, one failure | the queue keeps its bound, every call is answered, the feed comes back to its socket |
| `feed_resent` | a trade sent twice | violated on purpose, see Findings |
| `sums_service` | two clients, three requests of any kind, two ids, right and wrong sums under one id, one failure, one end of the process | ids accepted once, accepted sums journaled but for one per failure, pages the latest, nothing counted twice, every handler answers |
| `sums_wrap` | the largest number plus 1 | violated on purpose, see Findings |

The bounds. The queue has one slot (32 in the code), so that with a reader or
two and the feed it is full most of the time; a message of two trades has
something before and after every request of the loop, and three trades put a
stored message before one that fails; two failures reach every pair of them,
a failed transaction and a restart among the pairs. Pages are of at most two
rows, more than the gap and less than the log. Half is 4 in place of 2^31. In
`sums_service` the requests are bounded; `Ended` lets the system rest when they
are used up and no handler is left, and deadlock is checked in every run.

### Fairness

Weak fairness for the thread (`WorkerRecv`, and that it ends each request, well
or badly), for every sender that holds a slot, and for the tasks that have their
reply. Redis answers a publish with success or an error. Nobody has to
connect, send trades, ask or hang up.

### Findings

* `feed_resent`: the README of step12 shows the check for a known trade before
  the counter. The code makes the id from a fresh index, so the check never
  fires (`NoDuplicateSeen` holds, also across restarts) and a trade that the
  exchange sends again is stored again.
* `sums_wrap`: a sum that overflows an `i32` is accepted with a wrong `c`.

What the models show beside these, and the documents do not contradict: a trade
or a sum is lost, or its id used up for nothing, when a failure comes between
its transactions; `/sums` says OK though the journal failed; a page of trades
ends at a gap for ever.

## 5. The graceful server and the clock (step02, step10)

`GracefulServer` is the HTTP server that step02 and step10 share almost line by
line: requests in flight, `/quit` with its channel of one message, the graceful
shutdown, SIGINT and SIGTERM. `ClockServer` extends it with the ticker, the
watch channel and one handler per WebSocket client; its `Next` is that of the
server and its own, side by side, but for `ServerDone`, which it guards.

| Model | Code (`src/step10_websocket/code/src/main.rs`; step02 for the server) |
|---|---|
| `requests[r]`, `Accept`, `page_handler`, `quit_handler`, `QuitReplied` | a request of a page or of `/quit`, its `send().await`, its response |
| `shutdown_queue`, `shutdown_rx`, `ShutdownRecv` | the mpsc channel; the future given to `with_graceful_shutdown`, which is dropped, and the receiver with it, when it is done |
| `StopAccepting`, `ServerDone`, `Signal` | axum stops accepting, the last request is over, a signal: `select!` returns |
| `ticks`, `current`, `Tick` | the ticker; `watch::Sender::send`, which stores nothing while nobody is subscribed |
| `ws_handler`, `Upgraded`, `Subscribe` | the handshake, the callback of `on_upgrade`, `tx.subscribe()` in it |
| `Changed`, `Borrow`, `Send` | `rx.changed().await` marks a version as seen, `rx.borrow()` reads the value of that moment and marks nothing, `socket.send().await` |
| `Leave`, `SendLost`, `SendFails` | a client that goes; the handler, which does not read, learns it from a send |

Between `Changed` and `Borrow` the ticker may store a value: it is sent, and
sent again after the next `Changed`. `ShownInOrder` is written for that.

Run `clock`: two WebSocket clients, of which the second may leave or not read at
all, two HTTP requests of any kind, two ticks. Two requests make the race of
two `/quit`s: one waits for room, or finds the receiver gone. Two ticks are what
a value that overtakes another needs, and with the value that a client finds
when it subscribes there are three. It shows types and bounds, `ShownInOrder`,
that every `/quit` is answered and ends the process although the handler of a
client that is connected never ends (`NoClientAwaited`: hyper has handed an
upgraded connection over and does not wait for it), and `NewestReaches`.

Fairness: weak, for every step of a task of the process and for the end of the
server. A send completes only if the client reads: it is fair for
`ReadingClients`, which also do not leave. The ticker owes nothing, nor do
clients and signals.

## 6. The small programs (step03, step04, step05, step06, lib, `/ack`)

They share nothing, so one instance, `MCDemos`, has them side by side: a
behaviour chooses one of them in its first state and runs it alone. The run
`demos` checks for each what it promises.

* `RedisSub` - `try_sub` of step06: its main task (connect, subscribe, spawn, the
  `select!` of stream and timeout), the timer, the delayed publisher, and Redis
  around them: other publishers, refusals, links that break.
  `OwnMessageArrives`: while it is connected and runs, what it has published
  itself is on its way or printed, and nothing is printed twice. The two delays
  are arguments of type `f64`, checked by nobody: `Args` tells apart those that
  are durations and those for which `Duration::from_secs_f64` panics, which ends
  the timer's or the publisher's task alone (`TimerPanics`, `PublisherPanics`).
  `SubscriberEnds`: if the first argument is a duration the program ends,
  whatever the others do, assuming that Redis answers the set-up calls, well or
  badly. If it is none, nobody cancels the token, and only the end of the
  connection is sure to end the program; both halves are needed, without
  the condition TLC finds the listener that never ends.
* `AckRoute` - `async_ack` as the stack of its pending calls: one action from each
  write to the next; the channel of its writer, in which a write waits for room,
  and the task that takes the lines to the socket. `AckAsReference`: every line
  with a result is right by the recursive `ackermann` of the source, and the
  lines nest. `AckAnswered`: the recursion comes to its end, unless the client
  stops taking lines and the channel stays full for ever. Nothing is asked of
  the client's socket: the fairness is that of the recursion and of the
  writer's task up to it.
* `Pieces`, `PegGrammars` - the operators of pest (sequence, ordered choice
  without return, greedy repetition) as functions from a position to the position
  after the match, and the rules of both grammars written with them. `GrammarsAgree` compares the names of step04 with
  classes of texts written without parsing, and what step05 takes of a text with
  its longest beginning that is tokens, for every text of up to six characters
  of the kinds the rules tell apart: enough for three words of a name, each of
  one or two characters.
* `AcceptHeader` - `accept_header_contains_text_html` on the values of the headers
  as sequences of the pieces that matter to it. `HtmlIfNamed`: HTML is served
  exactly if `text/html` is a media type of a value that can be read, and not
  if it stands among the parameters.
* `MermaidCanvas` - participants created, linked and dropped in any order that
  ownership admits. `DiagramReadable`: as Mermaid reads the lines, everyone is
  created once, destroyed once and not used before or after, and those it shows
  at the end of the text are just those that live. `PageAfter` is the reader:
  what Mermaid shows after each line.

Text lengths, the number of participants and arrows, the arguments of `/ack`
and the capacity of its channel (2 lines, 100 in the code, so that nearly every
request can fill it) are bounds of the instance. `Rest` keeps deadlock checking on.

## 7. Proofs

`DataProofs` has what the others need about data, for the library's induction
theorems take an operator as a parameter, which the provers cannot instantiate.
`LeastNumber` and `InductiveSet` state induction as a fact about sets of
numbers instead. From it come the functions defined by recursion over the
numbers (`RecursiveFunction`, `FiniteRecursion`), which exist, obey their
equations and are the only ones that do; the folds of a sequence (`Folded`), and
what one element more does to them; and what joining, being served and leaving
do to a queue in which nobody stands twice.

`MaroonTaskProofs`: each arm of `global_step`, given a stack of one of the
shapes of `WellShaped`, does not panic and leaves one of those shapes
(`AdvanceShape`); the four routes start with one (`InitialShape`). It needs
no induction over the stack, since a step looks at a bounded top part and the
shape of what lies below is a quantified statement about each position.

That the validator of the test build accepts every such stack
(`ShapeValidates`) does need one, for it goes down the whole stack: the
definition by recursion is replaced by the least set of positions closed under
it (`Accepted`).

That the loops and the recursion compute what they should is a statement about
a task on its script: `OnScript(r, start, k, stack, heap, ts)` says how the
stack and the heap stand when the task has said the first `k` texts of request
`r` and is due at `ts`, for each place where it can be. A step of such a task
does one of three things (`Follows`): it goes on silently, no earlier and
without wrapping; it says the `k+1`st text, at its due time; or it ends, and the
script is over (`StepOnScript`). The places of each route have lemmas of their
own. While the loop over the divisors is at `i`, those above `i` are said, so
that the next number that divides is the next by size. In the factorial the
values multiplied on the way up are the factorials of the levels below.

The scripts use functions defined by recursion (`fib`, `factorial`,
`DivisorsDue`), which exist by `RecursiveFunction`; that each place of the
script has its divisor is an induction as well.

`MaroonRuntimeProofs`: the inductive invariant is built in layers.

1. `TypeOK /\ QueueMirrorsWaiters`. The second is about the model's own copy of
   the queue that tokio keeps, and serves the proofs only: in it are those who
   await the Mutex, each once. Neither is inductive alone: that a
   cancelled `/state` leaves a queue of actors needs that it was in it, and
   that the queue stays exact needs the types of the flags.
2. `PendingMirrorsActive`: by it the executor's `.expect()` finds the task.
3. `StacksWellShaped`, from `AdvanceShape` for the step and `InitialShape` for
   `schedule`; with 2, the outcome of a step is never `"Panic"`.
4. `NoPanic`, and the action property `StateListsLiveTasks`; by the shapes,
   `StacksValidate`.
5. `ScriptInv` for what clients are told. Every pending operation is of a task
   on its script, at the length of what was written for its client
   (`PendingOnScript`); while the executor writes, the text is the next one, it
   is due, and the task is on its script one text later (`WritingOnScript`);
   who has no task left has been told everything (`EndedSaidAll`). None of this
   is kept without knowing that two clients never share a task
   (`IdsApart`, `TasksOwned`): otherwise a text written for one could move the
   other's script. What a client was told is the beginning of its script
   (`SaidInOrder`). From it `NoTaskLost` and `DelaysCorrect`.
6. `ServiceImplemented`: `Upgrade` is the service's `Accept`, `ExecutorWritten`
   is `Say`, `ServerDown` is `Stop`, `Tick` is `Tick`, and every other step
   changes nothing that the service shows. That the process does not stop in
   another way is `NoPanic`.
7. `OrderInv` for `OrderedUnlessLate`: whatever was written at a later time than
   a pending operation has, was written before its task was scheduled; and
   while the executor writes, no pending operation is earlier than its own,
   since none can come in. It needs that no sleep passes the largest `u64`
   (`NoSleepWraps`), for a timestamp that wraps is early again; that follows
   from 5 (`NeverWraps`).

Layers 1 to 4 hold for all requests, also where the arithmetic wraps. Layers 5
to 7 suppose `ScriptsFit`: no time and no number of a script that a client may
ask for, at any of the instants, exceeds a `u64`. Without it they are false,
as the finding of `maroon_wrap` shows: there the delay of 2^64-1 ms wraps, and
`DelaysCorrect` tells that this is the only way to get the text early. TLC
evaluates `ScriptsFit` for the instances of all the other runs
(`InstancesFit` in `MCMaroon`).

The assumptions are `WordAssumption` (the width of a word, the messages) and
`RuntimeAssumption` (actors are distinct, requests and instants are words,
the capacity is positive), which TLC evaluates in every run.

`ClockServerProofs`: for any clients, requests and number of ticks. Beside the
types, `ShownInOrder` needs to know of each handler (`HandlerInv`) how the
version it has marked as seen relates to what was sent. Once `changed` has
returned, that version may follow what was sent, and the value in hand is no
older (`Follows`). After the send the value may have run ahead of the mark, so
that only the one before it is known to be no newer than the mark (`Marks`):
the next value may be the same once more, but then it is not sent a third time.

`AsyncRedbProofs`: for every set of requests, each action of the bridge keeps
`RedbInv`, which is its shape and `CallsInFlight` together, and does to the
pipeline (the request in the worker's hand, then the queue) one of four things:
nothing, one entry more at the end, the first entry less, or the entries of one
caller disowned. These lemmas are what a service over the bridge cites. The
critical ones are that a caller has one entry at most, so that the disowned
entry is the one of the call that was dropped, and that what the worker
answers is the request its caller awaits, though another call was dropped.

`SumsServiceProofs` builds on them in layers.

1. `RedbInv`, that the tables have their types (`DbOK`), and that each handler
   awaits the request that belongs to the place where it is (`ClientOK`).
   None is inductive alone: that a handler may read its reply as a boolean needs
   that the request is still the check of its id. From it `TypeOK` and
   `CallsInFlight`.
2. `IdInv(x)`, for one id: it has at most one holder (a handler that was told
   that the id is new), at most one write that nobody waits for any more, one
   row and one accepting answer; all are empty before the id is burnt; and a
   holder excludes the others, but for a row that is its own. A handler dropped
   with its write under way turns a holder into such a write, which is where
   the argument is delicate: the write is executed all the same, and only
   because the holder was alone is its row the only one. From it
   `IdsAcceptedOnce`.
3. What the tables keep: no row of the journal is changed or removed by any
   step (`RowsKept`), and counters only grow. `JournalInv` adds to
   the unjournaled sums that were accepted (`Unjournaled`) the handlers whose
   write was replied to, that have not answered yet and whose sum is not in the
   journal (`LostWrites`): a failure adds at most one of these, an answer turns
   one of these into one of those, and no other step adds to either, so the two
   together are no more than the failures. `PagesInv` says of a page in a reply, for which the table has moved
   on, that it was latest at some length between the question and now. `CountInv`
   follows one count of a route from the handler that was told it to its answer,
   and `LaunchInv` the launches of the process.

`TradeFeedProofs` has the same layers for the feed. `FeedFits` says what the
feed awaits at each place of `handle_ws_message`, and how the counter stands
there: from the moment an index is handed out until the trade's id is stored,
that index is above the index of every stored id. So the check for duplicates
can only say no (`NoDuplicateSeen`), whatever failed before: a counter that was
incremented for nothing only makes the next index larger. As no more indices
are handed out than trades were sent, the indices stay within their type. A
request without a caller is a reader's, as only readers hang up (`OrphansOK`):
without that a forgotten write of the feed could come later and spoil the rest.
From it `TypeOK` and `CallsInFlight`.

It also proves `NoTradeLost` and the refinement `ImplementsLog` from one more
invariant, `LogInv`. It relates the table, the batch, the trades
still to come and what was published:

* the rows of the table are ordered in index and in the order of the exchange
  alike, and an index that is handed out and not in the batch is above them;
* the rows of the batch are ordered likewise and above the whole table until
  their transaction is answered (`AboveRows`), and in the table afterwards; so
  the transaction adds to the log at its end and overwrites nothing;
* what was published is in the table and below every row of the batch, so that
  publishing its first row keeps the order of the log;
* the trades still to come were sent after all others; and while nothing
  failed, no reply is an error and nothing is given up.

With it each step of the server is matched with one of `TradeLog`: the counter
with `Reserve`, the transaction of the batch with `Record`, either publish with
`Publish` or no step, a worker's reply to a handler with `Answer`, the end of a
call, of a client or of the process with `Leave`. `PageOfLog` shows that the
page which the loop over the rows collects is the one the log defines.

`GapInv` bounds the gaps of the log by the failures. An index in hand is none
yet; all that are in hand become gaps at once when the feed hears of a failure,
which may be long after it happened. So the bound is counted from the failure
on, and what the feed has still to give up is set aside (`GivenUp`).

`SmallProgramsProofs` has five parts, each for the specification of one
program; a behaviour of `MCDemos` that runs the program is one of its own.

* `OwnMessageCorrect`: `SubInv` says that everything that was passed on to the
  subscriber (printed or still to be read) was published, each message once, and
  that its own is among it when it was executed, provided that the link is up
  and the program runs. It needs that the publisher is spawned after the
  subscription was made: that is what the mutant `SpawnFirst` breaks.
* `AckCorrect`: first, that there is an Ackermann function. It is defined by
  recursion on pairs; here it is built row by row, each the iteration of the
  row before (`Iterates`, `AckermannExists`). `AckInv` then reads the stack of
  pending calls as a chain in which each awaits just what the next one computes
  (`Awaits`): at its first await the argument, at its last the result. The lines
  that are open are those of the calls below the top (`OpenFor`), so a result
  closes the line of its own call.
* `DiagramCorrect`: reading a diagram is a fold over its lines. After every line
  that the program may have written last, the page shows those who live and the
  system, numbers up to `last` were seen and no others, and nobody is leaving
  (`CanvasInv`).
* `HtmlCorrect` has nothing to do with steps: for every text, of any length,
  what splitting at three separators and trimming make of it is compared with
  the places of the characters in the whole text (`Between`, `FirstPiece`,
  `TrimmedIs`, `Span`), in both directions.
* `GrammarsCorrect` is about every text, of any length. A repetition is defined
  by recursion towards the end of the text; that it exists and obeys its
  equation holds for an expression that always moves forward
  (`RepetitionExists`), by induction downwards from the end (`Downwards`). Each
  rule is then what it matches from a position: the longest stretch of a kind,
  found without parsing (`RunOnly`, `CamelAt`, `SnakeAt`). That the first
  alternative which matches a beginning never hides the one that describes the
  whole name is the critical part. For lists, the rest after a comma is a list
  of names (`AllNames`), again from the end; for tokens, what the chain of
  tokens and spaces takes is well-formed (`GapsJoined`), and no longer
  beginning is (`GapsTaken`).

The assumptions are the named ones of the modules (`RedbAssumption`,
`SumsAssumption`, `FeedAssumption`, `ClockAssumption`, `RedisSubAssumption`,
`AckAssumption`, `CanvasAssumption`, `HeaderAssumption`,
`MaxLengthAssumption`), which TLC evaluates in the runs. Two conjuncts of `FeedAssumption` are about the exchange's messages:
without its short entries each is a sequence of trades (filtering a sequence is
defined by recursion), and one of them has the most (the bound on the gaps is
per message, so there is none if messages have no bound).

Every invariant of the passing runs is stated by a theorem. Only model-checked:
liveness and anything under fairness, which the prover does not reach
(`SubscriberEnds`, `AckAnswered`, `SessionsComplete` and the other
properties of `FairSpec`).

## 8. Not modelled

* step11 `/add`: one sum of two `i32`, which wraps, and one send. step10 `/test_ws`: one send.
* step11: a second `/quit` and signals. The first is in `GracefulServer`, whose
  channel is the same; a signal ends the process at any point, and no property
  of the runtime is about what comes after.
* step06 `--mode check` and `--mode test`: calls to Redis in sequence. The
  rendering of Markdown and of the templates in `lib/` and the handlers, which
  libraries do; the printers of step04 and step05.
* The HTTP server of step12 failing to bind its port, the pause between
  reconnections, `GetRecentTradesRequest`, which nothing calls; in step07 the
  bodies of `/sums` that are refused before any request to the database.
* The parts listed as `not_modelled` in `PROJECT.json`, each with its reason.
