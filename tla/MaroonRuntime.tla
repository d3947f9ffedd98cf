--------------------------- MODULE MaroonRuntime ---------------------------
(***************************************************************************)
(* The server of step11_ws_state_machine around the Maroon machine: the    *)
(* WebSocket handlers that schedule tasks, the executor that steps them in *)
(* the order of their timestamps, the per-client writer with its bounded   *)
(* channel, the /state and /quit handlers and the shutdown.                *)
(*                                                                         *)
(* The concurrency is that of the tokio runtime.  `fsm`, the shared state, *)
(* is behind an async Mutex, which is fair: who asks is served in order.   *)
(* A critical section without an `.await` is one action.  The executor     *)
(* holds the Mutex across one `.await`, that of `write_text`, so a write   *)
(* is two actions with the Mutex held in between.                          *)
(***************************************************************************)
EXTENDS MaroonTask, FairQueue, Maps

CONSTANTS
  Clients,          \* WebSocket connections, each with one request
  Observers,        \* HTTP requests of /state
  Offered,          \* Offered[c]: the requests client c chooses from
  Instants,         \* the clock readings that are told apart
  ChannelCapacity,  \* of the mpsc channel of a WebSocketWriter (100)
  ReadingClients    \* the clients that go on reading their socket

Actors == Clients \cup Observers \cup {"executor"}

ASSUME RuntimeAssumption ==
  /\ Clients \cap Observers = {}
  /\ "executor" \notin Clients \cup Observers
  /\ Offered \in [Clients -> SUBSET Requests(Word, Word)]
  /\ Instants \subseteq Word
  /\ 0 \in Instants
  /\ ChannelCapacity \in Nat \ {0}
  /\ ReadingClients \subseteq Clients

VARIABLES
  now,                 \* what timer.millis_since_start() returns
  next_task_id,        \* fsm.task_id_generator
  pending_operations,  \* fsm.pending_operations: timestamp and task id
  active_tasks,        \* fsm.active_tasks: from task id to task
  fsm_waiters,         \* who waits in `fsm.lock().await`, in order
  executor,            \* where execute_pending_operations is
  sessions,            \* per client, where its WebSocket handler is
  writers,             \* per client, its WebSocketWriter and its socket
  observers,           \* per /state request, where its handler is
  server,              \* "up", "quitting", "draining" or "down"
  written              \* history: the texts written, in order

fsm  == <<next_task_id, pending_operations, active_tasks>>
vars == <<now, fsm, fsm_waiters, executor, sessions, writers, observers,
          server, written>>

-----------------------------------------------------------------------------
Operations == [scheduled_timestamp : Word, task_id : Nat]

Tasks == [client : Clients, maroon_stack : Seq(StackEntries),
          maroon_heap : Heaps]

Idle      == [at |-> "idle"]
Upgraded  == [at : {"upgraded", "waiting"}, request : Requests(Word, Word),
              ts : Word]
Scheduled == [at : {"scheduled"}, request : Requests(Word, Word),
              ts : Word, task_id : Nat, born : Nat]

ExecutorAt(place) == [at |-> place]
Writing == [at : {"writing"}, op : Operations, task : Tasks, text : Texts]

Writers == [channel : Seq(Texts), in_hand : Seq(Texts), received : Seq(Texts),
            connected : BOOLEAN]

TaskIdsOf(operations) == {op.task_id : op \in operations}

(* Mutant: the comparison of TimestampedMaroonTask is not reversed.        *)
Latest(operations) ==
  {op \in operations :
     \A other \in operations :
       op.scheduled_timestamp >= other.scheduled_timestamp}

(* `pending_operations` is a BinaryHeap ordered by timestamp alone: what   *)
(* `pop` returns is any one of the earliest.                               *)
Earliest(operations) ==
  {op \in operations :
     \A other \in operations :
       op.scheduled_timestamp <= other.scheduled_timestamp}

-----------------------------------------------------------------------------
(* The process goes on until main returns or its future panics.            *)
Running == server # "down" /\ executor.at # "panicked"

(* Mutant: the guard of the Mutex is dropped before the write is awaited.  *)
AcquiresDuringWrite(a) ==
  /\ Running
  /\ fsm_waiters # <<>>
  /\ Head(fsm_waiters) = a

(* `a` has come first and nobody holds the Mutex.                          *)
Acquires(a) ==
  /\ Running
  /\ fsm_waiters # <<>>
  /\ Head(fsm_waiters) = a
  /\ executor.at # "writing"

Init ==
  /\ now = 0
  /\ next_task_id = 1
  /\ pending_operations = {}
  /\ active_tasks = [i \in {} |-> Idle]
  /\ fsm_waiters = <<>>
  /\ executor = ExecutorAt("sleep")
  /\ sessions = [c \in Clients |-> Idle]
  /\ writers = [c \in Clients |-> [channel |-> <<>>, in_hand |-> <<>>,
                                   received |-> <<>>, connected |-> TRUE]]
  /\ observers = [o \in Observers |-> [at |-> "idle", shown |-> {}]]
  /\ server = "up"
  /\ written = <<>>

(* Time goes on, to any later instant that the model tells apart.          *)
Tick ==
  /\ Running
  /\ \E t \in Instants : t > now /\ now' = t
  /\ UNCHANGED <<fsm, fsm_waiters, executor, sessions, writers, observers,
                 server, written>>

-----------------------------------------------------------------------------
(* The scheduling handlers: the upgrade callback reads the timer; then     *)
(* `schedule` asks for the Mutex; then, holding it, inserts the task.      *)
(* A client that goes away does not stop its handler: it is a spawned task.*)

Upgrade(c) ==
  /\ Running
  /\ sessions[c].at = "idle"
  /\ \E r \in Offered[c] :
       sessions' = [sessions EXCEPT ![c] =
                      [at |-> "upgraded", request |-> r, ts |-> now]]
  /\ UNCHANGED <<now, fsm, fsm_waiters, executor, writers, observers, server,
                 written>>

RequestLock(c) ==
  /\ Running
  /\ sessions[c].at = "upgraded"
  /\ sessions' = [sessions EXCEPT ![c].at = "waiting"]
  /\ fsm_waiters' = Append(fsm_waiters, c)
  /\ UNCHANGED <<now, fsm, executor, writers, observers, server, written>>

NewTask(c, request) ==
  [client |-> c, maroon_stack |-> InitialStack(request),
   maroon_heap |-> InitialHeap(request)]

schedule(c) ==
  /\ Acquires(c)
  /\ sessions[c].at = "waiting"
  /\ next_task_id' = next_task_id + 1
  /\ active_tasks' =
       Inserted(active_tasks, next_task_id, NewTask(c, sessions[c].request))
  /\ pending_operations' =
       pending_operations \cup
         {[scheduled_timestamp |-> sessions[c].ts, task_id |-> next_task_id]}
  /\ sessions' = [sessions EXCEPT ![c] =
                    [at |-> "scheduled", request |-> sessions[c].request,
                     ts |-> sessions[c].ts, task_id |-> next_task_id,
                     born |-> Len(written)]]
  /\ fsm_waiters' = Tail(fsm_waiters)
  /\ UNCHANGED <<now, executor, writers, observers, server, written>>

-----------------------------------------------------------------------------
(* GET /state: lists `active_tasks` under the Mutex.  If the HTTP client   *)
(* goes away, the handler's future is dropped and leaves the queue.        *)

StateRequest(o) ==
  /\ Running
  /\ server \in {"up", "quitting"}
  /\ observers[o].at = "idle"
  /\ observers' = [observers EXCEPT ![o].at = "waiting"]
  /\ fsm_waiters' = Append(fsm_waiters, o)
  /\ UNCHANGED <<now, fsm, executor, sessions, writers, server, written>>

state_handler(o) ==
  /\ Acquires(o)
  /\ observers[o].at = "waiting"
  /\ observers' = [observers EXCEPT ![o] =
                     [at |-> "answered", shown |-> DOMAIN active_tasks]]
  /\ fsm_waiters' = Tail(fsm_waiters)
  /\ UNCHANGED <<now, fsm, executor, sessions, writers, server, written>>

StateCancel(o) ==
  /\ Running
  /\ observers[o].at = "waiting"
  /\ observers' = [observers EXCEPT ![o].at = "cancelled"]
  /\ fsm_waiters' = Without(fsm_waiters, o)
  /\ UNCHANGED <<now, fsm, executor, sessions, writers, server, written>>

-----------------------------------------------------------------------------
(* execute_pending_operations and its inner loop.                          *)

ExecutorWake ==
  /\ Running
  /\ executor.at = "sleep"
  /\ executor' = ExecutorAt("waiting")
  /\ fsm_waiters' = Append(fsm_waiters, "executor")
  /\ UNCHANGED <<now, fsm, sessions, writers, observers, server, written>>

(* Mutant: an operation is due only after its timestamp.                   *)
Overdue == {op \in Earliest(pending_operations) : op.scheduled_timestamp < now}

(* What `peek` and the cutoff let through.                                 *)
Due == {op \in Earliest(pending_operations) : op.scheduled_timestamp <= now}

ExecutorBreak ==
  /\ Acquires("executor")
  /\ Due = {}
  /\ executor' = ExecutorAt("sleep")
  /\ fsm_waiters' = Tail(fsm_waiters)
  /\ UNCHANGED <<now, fsm, sessions, writers, observers, server, written>>

(* What stepping the task of `op` comes to; `.expect()` wants it active.   *)
OutcomeOf(op) ==
  IF op.task_id \in DOMAIN active_tasks
  THEN Advance(active_tasks[op.task_id].maroon_stack,
               active_tasks[op.task_id].maroon_heap)
  ELSE Panic(<<>>, EmptyHeap)

Stepped(op, outcome) ==
  [active_tasks[op.task_id] EXCEPT !.maroon_stack = outcome.stack,
                                   !.maroon_heap = outcome.heap]

(* Mutant: the sleep starts when the step is run, not when it was due.     *)
PostponedFromNow(op, ms) == [op EXCEPT !.scheduled_timestamp = Wrap(now + ms)]

Postponed(op, ms) ==
  [op EXCEPT !.scheduled_timestamp = Wrap(op.scheduled_timestamp + ms)]

(* A step that goes on at once or after a sleep: back into both.           *)
ExecutorContinue(op, outcome) ==
  /\ outcome.do \in {"Next", "Sleep"}
  /\ active_tasks' =
       [active_tasks EXCEPT ![op.task_id] = Stepped(op, outcome)]
  /\ pending_operations' =
       (pending_operations \ {op}) \cup {Postponed(op, outcome.ms)}
  /\ executor' = executor
  /\ fsm_waiters' = Append(Tail(fsm_waiters), "executor")

(* A step that writes, ends the task or panics: out of both.  While it     *)
(* writes the executor keeps the task, the text and the Mutex.             *)
ExecutorTakeOut(op, outcome) ==
  /\ outcome.do \in {"Write", "Done", "Panic"}
  /\ active_tasks' = Removed(active_tasks, op.task_id)
  /\ pending_operations' = pending_operations \ {op}
  /\ executor' =
       CASE outcome.do = "Write" ->
              [at |-> "writing", op |-> op, task |-> Stepped(op, outcome),
               text |-> outcome.text]
         [] outcome.do = "Done"  -> executor
         [] outcome.do = "Panic" -> ExecutorAt("panicked")
  /\ fsm_waiters' = IF outcome.do = "Done"
                    THEN Append(Tail(fsm_waiters), "executor")
                    ELSE Tail(fsm_waiters)

ExecutorStep ==
  /\ Acquires("executor")
  /\ \E op \in Due :
       \/ ExecutorContinue(op, OutcomeOf(op))
       \/ ExecutorTakeOut(op, OutcomeOf(op))
  /\ UNCHANGED <<now, next_task_id, sessions, writers, observers, server,
                 written>>

(* Mutant: one text more than the channel holds.                           *)
HasRoomForOneMore(c) == Len(writers[c].channel) <= ChannelCapacity

(* Mutant: a write waits for the socket, as if there were no channel.      *)
HasRoomOnceSent(c) == writers[c].channel = <<>> /\ writers[c].in_hand = <<>>

HasRoom(c) == Len(writers[c].channel) < ChannelCapacity

(* `write_text` returns once the channel has room; the task goes back, at  *)
(* the timestamp it had.                                                   *)
ExecutorWritten ==
  /\ Running
  /\ executor.at = "writing"
  /\ LET c == executor.task.client
         id == executor.op.task_id
     IN /\ HasRoom(c)
        /\ writers' = [writers EXCEPT ![c].channel =
                                         Append(@, executor.text)]
        /\ written' = Append(written,
                             [client |-> c, text |-> executor.text,
                              at |-> executor.op.scheduled_timestamp])
        /\ active_tasks' = Inserted(active_tasks, id, executor.task)
        /\ pending_operations' = pending_operations \cup {executor.op}
  /\ executor' = ExecutorAt("waiting")
  /\ fsm_waiters' = Append(fsm_waiters, "executor")
  /\ UNCHANGED <<now, next_task_id, sessions, observers, server>>

-----------------------------------------------------------------------------
(* The task spawned by WebSocketWriter::new, and the peer of its socket.   *)
(* A send to a peer that went away fails, and the error is dropped.        *)

WriterRecv(c) ==
  /\ Running
  /\ writers[c].channel # <<>>
  /\ writers[c].in_hand = <<>>
  /\ writers' = [writers EXCEPT ![c].channel = Tail(@),
                                ![c].in_hand = <<Head(writers[c].channel)>>]
  /\ UNCHANGED <<now, fsm, fsm_waiters, executor, sessions, observers, server,
                 written>>

WriterSend(c) ==
  /\ Running
  /\ writers[c].in_hand # <<>>
  /\ writers' = [writers EXCEPT ![c].in_hand = <<>>,
                                ![c].received =
                                   IF writers[c].connected
                                   THEN @ \o writers[c].in_hand ELSE @]
  /\ UNCHANGED <<now, fsm, fsm_waiters, executor, sessions, observers, server,
                 written>>

(* Whether a send ends depends on the peer: it does if the peer reads, and *)
(* it fails if the peer went away.                                         *)
SendEnds(c) ==
  /\ c \in ReadingClients \/ ~writers[c].connected
  /\ WriterSend(c)

Disconnect(c) ==
  /\ Running
  /\ sessions[c].at # "idle"
  /\ writers[c].connected
  /\ writers' = [writers EXCEPT ![c].connected = FALSE]
  /\ UNCHANGED <<now, fsm, fsm_waiters, executor, sessions, observers, server,
                 written>>

-----------------------------------------------------------------------------
(* GET /quit sends on `quit_tx`; `shutdown` receives it and the server     *)
(* stops accepting; once the HTTP requests in flight are answered, the     *)
(* `select!` in main drops the executor wherever it awaits.                *)

quit_handler ==
  /\ Running
  /\ server = "up"
  /\ server' = "quitting"
  /\ UNCHANGED <<now, fsm, fsm_waiters, executor, sessions, writers,
                 observers, written>>

BeginShutdown ==
  /\ Running
  /\ server = "quitting"
  /\ server' = "draining"
  /\ UNCHANGED <<now, fsm, fsm_waiters, executor, sessions, writers,
                 observers, written>>

(* Mutant: shutting down does not wait for the requests in flight.         *)
ServerDownAtOnce ==
  /\ Running
  /\ server = "draining"
  /\ server' = "down"
  /\ UNCHANGED <<now, fsm, fsm_waiters, executor, sessions, writers,
                 observers, written>>

ServerDown ==
  /\ Running
  /\ server = "draining"
  /\ \A o \in Observers : observers[o].at # "waiting"
  /\ server' = "down"
  /\ UNCHANGED <<now, fsm, fsm_waiters, executor, sessions, writers,
                 observers, written>>

(* Nothing happens after the process has ended.                            *)
Ended == ~Running /\ UNCHANGED vars

-----------------------------------------------------------------------------
Next ==
  \/ Tick
  \/ \E c \in Clients : \/ Upgrade(c) \/ RequestLock(c) \/ schedule(c)
                        \/ WriterRecv(c) \/ WriterSend(c) \/ Disconnect(c)
  \/ \E o \in Observers : StateRequest(o) \/ state_handler(o) \/ StateCancel(o)
  \/ ExecutorWake \/ ExecutorBreak \/ ExecutorStep \/ ExecutorWritten
  \/ quit_handler \/ BeginShutdown \/ ServerDown
  \/ Ended

Spec == Init /\ [][Next]_vars

(* The tokio runtime polls every future that is ready, and time goes on.   *)
Fairness ==
  /\ WF_vars(Tick)
  /\ \A c \in Clients : /\ WF_vars(RequestLock(c) \/ schedule(c))
                        /\ WF_vars(WriterRecv(c) \/ SendEnds(c))
  /\ \A o \in Observers : WF_vars(state_handler(o))
  /\ WF_vars(ExecutorWake \/ ExecutorBreak \/ ExecutorStep \/ ExecutorWritten)
  /\ WF_vars(BeginShutdown \/ ServerDown)

FairSpec == Spec /\ Fairness

-----------------------------------------------------------------------------
(* Safety.                                                                 *)

(* The task that the executor has taken out and is writing for.            *)
InFlight == IF executor.at = "writing" THEN {executor.op.task_id} ELSE {}

(* The types of the variables: what main.rs declares, and the bounds that  *)
(* the channel and the writer's loop keep.                                 *)
TypeOK ==
  /\ now \in Instants
  /\ next_task_id \in Nat \ {0}
  /\ pending_operations \subseteq Operations
  /\ DOMAIN active_tasks \cup InFlight \subseteq 1 .. next_task_id - 1
  /\ \A id \in DOMAIN active_tasks : active_tasks[id] \in Tasks
  /\ fsm_waiters \in Seq(Actors)
  /\ executor \in [at : {"sleep", "waiting", "panicked"}] \cup Writing
  /\ sessions \in [Clients -> {Idle} \cup Upgraded \cup Scheduled]
  /\ writers \in [Clients -> Writers]
  /\ \A c \in Clients : /\ Len(writers[c].channel) <= ChannelCapacity
                        /\ Len(writers[c].in_hand) <= 1
  /\ observers \in
       [Observers -> [at : {"idle", "waiting", "answered", "cancelled"},
                      shown : SUBSET (1 .. next_task_id - 1)]]
  /\ server \in {"up", "quitting", "draining", "down"}
  /\ written \in Seq([client : Clients, text : Texts, at : Word])

(* Every active task has exactly one pending operation and every pending   *)
(* operation an active task, so that the executor's `.expect()` finds it;  *)
(* the task being written for is in neither until its write is done.       *)
PendingMirrorsActive ==
  /\ TaskIdsOf(pending_operations) = DOMAIN active_tasks
  /\ \A p, q \in pending_operations : p.task_id = q.task_id => p = q
  /\ InFlight \cap DOMAIN active_tasks = {}

(* No `panic!`, `.expect()` or pattern of the executor and of global_step  *)
(* ever fails: it would take the whole process down, not one task.         *)
NoPanic == executor.at # "panicked"

(* Whatever the executor leaves in `active_tasks`, or is about to put back *)
(* after its write, is a stack that the test build's validator accepts.    *)
StacksValidate ==
  /\ \A id \in DOMAIN active_tasks :
       debug_validate_maroon_stack(active_tasks[id].maroon_stack)
  /\ executor.at = "writing" =>
       debug_validate_maroon_stack(executor.task.maroon_stack)

(* Stronger, and preserved by every step: each stack has one of the shapes *)
(* that the arms of global_step build, with the values each arm's pattern  *)
(* asks for and the heap that its `if let` asks for.                       *)
StacksWellShaped ==
  /\ \A id \in DOMAIN active_tasks :
       WellShaped(active_tasks[id].maroon_stack, active_tasks[id].maroon_heap)
  /\ executor.at = "writing" =>
       WellShaped(executor.task.maroon_stack, executor.task.maroon_heap)

(* The texts of all clients are said in the order of their timestamps, but *)
(* for a task whose handler got the Mutex too late: one that has a text    *)
(* with an earlier timestamp than an already written text was not in the   *)
(* heap yet when that text was written.  (`ts` is read before the Mutex.)  *)
OrderedUnlessLate ==
  \A i, j \in DOMAIN written :
    i < j /\ written[j].at < written[i].at =>
      sessions[written[j].client].born >= i

(* An answer of /state lists every task that was scheduled and has not     *)
(* run to its end, and no other; in particular it never misses the one     *)
(* that the executor has taken out of the map to write for it.             *)
StateListsLiveTasks ==
  [][\A o \in Observers :
       observers[o].at = "waiting" /\ observers'[o].at = "answered"
         => observers'[o].shown = DOMAIN active_tasks \cup InFlight]_vars

=============================================================================
