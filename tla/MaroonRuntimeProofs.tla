------------------------ MODULE MaroonRuntimeProofs ------------------------
(***************************************************************************)
(* Theorems about the runtime, for every instance of its constants: the    *)
(* variables keep their types, the heap of pending operations mirrors the  *)
(* map of active tasks, every stack keeps one of its shapes and is valid,  *)
(* hence the executor never panics, each client is told its script, and    *)
(* the texts of all clients are written in order.                          *)
(***************************************************************************)
EXTENDS MaroonImplementsService, MaroonTaskProofs

(* What the executor can be in front of when it steps a task.              *)
StepsTask(op, outcome) ==
  /\ op \in Due
  /\ outcome = OutcomeOf(op)
  /\ ExecutorContinue(op, outcome) \/ ExecutorTakeOut(op, outcome)
  /\ UNCHANGED <<now, next_task_id, sessions, writers, observers, server,
                 written>>

LEMMA ExecutorStepCases ==
  ASSUME ExecutorStep
  PROVE  \E op \in Due : StepsTask(op, OutcomeOf(op))
BY DEF ExecutorStep, StepsTask

-----------------------------------------------------------------------------
(* The queue of the Mutex, as the model keeps it: in it are exactly the    *)
(* handlers and the executor that await it, each once.                     *)

AwaitingLock ==
  {c \in Clients : sessions[c].at = "waiting"}
    \cup {o \in Observers : observers[o].at = "waiting"}
    \cup (IF executor.at = "waiting" THEN {"executor"} ELSE {})

QueueMirrorsWaiters ==
  /\ Members(fsm_waiters) = AwaitingLock
  /\ Distinct(fsm_waiters)

LEMMA ActorType ==
  /\ \A c \in Clients : c \in Actors
  /\ \A o \in Observers : o \in Actors
  /\ "executor" \in Actors
BY DEF Actors

LEMMA Appended ==
  ASSUME NEW queue \in Seq(Actors), Distinct(queue),
         NEW a \in Actors, a \notin Members(queue)
  PROVE  /\ Append(queue, a) \in Seq(Actors)
         /\ Distinct(Append(queue, a))
         /\ Members(Append(queue, a)) = Members(queue) \cup {a}
BY JoinedQueue

LEMMA Served ==
  ASSUME NEW queue \in Seq(Actors), Distinct(queue), queue # <<>>
  PROVE  /\ Tail(queue) \in Seq(Actors)
         /\ Distinct(Tail(queue))
         /\ Members(Tail(queue)) = Members(queue) \ {Head(queue)}
         /\ Head(queue) \in Members(queue)
BY ServedQueue

LEMMA Left ==
  ASSUME NEW queue \in Seq(Actors), Distinct(queue),
         NEW a, a \in Members(queue)
  PROVE  /\ Without(queue, a) \in Seq(Actors)
         /\ Distinct(Without(queue, a))
         /\ Members(Without(queue, a)) = Members(queue) \ {a}
BY LeftQueue

-----------------------------------------------------------------------------
(* The outcome of stepping an active task is well typed.                   *)
LEMMA OutcomeOfType ==
  ASSUME TypeOK, NEW op \in Due
  PROVE  /\ op \in Operations
         /\ OutcomeOK(OutcomeOf(op))
<1>1. op \in Operations BY DEF Due, Earliest, TypeOK
<1>2. CASE op.task_id \in DOMAIN active_tasks
  <2>1. active_tasks[op.task_id] \in Tasks BY <1>2 DEF TypeOK
  <2>2. OutcomeOK(Advance(active_tasks[op.task_id].maroon_stack,
                          active_tasks[op.task_id].maroon_heap))
    BY <2>1, AdvanceType DEF Tasks
  <2> QED BY <1>1, <1>2, <2>2 DEF OutcomeOf
<1>3. CASE op.task_id \notin DOMAIN active_tasks
  <2>1. EmptyHeap \in Heaps BY DEF Heaps
  <2>2. OutcomeOK(Panic(<<>>, EmptyHeap))
    BY <2>1, Literals, TextType DEF Panic, Outcome, OutcomeOK
  <2> QED BY <1>1, <1>3, <2>2 DEF OutcomeOf
<1> QED BY <1>2, <1>3

LEMMA SteppedType ==
  ASSUME TypeOK, NEW op, op.task_id \in DOMAIN active_tasks,
         NEW outcome, OutcomeOK(outcome)
  PROVE  /\ Stepped(op, outcome) \in Tasks
         /\ Stepped(op, outcome).maroon_stack = outcome.stack
         /\ Stepped(op, outcome).maroon_heap = outcome.heap
BY DEF TypeOK, Tasks, Stepped, OutcomeOK
-----------------------------------------------------------------------------
(* Who awaits the Mutex.                                                   *)

LEMMA ExecutorAwaits ==
  ASSUME TypeOK, QueueMirrorsWaiters, Acquires("executor")
  PROVE  executor.at = "waiting"
<1>1. "executor" \in Members(fsm_waiters)
  BY Served DEF Acquires, TypeOK, QueueMirrorsWaiters, Distinct
<1> QED BY <1>1, RuntimeAssumption DEF QueueMirrorsWaiters, AwaitingLock

(* A step that joins the queue, one that is served, one that leaves it,    *)
(* and one that is served and joins it again.                              *)
LEMMA Joins ==
  ASSUME TypeOK, QueueMirrorsWaiters, NEW a \in Actors, a \notin AwaitingLock,
         fsm_waiters' = Append(fsm_waiters, a),
         AwaitingLock' = AwaitingLock \cup {a}
  PROVE  fsm_waiters' \in Seq(Actors) /\ QueueMirrorsWaiters'
BY Appended DEF TypeOK, QueueMirrorsWaiters, Distinct

LEMMA IsServed ==
  ASSUME TypeOK, QueueMirrorsWaiters, NEW a, Acquires(a),
         fsm_waiters' = Tail(fsm_waiters),
         AwaitingLock' = AwaitingLock \ {a}
  PROVE  fsm_waiters' \in Seq(Actors) /\ QueueMirrorsWaiters'
BY Served DEF TypeOK, QueueMirrorsWaiters, Distinct, Acquires

LEMMA Leaves ==
  ASSUME TypeOK, QueueMirrorsWaiters, NEW a, a \in AwaitingLock,
         fsm_waiters' = Without(fsm_waiters, a),
         AwaitingLock' = AwaitingLock \ {a}
  PROVE  fsm_waiters' \in Seq(Actors) /\ QueueMirrorsWaiters'
BY Left DEF TypeOK, QueueMirrorsWaiters, Distinct

LEMMA Rejoins ==
  ASSUME TypeOK, QueueMirrorsWaiters, NEW a \in Actors, Acquires(a),
         fsm_waiters' = Append(Tail(fsm_waiters), a),
         AwaitingLock' = AwaitingLock
  PROVE  fsm_waiters' \in Seq(Actors) /\ QueueMirrorsWaiters'
<1> DEFINE rest == Tail(fsm_waiters)
<1>1. /\ rest \in Seq(Actors) /\ Distinct(rest)
      /\ Members(rest) = AwaitingLock \ {a} /\ a \in AwaitingLock
  BY Served DEF TypeOK, QueueMirrorsWaiters, Distinct, Acquires
<1> HIDE DEF rest
<1>2. /\ Append(rest, a) \in Seq(Actors) /\ Distinct(Append(rest, a))
      /\ Members(Append(rest, a)) = AwaitingLock
  <2>1. a \notin Members(rest) BY <1>1
  <2>2. /\ Append(rest, a) \in Seq(Actors) /\ Distinct(Append(rest, a))
        /\ Members(Append(rest, a)) = Members(rest) \cup {a}
    BY ONLY <1>1, <2>1, a \in Actors, Appended
  <2>3. (AwaitingLock \ {a}) \cup {a} = AwaitingLock BY <1>1
  <2> QED BY <1>1, <2>2, <2>3
<1> QED BY <1>2 DEF rest, QueueMirrorsWaiters, Distinct

(* Every step leaves the queue and the flags of the actors in agreement.   *)
LEMMA QueuePreserved ==
  ASSUME TypeOK, QueueMirrorsWaiters, [Next]_vars
  PROVE  fsm_waiters' \in Seq(Actors) /\ QueueMirrorsWaiters'
<1> DEFINE Goal == fsm_waiters' \in Seq(Actors) /\ QueueMirrorsWaiters'
<1>1. ASSUME fsm_waiters' = fsm_waiters, AwaitingLock' = AwaitingLock
      PROVE  Goal
  BY <1>1 DEF TypeOK, QueueMirrorsWaiters
<1>2. ASSUME UNCHANGED <<fsm_waiters, sessions, observers>>,
             executor' = executor
      PROVE  Goal
  BY <1>1, <1>2 DEF AwaitingLock
<1>3. /\ sessions \in [Clients -> {Idle} \cup Upgraded \cup Scheduled]
      /\ DOMAIN observers = Observers
      /\ Clients \cap Observers = {}
      /\ "executor" \notin Clients \cup Observers
  BY RuntimeAssumption DEF TypeOK
<1>4. CASE Tick BY <1>2, <1>4 DEF Tick
<1>5. ASSUME NEW c \in Clients, Upgrade(c) PROVE Goal
  <2>1. AwaitingLock' = AwaitingLock
    BY <1>3, <1>5 DEF Upgrade, AwaitingLock
  <2> QED BY <1>1, <1>5, <2>1 DEF Upgrade
<1>6. ASSUME NEW c \in Clients, RequestLock(c) PROVE Goal
  <2>1. c \in Actors /\ c \notin AwaitingLock
    BY <1>3, <1>6, ActorType DEF RequestLock, AwaitingLock
  <2>2. AwaitingLock' = AwaitingLock \cup {c}
    BY <1>3, <1>6 DEF RequestLock, AwaitingLock
  <2> QED BY <1>6, <2>1, <2>2, Joins DEF RequestLock
<1>7. ASSUME NEW c \in Clients, schedule(c) PROVE Goal
  <2>1. AwaitingLock' = AwaitingLock \ {c}
    BY <1>3, <1>7 DEF schedule, AwaitingLock
  <2> QED BY <1>7, <2>1, IsServed DEF schedule
<1>8. ASSUME NEW c \in Clients,
             WriterRecv(c) \/ WriterSend(c) \/ Disconnect(c)
      PROVE  Goal
  BY <1>2, <1>8 DEF WriterRecv, WriterSend, Disconnect
<1>9. ASSUME NEW o \in Observers, StateRequest(o) PROVE Goal
  <2>1. o \in Actors /\ o \notin AwaitingLock
    BY <1>3, <1>9, ActorType DEF StateRequest, AwaitingLock
  <2>2. AwaitingLock' = AwaitingLock \cup {o}
    BY <1>3, <1>9 DEF StateRequest, AwaitingLock
  <2> QED BY <1>9, <2>1, <2>2, Joins DEF StateRequest
<1>10. ASSUME NEW o \in Observers, state_handler(o) PROVE Goal
  <2>1. AwaitingLock' = AwaitingLock \ {o}
    BY <1>3, <1>10 DEF state_handler, AwaitingLock
  <2> QED BY <1>10, <2>1, IsServed DEF state_handler
<1>11. ASSUME NEW o \in Observers, StateCancel(o) PROVE Goal
  <2>1. o \in AwaitingLock BY <1>11 DEF StateCancel, AwaitingLock
  <2>2. AwaitingLock' = AwaitingLock \ {o}
    BY <1>3, <1>11 DEF StateCancel, AwaitingLock
  <2> QED BY <1>11, <2>1, <2>2, Leaves DEF StateCancel
<1>12. CASE ExecutorWake
  <2>1. "executor" \notin AwaitingLock
    BY <1>3, <1>12 DEF ExecutorWake, AwaitingLock
  <2>2. AwaitingLock' = AwaitingLock \cup {"executor"}
    BY <1>3, <1>12 DEF ExecutorWake, ExecutorAt, AwaitingLock
  <2> QED BY <1>12, <2>1, <2>2, ActorType, Joins DEF ExecutorWake
<1>13. CASE ExecutorBreak
  <2>1. AwaitingLock' = AwaitingLock \ {"executor"}
    BY <1>3, <1>13 DEF ExecutorBreak, ExecutorAt, AwaitingLock
  <2> QED BY <1>13, <2>1, IsServed DEF ExecutorBreak
<1>14. CASE ExecutorStep
  <2>1. Acquires("executor") /\ UNCHANGED <<sessions, observers>>
    BY <1>14 DEF ExecutorStep
  <2>2. executor.at = "waiting" BY <2>1, ExecutorAwaits
  <2>3. PICK op \in Due : StepsTask(op, OutcomeOf(op))
    BY <1>14, ExecutorStepCases
  <2> DEFINE outcome == OutcomeOf(op)
  <2> HIDE DEF outcome
  <2>4. CASE /\ executor' = executor
             /\ fsm_waiters' = Append(Tail(fsm_waiters), "executor")
    <3>1. AwaitingLock' = AwaitingLock BY <2>1, <2>4 DEF AwaitingLock
    <3> QED BY <2>1, <2>4, <3>1, ActorType, Rejoins
  <2>5. CASE /\ executor'.at # "waiting"
             /\ fsm_waiters' = Tail(fsm_waiters)
    <3>1. AwaitingLock' = AwaitingLock \ {"executor"}
      BY <1>3, <2>1, <2>2, <2>5 DEF AwaitingLock
    <3> QED BY <2>1, <2>5, <3>1, IsServed
  <2>6. CASE ExecutorContinue(op, outcome)
    BY <2>4, <2>6 DEF ExecutorContinue
  <2>7. CASE ExecutorTakeOut(op, outcome)
    BY <2>4, <2>5, <2>7 DEF ExecutorTakeOut, ExecutorAt
  <2> QED BY <2>3, <2>6, <2>7 DEF StepsTask, outcome
<1>15. CASE ExecutorWritten
  <2>1. "executor" \notin AwaitingLock
    BY <1>3, <1>15 DEF ExecutorWritten, AwaitingLock
  <2>2. AwaitingLock' = AwaitingLock \cup {"executor"}
    BY <1>3, <1>15 DEF ExecutorWritten, ExecutorAt, AwaitingLock
  <2> QED BY <1>15, <2>1, <2>2, ActorType, Joins DEF ExecutorWritten
<1>16. CASE quit_handler \/ BeginShutdown \/ ServerDown \/ Ended
  BY <1>2, <1>16 DEF quit_handler, BeginShutdown, ServerDown, Ended, vars
<1>17. CASE UNCHANGED vars BY <1>2, <1>17 DEF vars
<1> QED
  BY <1>4, <1>5, <1>6, <1>7, <1>8, <1>9, <1>10, <1>11, <1>12, <1>13, <1>14,
     <1>15, <1>16, <1>17
     DEF Next

-----------------------------------------------------------------------------
(* Types.                                                                  *)

LEMMA InitType == Init => TypeOK
<1> SUFFICES ASSUME Init PROVE TypeOK OBVIOUS
<1>1. /\ now \in Instants /\ next_task_id \in Nat \ {0}
      /\ pending_operations \subseteq Operations
      /\ DOMAIN active_tasks \cup InFlight \subseteq 1 .. next_task_id - 1
      /\ \A id \in DOMAIN active_tasks : active_tasks[id] \in Tasks
      /\ fsm_waiters \in Seq(Actors)
      /\ executor \in [at : {"sleep", "waiting", "panicked"}] \cup Writing
      /\ server \in {"up", "quitting", "draining", "down"}
      /\ written \in Seq([client : Clients, text : Texts, at : Word])
  BY RuntimeAssumption DEF Init, ExecutorAt, InFlight
<1>2. sessions \in [Clients -> {Idle} \cup Upgraded \cup Scheduled]
  BY DEF Init
<1>3. \A c \in Clients :
        writers[c] = [channel |-> <<>>, in_hand |-> <<>>, received |-> <<>>,
                      connected |-> TRUE]
  BY DEF Init
<1>4. /\ writers \in [Clients -> Writers]
      /\ \A c \in Clients : /\ Len(writers[c].channel) <= ChannelCapacity
                            /\ Len(writers[c].in_hand) <= 1
  <2>1. <<>> \in Seq(Texts) /\ Len(<<>>) = 0 BY EmptySeq
  <2>2. [channel |-> <<>>, in_hand |-> <<>>, received |-> <<>>,
         connected |-> TRUE] \in Writers
    BY <2>1 DEF Writers
  <2>3. writers \in [Clients -> Writers] BY <2>2 DEF Init
  <2> QED BY <1>3, <2>1, <2>3, RuntimeAssumption
<1>5. observers \in
       [Observers -> [at : {"idle", "waiting", "answered", "cancelled"},
                      shown : SUBSET (1 .. next_task_id - 1)]]
  BY DEF Init
<1> QED BY <1>1, <1>2, <1>4, <1>5 DEF TypeOK

(* What does not depend on the queue, part by part.                        *)
FsmType ==
  /\ next_task_id \in Nat \ {0}
  /\ pending_operations \subseteq Operations
  /\ DOMAIN active_tasks \cup InFlight \subseteq 1 .. next_task_id - 1
  /\ \A id \in DOMAIN active_tasks : active_tasks[id] \in Tasks
  /\ executor \in [at : {"sleep", "waiting", "panicked"}] \cup Writing

ObserversType ==
  observers \in
    [Observers -> [at : {"idle", "waiting", "answered", "cancelled"},
                   shown : SUBSET (1 .. next_task_id - 1)]]

SessionsType == sessions \in [Clients -> {Idle} \cup Upgraded \cup Scheduled]

WritersType ==
  /\ writers \in [Clients -> Writers]
  /\ \A c \in Clients : /\ Len(writers[c].channel) <= ChannelCapacity
                        /\ Len(writers[c].in_hand) <= 1

WrittenType == written \in Seq([client : Clients, text : Texts, at : Word])

LEMMA SessionsTypePreserved ==
  ASSUME TypeOK, [Next]_vars
  PROVE  SessionsType'
<1> USE DEF SessionsType
<1>1. CASE sessions' = sessions BY <1>1 DEF TypeOK
<1>2. ASSUME NEW c \in Clients, Upgrade(c) PROVE SessionsType'
  <2>1. PICK r \in Offered[c] :
          sessions' = [sessions EXCEPT ![c] =
                         [at |-> "upgraded", request |-> r, ts |-> now]]
    BY <1>2 DEF Upgrade
  <2>2. r \in Requests(Word, Word) /\ now \in Word
    BY RuntimeAssumption DEF TypeOK
  <2>3. [at |-> "upgraded", request |-> r, ts |-> now] \in Upgraded
    BY <2>2 DEF Upgraded
  <2> QED BY <2>1, <2>3 DEF TypeOK
<1>3. ASSUME NEW c \in Clients, RequestLock(c) PROVE SessionsType'
  <2>1. sessions[c] \in Upgraded
    BY <1>3 DEF RequestLock, TypeOK, Idle, Scheduled
  <2>2. [sessions[c] EXCEPT !.at = "waiting"] \in Upgraded
    BY <2>1 DEF Upgraded
  <2>3. sessions' = [sessions EXCEPT
                       ![c] = [sessions[c] EXCEPT !.at = "waiting"]]
    BY <1>3 DEF RequestLock
  <2> QED BY <2>2, <2>3 DEF TypeOK
<1>4. ASSUME NEW c \in Clients, schedule(c) PROVE SessionsType'
  <2>1. sessions[c] \in Upgraded
    BY <1>4 DEF schedule, TypeOK, Idle, Scheduled
  <2> DEFINE new == [at |-> "scheduled", request |-> sessions[c].request,
                     ts |-> sessions[c].ts, task_id |-> next_task_id,
                     born |-> Len(written)]
  <2>2. new \in Scheduled
    BY <2>1 DEF Upgraded, Scheduled, TypeOK
  <2>3. sessions' = [sessions EXCEPT ![c] = new] BY <1>4 DEF schedule
  <2> HIDE DEF new
  <2> QED BY <2>2, <2>3 DEF TypeOK
<1> QED
  BY <1>1, <1>2, <1>3, <1>4
     DEF Next, vars, Tick, WriterRecv, WriterSend, Disconnect, StateRequest,
         state_handler, StateCancel, ExecutorWake, ExecutorBreak, ExecutorStep,
         ExecutorWritten, quit_handler, BeginShutdown, ServerDown, Ended

LEMMA ObserversTypePreserved ==
  ASSUME TypeOK, [Next]_vars
  PROVE  ObserversType'
<1> USE DEF ObserversType
<1>1. CASE observers' = observers /\ next_task_id' = next_task_id
  BY <1>1 DEF TypeOK
<1>2. ASSUME NEW c \in Clients, schedule(c) PROVE ObserversType'
  <2>1. observers' = observers /\ next_task_id' = next_task_id + 1
    BY <1>2 DEF schedule
  <2>2. 1 .. next_task_id - 1 \subseteq 1 .. (next_task_id + 1) - 1
    BY DEF TypeOK
  <2> QED BY <2>1, <2>2 DEF TypeOK
<1>3. ASSUME NEW o \in Observers, StateRequest(o) \/ StateCancel(o)
      PROVE  ObserversType'
  BY <1>3 DEF StateRequest, StateCancel, TypeOK, fsm
<1>4. ASSUME NEW o \in Observers, state_handler(o) PROVE ObserversType'
  <2>1. DOMAIN active_tasks \subseteq 1 .. next_task_id - 1 BY DEF TypeOK
  <2> QED BY <1>4, <2>1 DEF state_handler, TypeOK, fsm
<1> QED
  BY <1>1, <1>2, <1>3, <1>4
     DEF Next, vars, fsm, Tick, Upgrade, RequestLock, WriterRecv, WriterSend,
         Disconnect, ExecutorWake, ExecutorBreak, ExecutorStep,
         ExecutorWritten, quit_handler, BeginShutdown, ServerDown, Ended

LEMMA WritersTypePreserved ==
  ASSUME TypeOK, [Next]_vars
  PROVE  WritersType'
<1> USE DEF WritersType
<1>1. CASE writers' = writers BY <1>1 DEF TypeOK
<1>2. ASSUME NEW c \in Clients, NEW w \in Writers,
             Len(w.channel) <= ChannelCapacity, Len(w.in_hand) <= 1,
             writers' = [writers EXCEPT ![c] = w]
      PROVE  WritersType'
  BY <1>2 DEF TypeOK
<1>3. ASSUME NEW c \in Clients
      PROVE  /\ writers[c] \in Writers
             /\ writers[c].channel \in Seq(Texts)
             /\ writers[c].in_hand \in Seq(Texts)
             /\ writers[c].received \in Seq(Texts)
             /\ Len(writers[c].channel) <= ChannelCapacity
             /\ Len(writers[c].in_hand) <= 1
  BY <1>3 DEF TypeOK, Writers
<1>4. ASSUME NEW c \in Clients, WriterRecv(c) PROVE WritersType'
  <2> DEFINE channel == writers[c].channel
             w == [writers[c] EXCEPT !.channel = Tail(channel),
                                     !.in_hand = <<Head(channel)>>]
  <2>1. writers' = [writers EXCEPT ![c] = w] BY <1>4 DEF WriterRecv
  <2>2. /\ channel \in Seq(Texts) /\ channel # <<>>
        /\ Len(channel) <= ChannelCapacity
    BY <1>3, <1>4 DEF WriterRecv
  <2> HIDE DEF channel
  <2>3. /\ Tail(channel) \in Seq(Texts) /\ Len(Tail(channel)) = Len(channel) - 1
        /\ <<Head(channel)>> \in Seq(Texts) /\ Len(<<Head(channel)>>) = 1
        /\ Len(channel) \in Nat
    BY <2>2
  <2>4. /\ w \in Writers
        /\ w.channel = Tail(channel) /\ w.in_hand = <<Head(channel)>>
    BY <1>3, <2>3 DEF Writers
  <2>5. Len(w.channel) <= ChannelCapacity /\ Len(w.in_hand) <= 1
    BY <2>2, <2>3, <2>4, RuntimeAssumption
  <2> HIDE DEF w
  <2> QED BY <1>2, <2>1, <2>4, <2>5
<1>5. ASSUME NEW c \in Clients, WriterSend(c) PROVE WritersType'
  <2> DEFINE received == IF writers[c].connected
                         THEN writers[c].received \o writers[c].in_hand
                         ELSE writers[c].received
             w == [writers[c] EXCEPT !.in_hand = <<>>, !.received = received]
  <2>1. writers' = [writers EXCEPT ![c] = w] BY <1>5 DEF WriterSend
  <2>2. received \in Seq(Texts) BY <1>3
  <2> HIDE DEF received
  <2>3. <<>> \in Seq(Texts) /\ Len(<<>>) = 0 BY EmptySeq
  <2>4. /\ w \in Writers
        /\ w.channel = writers[c].channel /\ w.in_hand = <<>>
    BY <1>3, <2>2, <2>3 DEF Writers
  <2>5. Len(w.channel) <= ChannelCapacity /\ Len(w.in_hand) <= 1
    BY <1>3, <2>3, <2>4
  <2> HIDE DEF w
  <2> QED BY <1>2, <2>1, <2>4, <2>5
<1>6. ASSUME NEW c \in Clients, Disconnect(c) PROVE WritersType'
  <2> DEFINE w == [writers[c] EXCEPT !.connected = FALSE]
  <2>1. writers' = [writers EXCEPT ![c] = w] BY <1>6 DEF Disconnect
  <2>2. /\ w \in Writers
        /\ w.channel = writers[c].channel /\ w.in_hand = writers[c].in_hand
    BY <1>3 DEF Writers
  <2> HIDE DEF w
  <2> QED BY <1>2, <1>3, <2>1, <2>2
<1>7. CASE ExecutorWritten
  <2> DEFINE c == executor.task.client
             channel == writers[c].channel
             w == [writers[c] EXCEPT !.channel = Append(channel, executor.text)]
  <2>1. executor \in Writing BY <1>7 DEF ExecutorWritten, TypeOK
  <2>2. c \in Clients /\ executor.text \in Texts BY <2>1 DEF Writing, Tasks
  <2>3. writers' = [writers EXCEPT ![c] = w] /\ Len(channel) < ChannelCapacity
    BY <1>7 DEF ExecutorWritten, HasRoom
  <2>4. /\ channel \in Seq(Texts) /\ writers[c] \in Writers
        /\ Len(writers[c].in_hand) <= 1
    BY <1>3, <2>2
  <2> HIDE DEF channel, c
  <2>5. /\ Append(channel, executor.text) \in Seq(Texts)
        /\ Len(Append(channel, executor.text)) = Len(channel) + 1
        /\ Len(channel) \in Nat
    BY <2>2, <2>4
  <2>6. /\ w \in Writers
        /\ w.channel = Append(channel, executor.text)
        /\ w.in_hand = writers[c].in_hand
    BY <2>4, <2>5 DEF Writers
  <2>7. Len(w.channel) <= ChannelCapacity /\ Len(w.in_hand) <= 1
    BY <2>3, <2>4, <2>5, <2>6, RuntimeAssumption
  <2> HIDE DEF w
  <2> QED BY <1>2, <2>2, <2>3, <2>6, <2>7
<1> QED
  BY <1>1, <1>4, <1>5, <1>6, <1>7
     DEF Next, vars, Tick, Upgrade, RequestLock, schedule, StateRequest,
         state_handler, StateCancel, ExecutorWake, ExecutorBreak, ExecutorStep,
         quit_handler, BeginShutdown, ServerDown, Ended

LEMMA WrittenTypePreserved ==
  ASSUME TypeOK, [Next]_vars
  PROVE  WrittenType'
<1> USE DEF WrittenType
<1>1. CASE written' = written BY <1>1 DEF TypeOK
<1>2. CASE ExecutorWritten
  <2>1. executor \in Writing BY <1>2 DEF ExecutorWritten, TypeOK
  <2> DEFINE new == [client |-> executor.task.client, text |-> executor.text,
                     at |-> executor.op.scheduled_timestamp]
  <2>2. new \in [client : Clients, text : Texts, at : Word]
    BY <2>1 DEF Writing, Tasks, Operations
  <2>3. written' = Append(written, new) BY <1>2 DEF ExecutorWritten
  <2> HIDE DEF new
  <2> QED BY <2>2, <2>3 DEF TypeOK
<1> QED
  BY <1>1, <1>2
     DEF Next, vars, Tick, Upgrade, RequestLock, schedule, StateRequest,
         state_handler, StateCancel, WriterRecv, WriterSend, Disconnect,
         ExecutorWake, ExecutorBreak, ExecutorStep, quit_handler,
         BeginShutdown, ServerDown, Ended

LEMMA PostponedType ==
  ASSUME NEW op \in Operations, NEW ms \in Word
  PROVE  /\ Postponed(op, ms) \in Operations
         /\ Postponed(op, ms).task_id = op.task_id
<1>1. Wrap(op.scheduled_timestamp + ms) \in Word
  BY WrappedArithmetic DEF Operations
<1> QED BY <1>1 DEF Postponed, Operations

LEMMA NewTaskType ==
  ASSUME NEW c \in Clients, NEW request \in Requests(Word, Word)
  PROVE  /\ NewTask(c, request) \in Tasks
         /\ WellShaped(NewTask(c, request).maroon_stack,
                       NewTask(c, request).maroon_heap)
BY InitialShape DEF NewTask, Tasks

(* What a waiting client brings to `schedule`.                             *)
LEMMA WaitingRequest ==
  ASSUME TypeOK, NEW c \in Clients, sessions[c].at = "waiting"
  PROVE  /\ sessions[c].request \in Requests(Word, Word)
         /\ sessions[c].ts \in Word
<1>1. sessions[c] \in Upgraded BY DEF TypeOK, Idle, Scheduled
<1> QED BY <1>1 DEF Upgraded

LEMMA FsmTypePreserved ==
  ASSUME TypeOK, QueueMirrorsWaiters, [Next]_vars
  PROVE  FsmType'
<1> USE DEF FsmType
<1>1. CASE UNCHANGED <<fsm, executor>>
  BY <1>1 DEF TypeOK, fsm, InFlight
<1>2. ASSUME NEW c \in Clients, schedule(c) PROVE FsmType'
  <2> DEFINE task == NewTask(c, sessions[c].request)
             op == [scheduled_timestamp |-> sessions[c].ts,
                    task_id |-> next_task_id]
  <2>1. task \in Tasks /\ op \in Operations
    BY <1>2, WaitingRequest, NewTaskType DEF schedule, Operations, TypeOK
  <2>2. /\ next_task_id' = next_task_id + 1
        /\ active_tasks' = Inserted(active_tasks, next_task_id, task)
        /\ pending_operations' = pending_operations \cup {op}
        /\ executor' = executor
    BY <1>2 DEF schedule
  <2> HIDE DEF task, op
  <2>3. /\ DOMAIN active_tasks' = DOMAIN active_tasks \cup {next_task_id}
        /\ \A id \in DOMAIN active_tasks' : active_tasks'[id] \in Tasks
    BY <2>1, <2>2 DEF Inserted, TypeOK
  <2>4. InFlight' = InFlight BY <2>2 DEF InFlight
  <2>5. DOMAIN active_tasks' \cup InFlight' \subseteq 1 .. next_task_id' - 1
    BY <2>2, <2>3, <2>4 DEF TypeOK
  <2> QED BY <2>1, <2>2, <2>3, <2>5 DEF TypeOK
<1>3. CASE ExecutorWake \/ ExecutorBreak
  <2>1. UNCHANGED fsm /\ executor'.at # "writing"
        /\ executor' \in [at : {"sleep", "waiting", "panicked"}]
    BY <1>3 DEF ExecutorWake, ExecutorBreak, ExecutorAt
  <2>2. InFlight' = {} BY <2>1 DEF InFlight
  <2> QED BY <2>1, <2>2 DEF TypeOK, fsm
<1>4. CASE ExecutorStep
  <2>1. PICK op \in Due : StepsTask(op, OutcomeOf(op))
    BY <1>4, ExecutorStepCases
  <2> DEFINE outcome == OutcomeOf(op)
  <2>2. /\ op \in Operations /\ op \in pending_operations /\ OutcomeOK(outcome)
    BY OutcomeOfType DEF Due, Earliest
  <2>3. executor.at = "waiting" /\ InFlight = {}
    BY <1>4, ExecutorAwaits DEF ExecutorStep, InFlight
  <2>4. next_task_id' = next_task_id BY <2>1 DEF StepsTask
  <2>5. outcome.do # "Panic" => op.task_id \in DOMAIN active_tasks
    BY DEF OutcomeOf, Panic, Outcome
  <2>6. op.task_id \in DOMAIN active_tasks => Stepped(op, outcome) \in Tasks
    BY <2>2, SteppedType
  <2>7. ExecutorContinue(op, outcome) \/ ExecutorTakeOut(op, outcome)
    BY <2>1 DEF StepsTask
  <2> HIDE DEF outcome
  <2>8. CASE ExecutorContinue(op, outcome)
    <3>1. op.task_id \in DOMAIN active_tasks
      BY <2>5, <2>8 DEF ExecutorContinue
    <3>2. Postponed(op, outcome.ms) \in Operations
      BY <2>2, PostponedType DEF OutcomeOK
    <3>3. /\ DOMAIN active_tasks' = DOMAIN active_tasks
          /\ \A id \in DOMAIN active_tasks' : active_tasks'[id] \in Tasks
      BY <2>6, <2>8, <3>1 DEF ExecutorContinue, TypeOK
    <3>4. pending_operations' \subseteq Operations /\ executor' = executor
      BY <2>8, <3>2 DEF ExecutorContinue, TypeOK
    <3>5. InFlight' = {} BY <2>3, <3>4 DEF InFlight
    <3> QED BY <2>4, <3>3, <3>4, <3>5 DEF TypeOK
  <2>9. CASE ExecutorTakeOut(op, outcome)
    <3>1. /\ DOMAIN active_tasks' \subseteq DOMAIN active_tasks
          /\ \A id \in DOMAIN active_tasks' : active_tasks'[id] \in Tasks
      BY <2>9 DEF ExecutorTakeOut, Removed, TypeOK
    <3>2. pending_operations' \subseteq Operations
      BY <2>9 DEF ExecutorTakeOut, TypeOK
    <3>3. CASE outcome.do = "Write"
      <4>1. executor' = [at |-> "writing", op |-> op,
                         task |-> Stepped(op, outcome), text |-> outcome.text]
        BY <2>9, <3>3 DEF ExecutorTakeOut
      <4>2. executor' \in Writing
        BY <2>2, <2>5, <2>6, <3>3, <4>1 DEF Writing, OutcomeOK
      <4>3. InFlight' = {op.task_id} BY <4>1 DEF InFlight
      <4>4. op.task_id \in 1 .. next_task_id - 1
        BY <2>5, <3>3 DEF TypeOK
      <4> QED BY <2>4, <3>1, <3>2, <4>2, <4>3, <4>4 DEF TypeOK
    <3>4. CASE outcome.do # "Write"
      <4>1. executor' \in [at : {"sleep", "waiting", "panicked"}]
            /\ executor'.at # "writing"
        BY <2>3, <2>9, <3>4 DEF ExecutorTakeOut, ExecutorAt, TypeOK, Writing
      <4>2. InFlight' = {} BY <4>1 DEF InFlight
      <4> QED BY <2>4, <3>1, <3>2, <4>1, <4>2 DEF TypeOK
    <3> QED BY <3>3, <3>4
  <2> QED BY <2>7, <2>8, <2>9
<1>5. CASE ExecutorWritten
  <2>1. /\ executor \in Writing /\ executor.at = "writing"
        /\ executor.op.task_id \in 1 .. next_task_id - 1
    BY <1>5 DEF ExecutorWritten, TypeOK, InFlight
  <2>2. executor.op \in Operations /\ executor.task \in Tasks
    BY <2>1 DEF Writing
  <2>3. /\ active_tasks' =
             Inserted(active_tasks, executor.op.task_id, executor.task)
        /\ pending_operations' = pending_operations \cup {executor.op}
        /\ executor' = [at |-> "waiting"] /\ next_task_id' = next_task_id
    BY <1>5 DEF ExecutorWritten, ExecutorAt
  <2>4. /\ DOMAIN active_tasks' =
             DOMAIN active_tasks \cup {executor.op.task_id}
        /\ \A id \in DOMAIN active_tasks' : active_tasks'[id] \in Tasks
    BY <2>2, <2>3 DEF Inserted, TypeOK
  <2>5. InFlight' = {} BY <2>3 DEF InFlight
  <2> QED BY <2>1, <2>2, <2>3, <2>4, <2>5 DEF TypeOK
<1> QED
  BY <1>1, <1>2, <1>3, <1>4, <1>5
     DEF Next, vars, Tick, Upgrade, RequestLock, StateRequest, state_handler,
         StateCancel, WriterRecv, WriterSend, Disconnect, quit_handler,
         BeginShutdown, ServerDown, Ended

LEMMA TypePreserved ==
  ASSUME TypeOK, QueueMirrorsWaiters, [Next]_vars
  PROVE  TypeOK'
<1>1. now' \in Instants
  BY DEF Next, vars, TypeOK, Tick, Upgrade, RequestLock, schedule,
         StateRequest, state_handler, StateCancel, WriterRecv, WriterSend,
         Disconnect, ExecutorWake, ExecutorBreak, ExecutorStep,
         ExecutorWritten, quit_handler, BeginShutdown, ServerDown, Ended
<1>2. server' \in {"up", "quitting", "draining", "down"}
  BY DEF Next, vars, TypeOK, Tick, Upgrade, RequestLock, schedule,
         StateRequest, state_handler, StateCancel, WriterRecv, WriterSend,
         Disconnect, ExecutorWake, ExecutorBreak, ExecutorStep,
         ExecutorWritten, quit_handler, BeginShutdown, ServerDown, Ended
<1>3. TypeOK' <=> /\ now' \in Instants
                  /\ FsmType' /\ ObserversType' /\ SessionsType' /\ WritersType'
                  /\ WrittenType'
                  /\ fsm_waiters' \in Seq(Actors)
                  /\ server' \in {"up", "quitting", "draining", "down"}
  BY DEF TypeOK, FsmType, ObserversType, SessionsType, WritersType, WrittenType
<1> QED
  BY <1>1, <1>2, <1>3, FsmTypePreserved, ObserversTypePreserved,
     SessionsTypePreserved, WritersTypePreserved, WrittenTypePreserved,
     QueuePreserved

(* The types and the queue need each other: that a cancelled request of    *)
(* /state leaves a queue of actors rests on its being in it.               *)
LEMMA InitQueue == Init => QueueMirrorsWaiters
BY DEF Init, QueueMirrorsWaiters, Members, Distinct, AwaitingLock, Idle,
       ExecutorAt

(* Type correctness: what every variable of the program may hold, among it *)
(* that no channel exceeds its capacity and no task id outruns its counter.*)
THEOREM TypeCorrect == Spec => []TypeOK
<1>1. Init => TypeOK /\ QueueMirrorsWaiters BY InitType, InitQueue
<1>2. TypeOK /\ QueueMirrorsWaiters /\ [Next]_vars
        => (TypeOK /\ QueueMirrorsWaiters)'
  BY TypePreserved, QueuePreserved
<1> QED BY <1>1, <1>2, PTL DEF Spec

(* The queue of the Mutex holds exactly who awaits it, each once.          *)
LEMMA QueueKept == Spec => []QueueMirrorsWaiters
<1>1. Init => TypeOK /\ QueueMirrorsWaiters BY InitType, InitQueue
<1>2. TypeOK /\ QueueMirrorsWaiters /\ [Next]_vars
        => (TypeOK /\ QueueMirrorsWaiters)'
  BY TypePreserved, QueuePreserved
<1> QED BY <1>1, <1>2, PTL DEF Spec

-----------------------------------------------------------------------------
(* The heap of pending operations and the map of active tasks.             *)

LEMMA MirrorPreserved ==
  ASSUME TypeOK, QueueMirrorsWaiters, PendingMirrorsActive, [Next]_vars
  PROVE  PendingMirrorsActive'
<1> USE DEF PendingMirrorsActive
<1>1. CASE UNCHANGED <<fsm, InFlight>>
  BY <1>1 DEF fsm, TaskIdsOf
<1>2. ASSUME NEW c \in Clients, schedule(c) PROVE PendingMirrorsActive'
  <2> DEFINE task == NewTask(c, sessions[c].request)
             op == [scheduled_timestamp |-> sessions[c].ts,
                    task_id |-> next_task_id]
  <2>1. /\ DOMAIN active_tasks' = DOMAIN active_tasks \cup {next_task_id}
        /\ pending_operations' = pending_operations \cup {op}
        /\ op.task_id = next_task_id
        /\ InFlight' = InFlight
    BY <1>2 DEF schedule, Inserted, InFlight
  <2>2. next_task_id \notin DOMAIN active_tasks \cup InFlight
    BY DEF TypeOK
  <2> HIDE DEF op
  <2>3. TaskIdsOf(pending_operations') =
          TaskIdsOf(pending_operations) \cup {next_task_id}
    BY <2>1 DEF TaskIdsOf
  <2>4. \A p \in pending_operations : p.task_id # next_task_id
    BY <2>2 DEF TaskIdsOf
  <2> QED BY <2>1, <2>2, <2>3, <2>4
<1>3. CASE ExecutorStep
  <2>1. PICK op \in Due : StepsTask(op, OutcomeOf(op))
    BY <1>3, ExecutorStepCases
  <2> DEFINE outcome == OutcomeOf(op)
  <2>2. op \in pending_operations /\ OutcomeOK(outcome)
    BY OutcomeOfType DEF Due, Earliest
  <2>3. InFlight = {} /\ executor.at = "waiting"
    BY <1>3, ExecutorAwaits DEF ExecutorStep, InFlight
  <2>4. /\ op.task_id \in DOMAIN active_tasks
        /\ \A p \in pending_operations : p.task_id = op.task_id => p = op
    BY <2>2 DEF TaskIdsOf
  <2>5. ExecutorContinue(op, outcome) \/ ExecutorTakeOut(op, outcome)
    BY <2>1 DEF StepsTask
  <2> HIDE DEF outcome
  <2>6. CASE ExecutorContinue(op, outcome)
    <3> DEFINE later == Postponed(op, outcome.ms)
    <3>1. /\ DOMAIN active_tasks' = DOMAIN active_tasks
          /\ pending_operations' = (pending_operations \ {op}) \cup {later}
          /\ InFlight' = {}
      BY <2>3, <2>6 DEF ExecutorContinue, InFlight
    <3>2. later.task_id = op.task_id
      BY <2>2, PostponedType DEF TypeOK, OutcomeOK
    <3> HIDE DEF later
    <3>3. TaskIdsOf(pending_operations') = TaskIdsOf(pending_operations)
      BY <2>2, <2>4, <3>1, <3>2 DEF TaskIdsOf
    <3> QED BY <2>4, <3>1, <3>2, <3>3
  <2>7. CASE ExecutorTakeOut(op, outcome)
    <3>1. /\ DOMAIN active_tasks' = DOMAIN active_tasks \ {op.task_id}
          /\ pending_operations' = pending_operations \ {op}
      BY <2>7 DEF ExecutorTakeOut, Removed
    <3>2. TaskIdsOf(pending_operations') =
            TaskIdsOf(pending_operations) \ {op.task_id}
      BY <2>2, <2>4, <3>1 DEF TaskIdsOf
    <3>3. InFlight' \subseteq {op.task_id}
      <4>1. CASE outcome.do = "Write"
        <5>1. executor' = [at |-> "writing", op |-> op,
                           task |-> Stepped(op, outcome),
                           text |-> outcome.text]
          BY <2>7, <4>1 DEF ExecutorTakeOut
        <5> QED BY <5>1 DEF InFlight
      <4>2. CASE outcome.do # "Write"
        <5>1. executor'.at # "writing"
          BY <2>3, <2>7, <4>2 DEF ExecutorTakeOut, ExecutorAt
        <5> QED BY <5>1 DEF InFlight
      <4> QED BY <4>1, <4>2
    <3> QED BY <3>1, <3>2, <3>3
  <2> QED BY <2>5, <2>6, <2>7
<1>4. CASE ExecutorWritten
  <2> DEFINE id == executor.op.task_id
  <2>1. InFlight = {id} /\ InFlight' = {}
    BY <1>4 DEF ExecutorWritten, ExecutorAt, InFlight
  <2>2. /\ DOMAIN active_tasks' = DOMAIN active_tasks \cup {id}
        /\ pending_operations' = pending_operations \cup {executor.op}
    BY <1>4 DEF ExecutorWritten, Inserted
  <2>3. TaskIdsOf(pending_operations') = TaskIdsOf(pending_operations) \cup {id}
    BY <2>2 DEF TaskIdsOf
  <2>4. \A p \in pending_operations : p.task_id # executor.op.task_id
    BY <2>1 DEF TaskIdsOf
  <2> QED BY <2>1, <2>2, <2>3, <2>4
<1>5. CASE ExecutorWake \/ ExecutorBreak
  <2>1. InFlight' = {}
    BY <1>5 DEF ExecutorWake, ExecutorBreak, ExecutorAt, InFlight
  <2>2. InFlight = {}
    BY <1>5 DEF ExecutorWake, ExecutorBreak, Acquires, InFlight
  <2> QED BY <1>1, <1>5, <2>1, <2>2 DEF ExecutorWake, ExecutorBreak
<1> QED
  BY <1>1, <1>2, <1>3, <1>4, <1>5
     DEF Next, vars, InFlight, Tick, Upgrade, RequestLock, StateRequest,
         state_handler, StateCancel, WriterRecv, WriterSend, Disconnect,
         quit_handler, BeginShutdown, ServerDown, Ended

(* `.expect()` in the executor always finds the task it looks up: in every *)
(* state each pending operation has its active task and each active task   *)
(* one pending operation.                                                  *)
THEOREM MirrorCorrect == Spec => []PendingMirrorsActive
<1>1. Init => PendingMirrorsActive
  BY DEF Init, PendingMirrorsActive, TaskIdsOf, InFlight, ExecutorAt
<1>2. PendingMirrorsActive /\ TypeOK /\ QueueMirrorsWaiters /\ [Next]_vars
        => PendingMirrorsActive'
  BY MirrorPreserved
<1> QED BY <1>1, <1>2, TypeCorrect, QueueKept, PTL DEF Spec

-----------------------------------------------------------------------------
(* The stacks, and the absence of panics.                                  *)

(* A pending operation's task is stepped without a panic, into a shape.    *)
LEMMA StepIsGood ==
  ASSUME TypeOK, PendingMirrorsActive, StacksWellShaped, NEW op \in Due
  PROVE  /\ op.task_id \in DOMAIN active_tasks
         /\ OutcomeOf(op).do # "Panic"
         /\ OutcomeOf(op).do # "Done" =>
              WellShaped(Stepped(op, OutcomeOf(op)).maroon_stack,
                         Stepped(op, OutcomeOf(op)).maroon_heap)
<1> DEFINE task == active_tasks[op.task_id]
<1>1. op.task_id \in DOMAIN active_tasks
  BY DEF Due, Earliest, PendingMirrorsActive, TaskIdsOf
<1>2. /\ task.maroon_stack \in Seq(StackEntries) /\ task.maroon_heap \in Heaps
      /\ WellShaped(task.maroon_stack, task.maroon_heap)
  BY <1>1 DEF TypeOK, Tasks, StacksWellShaped
<1>3. OutcomeOf(op) = Advance(task.maroon_stack, task.maroon_heap)
  BY <1>1 DEF OutcomeOf
<1>4. /\ OutcomeOf(op).do # "Panic"
      /\ OutcomeOf(op).do # "Done" =>
           WellShaped(OutcomeOf(op).stack, OutcomeOf(op).heap)
  BY <1>2, <1>3, AdvanceShape
<1>5. /\ Stepped(op, OutcomeOf(op)).maroon_stack = OutcomeOf(op).stack
      /\ Stepped(op, OutcomeOf(op)).maroon_heap = OutcomeOf(op).heap
  BY <1>1, OutcomeOfType, SteppedType
<1> QED BY <1>1, <1>4, <1>5

LEMMA ShapesPreserved ==
  ASSUME TypeOK, QueueMirrorsWaiters, PendingMirrorsActive, StacksWellShaped,
         [Next]_vars
  PROVE  StacksWellShaped'
<1> USE DEF StacksWellShaped
<1>1. CASE UNCHANGED <<active_tasks, executor>> BY <1>1
<1>2. CASE UNCHANGED active_tasks /\ executor'.at # "writing" BY <1>2
<1>3. ASSUME NEW c \in Clients, schedule(c) PROVE StacksWellShaped'
  <2> DEFINE task == NewTask(c, sessions[c].request)
  <2>1. WellShaped(task.maroon_stack, task.maroon_heap)
    BY <1>3, WaitingRequest, NewTaskType DEF schedule
  <2>2. /\ active_tasks' = Inserted(active_tasks, next_task_id, task)
        /\ executor' = executor
    BY <1>3 DEF schedule
  <2> HIDE DEF task
  <2> QED BY <2>1, <2>2 DEF Inserted
<1>4. CASE ExecutorStep
  <2>1. PICK op \in Due : StepsTask(op, OutcomeOf(op))
    BY <1>4, ExecutorStepCases
  <2> DEFINE outcome == OutcomeOf(op)
             task == Stepped(op, outcome)
  <2>2. executor.at = "waiting"
    BY <1>4, ExecutorAwaits DEF ExecutorStep
  <2>3. /\ op.task_id \in DOMAIN active_tasks
        /\ outcome.do # "Done" =>
             WellShaped(task.maroon_stack, task.maroon_heap)
    BY StepIsGood
  <2>4. ExecutorContinue(op, outcome) \/ ExecutorTakeOut(op, outcome)
    BY <2>1 DEF StepsTask
  <2> HIDE DEF outcome
  <2>5. CASE ExecutorContinue(op, outcome)
    <3>1. /\ active_tasks' = [active_tasks EXCEPT ![op.task_id] = task]
          /\ executor'.at # "writing" /\ outcome.do # "Done"
      BY <2>2, <2>5 DEF ExecutorContinue
    <3> HIDE DEF task
    <3> QED BY <2>3, <3>1
  <2>6. CASE ExecutorTakeOut(op, outcome)
    <3>1. \A id \in DOMAIN active_tasks' :
            id \in DOMAIN active_tasks /\ active_tasks'[id] = active_tasks[id]
      BY <2>6 DEF ExecutorTakeOut, Removed
    <3>2. CASE outcome.do = "Write"
      <4>1. executor' = [at |-> "writing", op |-> op, task |-> task,
                         text |-> outcome.text]
        BY <2>6, <3>2 DEF ExecutorTakeOut
      <4> HIDE DEF task
      <4> QED BY <2>3, <3>1, <3>2, <4>1
    <3>3. CASE outcome.do # "Write"
      <4>1. executor'.at # "writing"
        BY <2>2, <2>6, <3>3 DEF ExecutorTakeOut, ExecutorAt
      <4> QED BY <3>1, <4>1
    <3> QED BY <3>2, <3>3
  <2> QED BY <2>4, <2>5, <2>6
<1>5. CASE ExecutorWritten
  <2>1. /\ active_tasks' =
             Inserted(active_tasks, executor.op.task_id, executor.task)
        /\ executor'.at # "writing" /\ executor.at = "writing"
    BY <1>5 DEF ExecutorWritten, ExecutorAt
  <2> QED BY <2>1 DEF Inserted
<1>6. CASE ExecutorWake \/ ExecutorBreak
  BY <1>2, <1>6 DEF ExecutorWake, ExecutorBreak, ExecutorAt, fsm
<1> HIDE DEF StacksWellShaped
<1> QED
  BY <1>1, <1>3, <1>4, <1>5, <1>6
     DEF Next, vars, fsm, Tick, Upgrade, RequestLock, StateRequest,
         state_handler, StateCancel, WriterRecv, WriterSend, Disconnect,
         quit_handler, BeginShutdown, ServerDown, Ended

(* Every task in the map, and the one being written for, has one of the    *)
(* shapes that the arms of global_step build.                              *)
THEOREM ShapesCorrect == Spec => []StacksWellShaped
<1>1. Init => StacksWellShaped
  BY DEF Init, StacksWellShaped, ExecutorAt
<1>2. StacksWellShaped /\ TypeOK /\ QueueMirrorsWaiters
        /\ PendingMirrorsActive /\ [Next]_vars
        => StacksWellShaped'
  BY ShapesPreserved
<1> QED
  BY <1>1, <1>2, TypeCorrect, QueueKept, MirrorCorrect, PTL DEF Spec

(* What the validator of the test build checks before and after each step  *)
(* always holds, however deep the recursion of a factorial is.             *)
THEOREM ValidateCorrect == Spec => []StacksValidate
<1>1. TypeOK /\ StacksWellShaped => StacksValidate
  <2> SUFFICES ASSUME TypeOK, StacksWellShaped PROVE StacksValidate OBVIOUS
  <2>1. ASSUME NEW id \in DOMAIN active_tasks
        PROVE  debug_validate_maroon_stack(active_tasks[id].maroon_stack)
    <3>1. active_tasks[id].maroon_stack \in Seq(StackEntries)
      BY DEF TypeOK, Tasks
    <3> QED BY <3>1, ShapeValidates DEF StacksWellShaped
  <2>2. ASSUME executor.at = "writing"
        PROVE  debug_validate_maroon_stack(executor.task.maroon_stack)
    <3>1. executor.task.maroon_stack \in Seq(StackEntries)
      BY <2>2 DEF TypeOK, Writing, Tasks
    <3> QED BY <2>2, <3>1, ShapeValidates DEF StacksWellShaped
  <2> QED BY <2>1, <2>2 DEF StacksValidate
<1> QED BY <1>1, TypeCorrect, ShapesCorrect, PTL

(* The executor never panics: no `.expect()`, no pattern of `global_step`  *)
(* and no missing `Retrn` entry ends the process, whatever the clients ask *)
(* for, also where the arithmetic wraps.                                   *)
THEOREM NeverPanics == Spec => []NoPanic
<1>1. Init => NoPanic BY DEF Init, NoPanic, ExecutorAt
<1>2. NoPanic /\ TypeOK /\ QueueMirrorsWaiters /\ PendingMirrorsActive
        /\ StacksWellShaped /\ [Next]_vars
        => NoPanic'
  <2> SUFFICES ASSUME NoPanic, TypeOK, QueueMirrorsWaiters,
                      PendingMirrorsActive, StacksWellShaped, [Next]_vars
               PROVE  NoPanic'
    OBVIOUS
  <2>1. CASE ExecutorStep
    <3>1. PICK op \in Due : StepsTask(op, OutcomeOf(op))
      BY <2>1, ExecutorStepCases
    <3>2. OutcomeOf(op).do # "Panic" BY StepIsGood
    <3>3. \/ ExecutorContinue(op, OutcomeOf(op))
          \/ ExecutorTakeOut(op, OutcomeOf(op))
      BY <3>1 DEF StepsTask
    <3> DEFINE outcome == OutcomeOf(op)
    <3> HIDE DEF outcome
    <3>4. CASE ExecutorContinue(op, outcome)
      BY <3>4 DEF ExecutorContinue, NoPanic
    <3>5. CASE ExecutorTakeOut(op, outcome)
      <4>1. outcome.do # "Panic" BY <3>2 DEF outcome
      <4> QED BY <3>5, <4>1 DEF ExecutorTakeOut, NoPanic
    <3> QED BY <3>3, <3>4, <3>5 DEF outcome
  <2>2. CASE UNCHANGED executor BY <2>2 DEF NoPanic
  <2>3. CASE ExecutorWake \/ ExecutorBreak \/ ExecutorWritten
    BY <2>3
    DEF ExecutorWake, ExecutorBreak, ExecutorWritten, ExecutorAt, NoPanic
  <2> QED
    BY <2>1, <2>2, <2>3
       DEF Next, vars, Tick, Upgrade, RequestLock, schedule, StateRequest,
           state_handler, StateCancel, WriterRecv, WriterSend, Disconnect,
           quit_handler, BeginShutdown, ServerDown, Ended
<1> QED
  BY <1>1, <1>2, TypeCorrect, QueueKept, MirrorCorrect, ShapesCorrect, PTL
     DEF Spec

(* What /state shows is every live task, never missing the one the         *)
(* executor has taken out of the map: the Mutex is held across the write.  *)
THEOREM StateCorrect == Spec => StateListsLiveTasks
<1> DEFINE Lists ==
      \A o \in Observers :
        observers[o].at = "waiting" /\ observers'[o].at = "answered"
          => observers'[o].shown = DOMAIN active_tasks \cup InFlight
<1>1. TypeOK /\ [Next]_vars => [Lists]_vars
  <2> SUFFICES ASSUME TypeOK, Next PROVE Lists OBVIOUS
  <2>1. ASSUME NEW o \in Observers, state_handler(o) PROVE Lists
    <3>1. InFlight = {} BY <2>1 DEF state_handler, Acquires, InFlight
    <3> QED BY <2>1, <3>1 DEF state_handler, TypeOK
  <2>2. ASSUME NEW o \in Observers, StateRequest(o) \/ StateCancel(o)
        PROVE  Lists
    BY <2>2 DEF StateRequest, StateCancel, TypeOK
  <2>3. CASE UNCHANGED observers BY <2>3
  <2> QED
    BY <2>1, <2>2, <2>3
       DEF Next, vars, Tick, Upgrade, RequestLock, schedule, WriterRecv,
           WriterSend, Disconnect, ExecutorWake, ExecutorBreak, ExecutorStep,
           ExecutorWritten, quit_handler, BeginShutdown, ServerDown, Ended
<1> QED BY <1>1, TypeCorrect, PTL DEF Spec, StateListsLiveTasks

-----------------------------------------------------------------------------
(* The order of the texts.  A handler reads the timer before it waits for  *)
(* the Mutex, so a task may come into the heap after later texts were      *)
(* written; `born` is how many there were.  The order holds as long as no  *)
(* timestamp goes back: a sleep past the largest `u64` wraps around.       *)

(* No task sleeps past the largest `u64`.                                  *)
NoSleepWraps ==
  \A op \in Due :
    OutcomeOf(op).do \in {"Next", "Sleep"} =>
      op.scheduled_timestamp + OutcomeOf(op).ms < WORD

(* Who has a task, or had one, was scheduled, and that is the last its     *)
(* handler does.                                                           *)
AllScheduled ==
  /\ \A id \in DOMAIN active_tasks :
       sessions[active_tasks[id].client].at = "scheduled"
  /\ executor.at = "writing" =>
       sessions[executor.task.client].at = "scheduled"
  /\ \A j \in DOMAIN written :
       sessions[written[j].client].at = "scheduled"

(* The texts that are later than ts were written before the task of the    *)
(* session was scheduled.                                                  *)
BornSince(texts, session, ts) ==
  \A i \in DOMAIN texts : ts < texts[i].at => session.born >= i

SessionOf(id) == sessions[active_tasks[id].client]

PendingSince ==
  \A op \in pending_operations :
    BornSince(written, SessionOf(op.task_id), op.scheduled_timestamp)

(* While the executor writes, no pending operation is earlier.             *)
WritingIsEarliest ==
  executor.at = "writing" =>
    /\ \A op \in pending_operations :
         executor.op.scheduled_timestamp <= op.scheduled_timestamp
    /\ BornSince(written, sessions[executor.task.client],
                 executor.op.scheduled_timestamp)

OrderInv ==
  AllScheduled /\ PendingSince /\ WritingIsEarliest /\ OrderedUnlessLate

LEMMA InitOrder == Init => OrderInv
BY DEF Init, OrderInv, AllScheduled, PendingSince, WritingIsEarliest,
       OrderedUnlessLate, ExecutorAt

(* A scheduled session stays as it is.                                     *)
LEMMA ScheduledStays ==
  ASSUME TypeOK, [Next]_vars,
         NEW c \in Clients, sessions[c].at = "scheduled"
  PROVE  sessions'[c] = sessions[c]
BY DEF TypeOK, Next, vars, Tick, Upgrade, RequestLock, schedule, StateRequest,
       state_handler, StateCancel, WriterRecv, WriterSend, Disconnect,
       ExecutorWake, ExecutorBreak, ExecutorStep, ExecutorWritten,
       quit_handler, BeginShutdown, ServerDown, Ended

(* The clients of the tasks, and the timestamps, are what they should be.  *)
LEMMA OrderTypes ==
  ASSUME TypeOK, PendingMirrorsActive
  PROVE  /\ \A id \in DOMAIN active_tasks : active_tasks[id].client \in Clients
         /\ \A op \in pending_operations :
              /\ op.scheduled_timestamp \in Nat
              /\ op.task_id \in DOMAIN active_tasks
         /\ executor.at = "writing" =>
              /\ executor.task.client \in Clients
              /\ executor.op.scheduled_timestamp \in Nat
              /\ executor.op.task_id \notin DOMAIN active_tasks
         /\ \A j \in DOMAIN written :
              written[j].client \in Clients /\ written[j].at \in Nat
         /\ Len(written) \in Nat /\ DOMAIN written = 1 .. Len(written)
<1>1. \A id \in DOMAIN active_tasks : active_tasks[id].client \in Clients
  BY DEF TypeOK, Tasks
<1>2. \A op \in pending_operations :
        /\ op.scheduled_timestamp \in Nat
        /\ op.task_id \in DOMAIN active_tasks
  BY DEF TypeOK, Operations, Word, PendingMirrorsActive, TaskIdsOf
<1>3. executor.at = "writing" =>
        /\ executor.task.client \in Clients
        /\ executor.op.scheduled_timestamp \in Nat
        /\ executor.op.task_id \notin DOMAIN active_tasks
  BY DEF TypeOK, Writing, Tasks, Operations, Word, PendingMirrorsActive,
         InFlight
<1>4. /\ \A j \in DOMAIN written :
           written[j].client \in Clients /\ written[j].at \in Nat
      /\ Len(written) \in Nat /\ DOMAIN written = 1 .. Len(written)
  <2> DEFINE Entries == [client : Clients, text : Texts, at : Word]
  <2>1. /\ \A j \in DOMAIN written : written[j] \in Entries
        /\ Len(written) \in Nat /\ DOMAIN written = 1 .. Len(written)
    <3>1. written \in Seq(Entries) BY DEF TypeOK
    <3> HIDE DEF Entries
    <3> QED BY <3>1, ElementOfSeq, LenProperties
  <2> QED BY <2>1 DEF Word
<1> QED BY <1>1, <1>2, <1>3, <1>4

(* A step after which nothing is pending, active or being written for that *)
(* was not so before, and that writes nothing.                             *)
LEMMA OrderKept ==
  ASSUME TypeOK, PendingMirrorsActive, OrderInv, [Next]_vars,
         UNCHANGED <<active_tasks, pending_operations, written>>,
         executor'.at = "writing" => executor' = executor
  PROVE  OrderInv'
<1>1. AllScheduled'
  BY OrderTypes, ScheduledStays DEF OrderInv, AllScheduled
<1>2. PendingSince'
  BY OrderTypes, ScheduledStays
     DEF OrderInv, AllScheduled, PendingSince, SessionOf
<1>3. WritingIsEarliest'
  BY OrderTypes, ScheduledStays
     DEF OrderInv, AllScheduled, WritingIsEarliest
<1>4. OrderedUnlessLate'
  BY OrderTypes, ScheduledStays DEF OrderInv, AllScheduled, OrderedUnlessLate
<1> QED BY <1>1, <1>2, <1>3, <1>4 DEF OrderInv

(* The new task is younger than every text.                                *)
LEMMA OrderScheduled ==
  ASSUME TypeOK, PendingMirrorsActive, OrderInv, NEW c \in Clients, schedule(c)
  PROVE  OrderInv'
<1> DEFINE id == next_task_id
           task == NewTask(c, sessions[c].request)
           op == [scheduled_timestamp |-> sessions[c].ts, task_id |-> id]
<1>1. /\ task.client = c /\ op.task_id = id
      /\ active_tasks' = Inserted(active_tasks, id, task)
      /\ pending_operations' = pending_operations \cup {op}
      /\ written' = written /\ executor' = executor
      /\ executor.at # "writing"
  BY DEF schedule, NewTask, Acquires
<1>2. /\ sessions'[c].at = "scheduled" /\ sessions'[c].born = Len(written)
      /\ \A d \in Clients :
           sessions[d].at = "scheduled" => sessions'[d] = sessions[d]
  BY DEF schedule, TypeOK
<1> HIDE DEF task, op
<1>3. /\ DOMAIN active_tasks' = DOMAIN active_tasks \cup {id}
      /\ active_tasks'[id] = task
      /\ \A i \in DOMAIN active_tasks : active_tasks'[i] = active_tasks[i]
      /\ id \notin DOMAIN active_tasks
  BY <1>1 DEF Inserted, TypeOK
<1> HIDE DEF id
<1>4. AllScheduled'
  BY <1>1, <1>2, <1>3, OrderTypes DEF OrderInv, AllScheduled
<1>5. PendingSince'
  <2>1. \A i \in DOMAIN written : sessions'[c].born >= i
    BY <1>2, OrderTypes
  <2>2. BornSince(written', sessions'[active_tasks'[id].client],
                  op.scheduled_timestamp)
    BY <1>1, <1>3, <2>1 DEF BornSince
  <2>3. ASSUME NEW p \in pending_operations
        PROVE  BornSince(written', SessionOf(p.task_id)',
                         p.scheduled_timestamp)
    <3> DEFINE d == active_tasks[p.task_id].client
    <3>1. /\ p.task_id \in DOMAIN active_tasks /\ d \in Clients
          /\ sessions[d].at = "scheduled"
          /\ BornSince(written, sessions[d], p.scheduled_timestamp)
      BY OrderTypes DEF OrderInv, AllScheduled, PendingSince, SessionOf
    <3>2. active_tasks'[p.task_id].client = d BY <1>3, <3>1
    <3>3. sessions'[d] = sessions[d] BY <1>2, <3>1
    <3> QED BY <1>1, <3>1, <3>2, <3>3 DEF SessionOf
  <2>4. \A p \in pending_operations' : p = op \/ p \in pending_operations
    BY <1>1
  <2> SUFFICES ASSUME NEW p \in pending_operations'
               PROVE  BornSince(written',
                                sessions'[active_tasks'[p.task_id].client],
                                p.scheduled_timestamp)
    BY DEF PendingSince, SessionOf
  <2> QED BY <1>1, <2>2, <2>3, <2>4 DEF SessionOf
<1>6. WritingIsEarliest' BY <1>1 DEF WritingIsEarliest
<1>7. OrderedUnlessLate'
  BY <1>1, <1>2, OrderTypes DEF OrderInv, AllScheduled, OrderedUnlessLate
<1> QED BY <1>4, <1>5, <1>6, <1>7 DEF OrderInv

(* An operation that goes back into the heap does so no earlier.           *)
LEMMA PostponedIsLater ==
  ASSUME NEW op \in Operations, NEW ms \in Word,
         op.scheduled_timestamp + ms < WORD
  PROVE  /\ Postponed(op, ms).task_id = op.task_id
         /\ Postponed(op, ms).scheduled_timestamp = op.scheduled_timestamp + ms
         /\ op.scheduled_timestamp <= Postponed(op, ms).scheduled_timestamp
<1> DEFINE ts == op.scheduled_timestamp
<1>1. ts \in Nat /\ ms \in Nat /\ WORD \in Nat
  BY WordAssumption DEF Operations, Word
<1>2. Postponed(op, ms).task_id = op.task_id
      /\ Postponed(op, ms).scheduled_timestamp = Wrap(ts + ms)
  BY DEF Postponed, Operations
<1> HIDE DEF ts
<1>3. (ts + ms) % WORD = ts + ms
  <2>1. ts + ms \in 0 .. WORD - 1 BY <1>1 DEF ts
  <2> QED BY ONLY <1>1, <2>1
<1> QED BY <1>1, <1>2, <1>3 DEF Wrap, ts

LEMMA OrderStepped ==
  ASSUME TypeOK, QueueMirrorsWaiters, PendingMirrorsActive, OrderInv,
         NoSleepWraps, ExecutorStep
  PROVE  OrderInv'
<1>1. PICK op \in Due : StepsTask(op, OutcomeOf(op))
  BY ExecutorStepCases
<1> DEFINE outcome == OutcomeOf(op)
           task == Stepped(op, outcome)
<1>2. /\ op \in Operations /\ op \in pending_operations /\ OutcomeOK(outcome)
      /\ \A p \in pending_operations :
           op.scheduled_timestamp <= p.scheduled_timestamp
  BY OutcomeOfType DEF Due, Earliest
<1>3. executor.at = "waiting" BY ExecutorAwaits DEF ExecutorStep
<1>4. /\ op.task_id \in DOMAIN active_tasks
      /\ \A p \in pending_operations : p.task_id = op.task_id => p = op
  BY <1>2 DEF PendingMirrorsActive, TaskIdsOf
<1>5. task.client = active_tasks[op.task_id].client
  BY <1>4 DEF Stepped, TypeOK, Tasks
<1>6. /\ sessions' = sessions /\ written' = written
      /\ ExecutorContinue(op, outcome) \/ ExecutorTakeOut(op, outcome)
  BY <1>1 DEF StepsTask
<1>7. outcome.do \in {"Next", "Sleep"} =>
        op.scheduled_timestamp + outcome.ms < WORD
  BY DEF NoSleepWraps
<1> HIDE DEF outcome, task
<1>8. OrderedUnlessLate' BY <1>6 DEF OrderInv, OrderedUnlessLate
<1>9. CASE ExecutorContinue(op, outcome)
  <2> DEFINE later == Postponed(op, outcome.ms)
  <2>1. /\ later.task_id = op.task_id
        /\ op.scheduled_timestamp <= later.scheduled_timestamp
        /\ later.scheduled_timestamp \in Nat
        /\ op.scheduled_timestamp \in Nat
    <3>1. outcome.ms \in Word /\ op.scheduled_timestamp + outcome.ms < WORD
      BY <1>2, <1>7, <1>9 DEF ExecutorContinue, OutcomeOK
    <3>2. /\ later.task_id = op.task_id
          /\ op.scheduled_timestamp <= later.scheduled_timestamp
      BY <1>2, <3>1, PostponedIsLater
    <3>3. later \in Operations BY <1>2, <3>1, PostponedType
    <3> HIDE DEF later
    <3> QED BY <1>2, <3>2, <3>3 DEF Operations, Word
  <2>2. /\ active_tasks' = [active_tasks EXCEPT ![op.task_id] = task]
        /\ pending_operations' = (pending_operations \ {op}) \cup {later}
        /\ executor' = executor
    BY <1>9 DEF ExecutorContinue, task
  <2> HIDE DEF later
  <2>3. /\ DOMAIN active_tasks' = DOMAIN active_tasks
        /\ \A id \in DOMAIN active_tasks :
             active_tasks'[id].client = active_tasks[id].client
    BY <1>4, <1>5, <2>2
  <2>4. AllScheduled' BY <1>3, <1>6, <2>2, <2>3 DEF OrderInv, AllScheduled
  <2>5. PendingSince'
    <3>1. \A p \in pending_operations :
            /\ p.task_id \in DOMAIN active_tasks
            /\ BornSince(written, SessionOf(p.task_id), p.scheduled_timestamp)
      BY OrderTypes DEF OrderInv, PendingSince
    <3>2. \A id \in DOMAIN active_tasks : SessionOf(id)' = SessionOf(id)
      BY <1>6, <2>3 DEF SessionOf
    <3>3. \A j \in DOMAIN written : written[j].at \in Nat BY OrderTypes
    <3>4. BornSince(written, SessionOf(op.task_id), later.scheduled_timestamp)
      BY <1>2, <2>1, <3>1, <3>3 DEF BornSince
    <3>5. \A p \in pending_operations' : p = later \/ p \in pending_operations
      BY <2>2
    <3> SUFFICES ASSUME NEW p \in pending_operations'
                 PROVE  BornSince(written', SessionOf(p.task_id)',
                                  p.scheduled_timestamp)
      BY DEF PendingSince, SessionOf
    <3> QED BY <1>4, <1>6, <2>1, <3>1, <3>2, <3>4, <3>5
  <2>6. WritingIsEarliest' BY <1>3, <2>2 DEF WritingIsEarliest
  <2> QED BY <1>8, <2>4, <2>5, <2>6 DEF OrderInv
<1>10. CASE ExecutorTakeOut(op, outcome)
  <2>1. /\ active_tasks' = Removed(active_tasks, op.task_id)
        /\ pending_operations' = pending_operations \ {op}
    BY <1>10 DEF ExecutorTakeOut
  <2>2. /\ DOMAIN active_tasks' = DOMAIN active_tasks \ {op.task_id}
        /\ \A id \in DOMAIN active_tasks' :
             active_tasks'[id] = active_tasks[id]
    BY <2>1 DEF Removed
  <2>3. executor'.at = "writing" => executor'.op = op /\ executor'.task = task
    <3>1. CASE outcome.do = "Write"
      BY <1>10, <3>1 DEF ExecutorTakeOut, task
    <3>2. CASE outcome.do # "Write"
      BY <1>3, <1>10, <3>2 DEF ExecutorTakeOut, ExecutorAt
    <3> QED BY <3>1, <3>2
  <2>4. AllScheduled'
    BY <1>4, <1>5, <1>6, <2>2, <2>3 DEF OrderInv, AllScheduled
  <2>5. PendingSince'
    <3>1. \A p \in pending_operations' :
            p.task_id \in DOMAIN active_tasks' /\ p \in pending_operations
      BY <1>4, <2>1, <2>2, OrderTypes
    <3>2. \A id \in DOMAIN active_tasks' : SessionOf(id)' = SessionOf(id)
      BY <1>6, <2>2 DEF SessionOf
    <3> SUFFICES ASSUME NEW p \in pending_operations'
                 PROVE  BornSince(written', SessionOf(p.task_id)',
                                  p.scheduled_timestamp)
      BY DEF PendingSince, SessionOf
    <3> QED BY <1>6, <3>1, <3>2 DEF OrderInv, PendingSince
  <2>6. WritingIsEarliest'
    <3>1. BornSince(written, sessions[task.client], op.scheduled_timestamp)
      BY <1>2, <1>5 DEF OrderInv, PendingSince, SessionOf
    <3> QED BY <1>2, <1>6, <2>1, <2>3, <3>1 DEF WritingIsEarliest
  <2> QED BY <1>8, <2>4, <2>5, <2>6 DEF OrderInv
<1> QED BY <1>6, <1>9, <1>10

(* The text is written at the timestamp of the earliest operation.         *)
LEMMA OrderWritten ==
  ASSUME TypeOK, PendingMirrorsActive, OrderInv, ExecutorWritten
  PROVE  OrderInv'
<1> DEFINE c == executor.task.client
           id == executor.op.task_id
           ts == executor.op.scheduled_timestamp
           text == [client |-> c, text |-> executor.text, at |-> ts]
<1>1. /\ c \in Clients /\ ts \in Nat /\ id \notin DOMAIN active_tasks
      /\ sessions[c].at = "scheduled"
      /\ BornSince(written, sessions[c], ts)
      /\ \A p \in pending_operations : ts <= p.scheduled_timestamp
  BY OrderTypes
     DEF ExecutorWritten, OrderInv, AllScheduled, WritingIsEarliest
<1>2. /\ active_tasks' = Inserted(active_tasks, id, executor.task)
      /\ pending_operations' = pending_operations \cup {executor.op}
      /\ written' = Append(written, text)
      /\ sessions' = sessions /\ executor'.at = "waiting"
  BY DEF ExecutorWritten, ExecutorAt
<1>3. /\ DOMAIN active_tasks' = DOMAIN active_tasks \cup {id}
      /\ active_tasks'[id].client = c
      /\ \A i \in DOMAIN active_tasks : active_tasks'[i] = active_tasks[i]
  BY <1>1, <1>2 DEF Inserted
<1> DEFINE n == Len(written)
<1>4. /\ n \in Nat /\ DOMAIN written = 1 .. n
      /\ DOMAIN written' = 1 .. (n + 1)
      /\ written'[n + 1].client = c /\ written'[n + 1].at = ts
      /\ \A i \in 1 .. n : written'[i] = written[i]
      /\ \A i \in 1 .. n : /\ written[i].at \in Nat
                           /\ written[i].client \in Clients
  <2>1. text.client = c /\ text.at = ts OBVIOUS
  <2> HIDE DEF text
  <2>2. ASSUME NEW S, NEW s \in Seq(S), NEW e
        PROVE  /\ DOMAIN Append(s, e) = 1 .. (Len(s) + 1)
               /\ Append(s, e)[Len(s) + 1] = e
               /\ \A i \in 1 .. Len(s) : Append(s, e)[i] = s[i]
    OBVIOUS
  <2>3. written \in Seq([client : Clients, text : Texts, at : Word])
    BY DEF TypeOK
  <2> QED BY <1>2, <2>1, <2>2, <2>3, OrderTypes
<1>5. \A p \in pending_operations :
        /\ p.scheduled_timestamp \in Nat
        /\ p.task_id \in DOMAIN active_tasks
  BY OrderTypes
<1>6. executor.op.scheduled_timestamp = ts /\ executor.op.task_id = id
  OBVIOUS
<1> HIDE DEF c, id, ts, text, n
<1>7. \A i \in 1 .. (n + 1) : i = n + 1 \/ i \in 1 .. n BY <1>4
<1>8. ASSUME NEW session, NEW at \in Nat, BornSince(written, session, at),
             ts <= at
      PROVE  BornSince(written', session, at)
  <2> SUFFICES ASSUME NEW i \in 1 .. (n + 1), at < written'[i].at
               PROVE  session.born >= i
    BY <1>4 DEF BornSince
  <2>1. i # n + 1 BY <1>1, <1>4, <1>8
  <2>2. i \in 1 .. n /\ at < written[i].at BY <1>4, <1>7, <2>1
  <2> QED BY <1>4, <1>8, <2>2 DEF BornSince
<1>9. AllScheduled'
  <2>1. \A i \in DOMAIN active_tasks' :
          sessions'[active_tasks'[i].client].at = "scheduled"
    BY <1>1, <1>2, <1>3 DEF OrderInv, AllScheduled
  <2>2. \A j \in DOMAIN written' :
          sessions'[written'[j].client].at = "scheduled"
    BY <1>1, <1>2, <1>4, <1>7 DEF OrderInv, AllScheduled
  <2> QED BY <1>2, <2>1, <2>2 DEF AllScheduled
<1>10. PendingSince'
  <2>1. \A i \in DOMAIN active_tasks : SessionOf(i)' = SessionOf(i)
    BY <1>2, <1>3 DEF SessionOf
  <2>2. sessions'[active_tasks'[id].client] = sessions[c] BY <1>2, <1>3
  <2>3. ASSUME NEW p \in pending_operations
        PROVE  BornSince(written', SessionOf(p.task_id)',
                         p.scheduled_timestamp)
    <3>1. /\ BornSince(written, SessionOf(p.task_id), p.scheduled_timestamp)
          /\ ts <= p.scheduled_timestamp
      BY <1>1 DEF OrderInv, PendingSince
    <3>2. BornSince(written', SessionOf(p.task_id), p.scheduled_timestamp)
      BY <1>5, <1>8, <3>1
    <3> QED BY <1>5, <2>1, <3>2
  <2>4. BornSince(written', sessions'[active_tasks'[id].client], ts)
    BY <1>1, <1>8, <2>2
  <2>5. \A p \in pending_operations' :
          p = executor.op \/ p \in pending_operations
    BY <1>2
  <2> SUFFICES ASSUME NEW p \in pending_operations'
               PROVE  BornSince(written',
                                sessions'[active_tasks'[p.task_id].client],
                                p.scheduled_timestamp)
    BY DEF PendingSince, SessionOf
  <2> QED BY <1>6, <2>3, <2>4, <2>5 DEF SessionOf
<1>11. WritingIsEarliest' BY <1>2 DEF WritingIsEarliest
<1>12. OrderedUnlessLate'
  <2> SUFFICES ASSUME NEW i \in 1 .. (n + 1), NEW j \in 1 .. (n + 1),
                      i < j, written'[j].at < written'[i].at
               PROVE  sessions[written'[j].client].born >= i
    BY <1>2, <1>4 DEF OrderedUnlessLate
  <2>1. i \in 1 .. n BY <1>4
  <2>2. CASE j \in 1 .. n
    BY <1>4, <2>1, <2>2 DEF OrderInv, OrderedUnlessLate
  <2>3. CASE j = n + 1
    BY <1>1, <1>4, <2>1, <2>3 DEF BornSince
  <2> QED BY <1>7, <2>2, <2>3
<1> QED BY <1>9, <1>10, <1>11, <1>12 DEF OrderInv

LEMMA OrderPreserved ==
  ASSUME TypeOK, QueueMirrorsWaiters, PendingMirrorsActive, OrderInv,
         NoSleepWraps, [Next]_vars
  PROVE  OrderInv'
<1>1. CASE UNCHANGED <<fsm, executor, written>>
  BY <1>1, OrderKept DEF fsm
<1>2. CASE ExecutorWake \/ ExecutorBreak
  BY <1>2, OrderKept DEF ExecutorWake, ExecutorBreak, ExecutorAt, fsm
<1> QED
  BY <1>1, <1>2, OrderScheduled, OrderStepped, OrderWritten
     DEF Next, vars, Tick, Upgrade, RequestLock, StateRequest, state_handler,
         StateCancel, WriterRecv, WriterSend, Disconnect, quit_handler,
         BeginShutdown, ServerDown, Ended

(* The order, as long as no sleep carries a timestamp past the largest     *)
(* `u64`: a task whose timestamp wraps is early again.                     *)
LEMMA OrderUnlessWraps == Spec /\ []NoSleepWraps => []OrderedUnlessLate
<1>1. OrderInv /\ NoSleepWraps /\ TypeOK /\ QueueMirrorsWaiters
        /\ PendingMirrorsActive /\ [Next]_vars
        => OrderInv'
  BY OrderPreserved
<1>2. OrderInv => OrderedUnlessLate BY DEF OrderInv
<1> QED
  BY <1>1, <1>2, InitOrder, TypeCorrect, QueueKept, MirrorCorrect, PTL
     DEF Spec

-----------------------------------------------------------------------------
(* What was written for a client.                                          *)

Entries == [client : Clients, text : Texts, at : Word]

Sayings == Seq([at : Word, text : Texts])

(* f gives what the first texts hold for c, one after the other.           *)
Gathers(f, c, texts) ==
  /\ f[0] = <<>>
  /\ \A k \in 1 .. Len(texts) :
       f[k] = IF texts[k].client # c THEN f[k - 1]
              ELSE Append(f[k - 1], Said(texts[k].at, texts[k].text))
  /\ \A k \in 0 .. Len(texts) : f[k] \in Sayings

LEMMA TextsForIs ==
  ASSUME NEW c, NEW texts \in Seq(Entries)
  PROVE  \E f : Gathers(f, c, texts) /\ TextsFor(c, texts) = f[Len(texts)]
<1> DEFINE n == Len(texts)
           Saying(k) == Said(texts[k].at, texts[k].text)
           Other(k) == texts[k].client # c
           step == [k \in Nat |-> [v \in Sayings |->
                      IF k + 1 <= n /\ ~Other(k + 1)
                      THEN Append(v, Saying(k + 1)) ELSE v]]
           Is(f) == f = [k \in 0 .. n |->
                           IF k = 0 THEN <<>>
                           ELSE IF Other(k) THEN f[k - 1]
                           ELSE Append(f[k - 1], Saying(k))]
           For == CHOOSE f : Is(f)
<1>1. TextsFor(c, texts) = For[n] BY Zenon DEF TextsFor
<1>2. /\ n \in Nat
      /\ \A k \in 1 .. n : Saying(k) \in [at : Word, text : Texts]
  <2>1. \A k \in 1 .. n : texts[k] \in Entries
    <3> HIDE DEF Entries
    <3> QED BY ElementOfSeq
  <2>2. n \in Nat
    <3> HIDE DEF Entries
    <3> QED BY LenProperties
  <2> QED BY <2>1, <2>2 DEF Entries, Said
<1>3. <<>> \in Sayings BY EmptySeq DEF Sayings
<1>4. \A v \in Sayings, e \in [at : Word, text : Texts] :
        Append(v, e) \in Sayings
  <2> DEFINE T == [at : Word, text : Texts]
  <2>1. \A S : \A v \in Seq(S), e \in S : Append(v, e) \in Seq(S) OBVIOUS
  <2>2. Sayings = Seq(T) BY DEF Sayings
  <2> HIDE DEF T
  <2> QED BY <2>1, <2>2 DEF T
<1> HIDE DEF n, Saying, Other
<1>5. step \in [Nat -> [Sayings -> Sayings]]
  <2>1. ASSUME NEW k \in Nat, NEW v \in Sayings
        PROVE  (IF k + 1 <= n /\ ~Other(k + 1)
                THEN Append(v, Saying(k + 1)) ELSE v) \in Sayings
    <3>1. CASE k + 1 <= n /\ ~Other(k + 1)
      <4>1. k + 1 \in 1 .. n BY <1>2, <3>1
      <4>2. Saying(k + 1) \in [at : Word, text : Texts] BY <1>2, <4>1
      <4> QED BY <1>4, <3>1, <4>2
    <3>2. CASE ~(k + 1 <= n /\ ~Other(k + 1)) BY <3>2
    <3> QED BY <3>1, <3>2
  <2> QED BY <2>1
<1>6. PICK f \in [Nat -> Sayings] : Recursion(f, <<>>, step)
  <2> DEFINE nothing == <<>>
  <2>1. nothing \in Sayings BY <1>3
  <2> HIDE DEF step, nothing
  <2>2. \E f \in [Nat -> Sayings] : Recursion(f, nothing, step)
    BY <1>5, <2>1, RecursiveFunction
  <2> QED BY <2>2 DEF nothing
<1> DEFINE g == [k \in 0 .. n |-> f[k]]
<1>7. \A k \in 0 .. n : g[k] = f[k] OBVIOUS
<1>8. g[0] = <<>> BY <1>2, <1>6, <1>7 DEF Recursion
<1>9. ASSUME NEW k \in 1 .. n
      PROVE  g[k] = IF Other(k) THEN g[k - 1] ELSE Append(g[k - 1], Saying(k))
  <2>1. /\ k - 1 \in Nat /\ (k - 1) + 1 = k /\ k <= n
        /\ k - 1 \in 0 .. n /\ k \in 0 .. n
    BY <1>2
  <2>2. f[(k - 1) + 1] = step[k - 1][f[k - 1]] BY <1>6, <2>1 DEF Recursion
  <2>3. f[k - 1] \in Sayings BY <2>1
  <2>4. step[k - 1][f[k - 1]] =
          IF (k - 1) + 1 <= n /\ ~Other((k - 1) + 1)
          THEN Append(f[k - 1], Saying((k - 1) + 1)) ELSE f[k - 1]
    BY <2>1, <2>3
  <2> HIDE DEF g, step
  <2> QED BY <1>7, <2>1, <2>2, <2>4
<1>10. Is(g)
  <2>1. g = [k \in 0 .. n |-> g[k]] OBVIOUS
  <2>2. \A k \in 0 .. n : k = 0 \/ k \in 1 .. n BY <1>2
  <2>3. \A k \in 0 .. n : g[k] = IF k = 0 THEN <<>>
                                 ELSE IF Other(k) THEN g[k - 1]
                                 ELSE Append(g[k - 1], Saying(k))
    <3> HIDE DEF g
    <3> QED BY <1>8, <1>9, <2>2
  <2> HIDE DEF g
  <2> QED BY <2>1, <2>3
<1>11. Is(For)
  <2> HIDE DEF g
  <2> QED BY <1>10, Zenon
<1>12. \A k \in 1 .. n :
         For[k] = IF Other(k) THEN For[k - 1] ELSE Append(For[k - 1], Saying(k))
  <2>1. \A k \in 1 .. n : k \in 0 .. n /\ k # 0 BY <1>2
  <2> HIDE DEF For
  <2> QED BY <1>11, <2>1
<1>13. For[0] = <<>>
  <2> HIDE DEF For
  <2> QED BY <1>2, <1>11
<1>14. \A k \in 0 .. n : For[k] = g[k]
  <2>1. For[0] = g[0] BY <1>8, <1>13
  <2>2. ASSUME NEW k \in 0 .. n - 1, For[k] = g[k]
        PROVE  For[k + 1] = g[k + 1]
    <3>1. k + 1 \in 1 .. n /\ (k + 1) - 1 = k BY <1>2
    <3>2. /\ For[k + 1] = IF Other(k + 1) THEN For[(k + 1) - 1]
                          ELSE Append(For[(k + 1) - 1], Saying(k + 1))
          /\ g[k + 1] = IF Other(k + 1) THEN g[(k + 1) - 1]
                        ELSE Append(g[(k + 1) - 1], Saying(k + 1))
      BY <1>9, <1>12, <3>1
    <3> HIDE DEF For, g
    <3> QED BY <2>2, <3>1, <3>2
  <2> HIDE DEF For, g
  <2> QED BY <1>2, <2>1, <2>2, SameRecursion
<1>15. \A k \in 0 .. n : For[k] \in Sayings
  <2> SUFFICES ASSUME NEW k \in 0 .. n PROVE For[k] \in Sayings OBVIOUS
  <2>1. k \in Nat BY <1>2
  <2>2. f[k] \in Sayings BY <2>1
  <2> HIDE DEF For, g
  <2> QED BY <1>7, <1>14, <2>2
<1> HIDE DEF For
<1>16. Gathers(For, c, texts)
  BY <1>12, <1>13, <1>15 DEF Gathers, n, Other, Saying
<1> QED BY <1>1, <1>16 DEF n

(* Nothing at first; a text more for the client it is written for, and for *)
(* no other.                                                               *)
LEMMA TextsForNone ==
  ASSUME NEW c PROVE TextsFor(c, <<>>) = <<>>
<1>1. <<>> \in Seq(Entries) /\ Len(<<>>) = 0 BY EmptySeq
<1>2. PICK f : Gathers(f, c, <<>>) /\ TextsFor(c, <<>>) = f[Len(<<>>)]
  BY <1>1, TextsForIs
<1> QED BY <1>1, <1>2 DEF Gathers

LEMMA TextsForType ==
  ASSUME NEW c, NEW texts \in Seq(Entries)
  PROVE  TextsFor(c, texts) \in Sayings
<1>1. PICK f : Gathers(f, c, texts) /\ TextsFor(c, texts) = f[Len(texts)]
  BY TextsForIs
<1>2. Len(texts) \in 0 .. Len(texts)
  <2>1. Len(texts) \in Nat
    <3> HIDE DEF Entries
    <3> QED BY LenProperties
  <2> QED BY <2>1
<1> QED BY <1>1, <1>2 DEF Gathers

LEMMA TextsForAppend ==
  ASSUME NEW c, NEW texts \in Seq(Entries), NEW e \in Entries
  PROVE  TextsFor(c, Append(texts, e)) =
           IF e.client # c THEN TextsFor(c, texts)
           ELSE Append(TextsFor(c, texts), Said(e.at, e.text))
<1> DEFINE n == Len(texts)
           more == Append(texts, e)
<1>1. /\ more \in Seq(Entries) /\ Len(more) = n + 1 /\ more[n + 1] = e
      /\ \A k \in 1 .. n : more[k] = texts[k]
      /\ n \in Nat
  <2>1. \A S : \A s \in Seq(S), x \in S :
          /\ Append(s, x) \in Seq(S) /\ Len(Append(s, x)) = Len(s) + 1
          /\ Append(s, x)[Len(s) + 1] = x
          /\ \A k \in 1 .. Len(s) : Append(s, x)[k] = s[k]
          /\ Len(s) \in Nat
    OBVIOUS
  <2> HIDE DEF Entries
  <2> QED BY <2>1
<1> HIDE DEF n, more
<1>2. PICK f : Gathers(f, c, texts) /\ TextsFor(c, texts) = f[n]
  BY TextsForIs DEF n
<1>3. PICK g : Gathers(g, c, more) /\ TextsFor(c, more) = g[n + 1]
  BY <1>1, TextsForIs
<1>4. \A k \in 1 .. n :
        /\ f[k] = IF texts[k].client # c THEN f[k - 1]
                  ELSE Append(f[k - 1], Said(texts[k].at, texts[k].text))
        /\ g[k] = IF texts[k].client # c THEN g[k - 1]
                  ELSE Append(g[k - 1], Said(texts[k].at, texts[k].text))
  <2>1. \A k \in 1 .. n : k \in 1 .. n + 1 BY <1>1
  <2> QED BY <1>1, <1>2, <1>3, <2>1 DEF Gathers, n
<1>5. \A k \in 0 .. n : f[k] = g[k]
  <2>1. f[0] = g[0] BY <1>2, <1>3 DEF Gathers
  <2>2. ASSUME NEW k \in 0 .. n - 1, f[k] = g[k] PROVE f[k + 1] = g[k + 1]
    <3>1. k + 1 \in 1 .. n /\ (k + 1) - 1 = k BY <1>1
    <3>2. /\ f[k + 1] = IF texts[k + 1].client # c THEN f[(k + 1) - 1]
                        ELSE Append(f[(k + 1) - 1],
                                    Said(texts[k + 1].at, texts[k + 1].text))
          /\ g[k + 1] = IF texts[k + 1].client # c THEN g[(k + 1) - 1]
                        ELSE Append(g[(k + 1) - 1],
                                    Said(texts[k + 1].at, texts[k + 1].text))
      BY <1>4, <3>1
    <3> QED BY <2>2, <3>1, <3>2
  <2>3. n \in Nat BY <1>1
  <2> QED BY ONLY <2>1, <2>2, <2>3, SameRecursion
<1>6. g[n + 1] = IF e.client # c THEN g[n]
                 ELSE Append(g[n], Said(e.at, e.text))
  <2>1. n + 1 \in 1 .. Len(more) /\ (n + 1) - 1 = n BY <1>1
  <2>2. g[n + 1] = IF more[n + 1].client # c THEN g[(n + 1) - 1]
                   ELSE Append(g[(n + 1) - 1],
                               Said(more[n + 1].at, more[n + 1].text))
    BY <1>3, <2>1 DEF Gathers
  <2> QED BY <1>1, <2>1, <2>2
<1>7. n \in 0 .. n BY <1>1
<1> QED BY <1>2, <1>3, <1>5, <1>6, <1>7 DEF more

-----------------------------------------------------------------------------
(* The tasks and their scripts.                                            *)

HasTask(c) == sessions[c].at = "scheduled"

(* What a client asked for, and when.                                      *)
RequestsOffered ==
  \A c \in Clients :
    sessions[c].at # "idle" =>
      sessions[c].request \in Offered[c] /\ sessions[c].ts \in Instants

(* A task id is its client's alone.                                        *)
IdsApart ==
  /\ \A c \in Clients : HasTask(c) => sessions[c].task_id < next_task_id
  /\ \A c, d \in Clients :
       HasTask(c) /\ HasTask(d) /\ sessions[c].task_id = sessions[d].task_id
         => c = d

Owns(c, id) == HasTask(c) /\ sessions[c].task_id = id

TasksOwned ==
  /\ \A id \in DOMAIN active_tasks : Owns(active_tasks[id].client, id)
  /\ executor.at = "writing" => Owns(executor.task.client, executor.op.task_id)

(* What was written for a client is the beginning of its script.           *)
SaidInOrder ==
  \A c \in Clients :
    IF HasTask(c)
    THEN /\ Len(WrittenFor(c)) <= Len(ScriptFor(c))
         /\ \A k \in 1 .. Len(WrittenFor(c)) :
              WrittenFor(c)[k] = ScriptFor(c)[k]
    ELSE WrittenFor(c) = <<>>

(* A task that has said the first k texts and is due at ts.                *)
TaskOnScript(session, k, task, ts) ==
  OnScript(session.request, session.ts, k,
           task.maroon_stack, task.maroon_heap, ts)

PendingOnScript ==
  \A op \in pending_operations :
    LET task == active_tasks[op.task_id]
    IN TaskOnScript(sessions[task.client], Len(WrittenFor(task.client)),
                    task, op.scheduled_timestamp)

(* The executor writes the next text of the script, which is due.          *)
WritingOnScript ==
  executor.at = "writing" =>
    LET c == executor.task.client
        k == Len(WrittenFor(c))
        ts == executor.op.scheduled_timestamp
    IN /\ ts <= now
       /\ k < Len(ScriptFor(c))
       /\ ScriptFor(c)[k + 1] = Said(ts, executor.text)
       /\ TaskOnScript(sessions[c], k + 1, executor.task, ts)

(* Who has no task left has been told everything.                          *)
EndedSaidAll ==
  \A c \in Clients :
    HasTask(c) /\ sessions[c].task_id \notin DOMAIN active_tasks \cup InFlight
      => Len(WrittenFor(c)) = Len(ScriptFor(c))

ScriptInv ==
  /\ RequestsOffered /\ IdsApart /\ TasksOwned /\ SaidInOrder
  /\ PendingOnScript /\ WritingOnScript /\ EndedSaidAll

LEMMA InitScripts == Init => ScriptInv
<1> SUFFICES ASSUME Init PROVE ScriptInv OBVIOUS
<1>1. \A c \in Clients : sessions[c].at = "idle" BY DEF Init, Idle
<1>2. \A c \in Clients : WrittenFor(c) = <<>>
  BY TextsForNone DEF Init, WrittenFor
<1>3. /\ DOMAIN active_tasks = {} /\ pending_operations = {}
      /\ executor.at # "writing"
  BY DEF Init, ExecutorAt
<1>4. RequestsOffered BY <1>1 DEF RequestsOffered
<1>5. IdsApart BY <1>1 DEF IdsApart, HasTask
<1>6. TasksOwned BY <1>3 DEF TasksOwned
<1>7. SaidInOrder BY <1>1, <1>2 DEF SaidInOrder, HasTask
<1>8. PendingOnScript BY <1>3 DEF PendingOnScript
<1>9. WritingOnScript BY <1>3 DEF WritingOnScript
<1>10. EndedSaidAll BY <1>1 DEF EndedSaidAll, HasTask
<1> QED
  BY <1>4, <1>5, <1>6, <1>7, <1>8, <1>9, <1>10 DEF ScriptInv

(* What the types say of the sessions and of the texts.                    *)
LEMMA ScriptTypes ==
  ASSUME TypeOK, RequestsOffered
  PROVE  /\ written \in Seq(Entries)
         /\ \A c \in Clients : /\ WrittenFor(c) \in Sayings
                               /\ Len(WrittenFor(c)) \in Nat
         /\ \A c \in Clients :
              sessions[c].at # "idle" =>
                /\ sessions[c].request \in Requests(Word, Word)
                /\ sessions[c].ts \in Word
                /\ ScriptFor(c) = Script(sessions[c].request, sessions[c].ts)
                /\ IsScript(ScriptFor(c), Len(ScriptFor(c)))
         /\ \A c \in Clients : HasTask(c) => sessions[c].task_id \in Nat
         /\ next_task_id \in Nat
<1>1. written \in Seq(Entries) BY DEF TypeOK, Entries
<1>2. ASSUME NEW c \in Clients
      PROVE  WrittenFor(c) \in Sayings /\ Len(WrittenFor(c)) \in Nat
  <2>1. WrittenFor(c) \in Sayings BY <1>1, TextsForType DEF WrittenFor
  <2>2. \A S : \A s \in Seq(S) : Len(s) \in Nat OBVIOUS
  <2> QED BY <2>1, <2>2 DEF Sayings
<1>3. ASSUME NEW c \in Clients, sessions[c].at # "idle"
      PROVE  /\ sessions[c].request \in Requests(Word, Word)
             /\ sessions[c].ts \in Word
             /\ ScriptFor(c) = Script(sessions[c].request, sessions[c].ts)
             /\ IsScript(ScriptFor(c), Len(ScriptFor(c)))
  <2>1. sessions[c].request \in Requests(Word, Word) /\ sessions[c].ts \in Word
    BY <1>3, RuntimeAssumption DEF RequestsOffered
  <2> QED BY <2>1, ScriptIs DEF ScriptFor
<1>4. ASSUME NEW c \in Clients, HasTask(c) PROVE sessions[c].task_id \in Nat
  <2>1. sessions[c] \in Scheduled
    BY <1>4 DEF HasTask, TypeOK, Idle, Upgraded
  <2> QED BY <2>1 DEF Scheduled
<1> QED BY <1>1, <1>2, <1>3, <1>4 DEF TypeOK

LEMMA RequestsPreserved ==
  ASSUME TypeOK, RequestsOffered, [Next]_vars
  PROVE  RequestsOffered'
<1>1. CASE sessions' = sessions BY <1>1 DEF RequestsOffered
<1>2. ASSUME NEW c \in Clients, Upgrade(c) PROVE RequestsOffered'
  BY <1>2 DEF Upgrade, RequestsOffered, TypeOK
<1>3. ASSUME NEW c \in Clients, RequestLock(c) PROVE RequestsOffered'
  <2>1. sessions[c] \in Upgraded
    BY <1>3 DEF RequestLock, TypeOK, Idle, Scheduled
  <2>2. /\ sessions'[c].request = sessions[c].request
        /\ sessions'[c].ts = sessions[c].ts
        /\ sessions[c].at # "idle"
        /\ \A d \in Clients : d # c => sessions'[d] = sessions[d]
    BY <1>3, <2>1 DEF RequestLock, TypeOK, Upgraded
  <2> QED BY <2>2 DEF RequestsOffered
<1>4. ASSUME NEW c \in Clients, schedule(c) PROVE RequestsOffered'
  BY <1>4 DEF schedule, RequestsOffered, TypeOK
<1> QED
  BY <1>1, <1>2, <1>3, <1>4
     DEF Next, vars, Tick, WriterRecv, WriterSend, Disconnect, StateRequest,
         state_handler, StateCancel, ExecutorWake, ExecutorBreak, ExecutorStep,
         ExecutorWritten, quit_handler, BeginShutdown, ServerDown, Ended

LEMMA TimePasses ==
  ASSUME TypeOK, [Next]_vars
  PROVE  now \in Nat /\ now' \in Nat /\ now <= now'
<1>1. Instants \subseteq Nat /\ now \in Nat
  BY RuntimeAssumption DEF TypeOK, Word
<1>2. CASE Tick BY <1>1, <1>2 DEF Tick
<1>3. CASE now' = now BY <1>1, <1>3
<1> QED
  BY <1>2, <1>3
     DEF Next, vars, Upgrade, RequestLock, schedule, StateRequest,
         state_handler, StateCancel, WriterRecv, WriterSend, Disconnect,
         ExecutorWake, ExecutorBreak, ExecutorStep, ExecutorWritten,
         quit_handler, BeginShutdown, ServerDown, Ended

(* A step that schedules nothing, steps nothing and writes nothing.        *)
LEMMA ScriptKept ==
  ASSUME TypeOK, PendingMirrorsActive, ScriptInv, [Next]_vars,
         UNCHANGED <<fsm, written>>, InFlight' = InFlight,
         executor'.at = "writing" => executor' = executor
  PROVE  ScriptInv'
<1>1. RequestsOffered' BY RequestsPreserved DEF ScriptInv
<1>2. /\ next_task_id' = next_task_id /\ active_tasks' = active_tasks
      /\ pending_operations' = pending_operations /\ written' = written
  BY DEF fsm
<1>3. \A c \in Clients : HasTask(c) => sessions'[c] = sessions[c]
  BY ScheduledStays DEF HasTask
<1>4. \A c \in Clients : HasTask(c)' => HasTask(c)
  <2>1. ~\E c \in Clients : schedule(c)
    BY <1>2 DEF schedule, TypeOK
  <2>2. CASE sessions' = sessions BY <2>2 DEF HasTask
  <2>3. ASSUME NEW d \in Clients, Upgrade(d) \/ RequestLock(d)
        PROVE  \A c \in Clients : HasTask(c)' => HasTask(c)
    <3>1. sessions'[d].at # "scheduled"
      <4>1. CASE Upgrade(d) BY <4>1 DEF Upgrade, TypeOK
      <4>2. CASE RequestLock(d)
        <5>1. sessions[d] \in Upgraded
          BY <4>2 DEF RequestLock, TypeOK, Idle, Scheduled
        <5>2. sessions'[d] = [sessions[d] EXCEPT !.at = "waiting"]
          BY <4>2 DEF RequestLock, TypeOK
        <5> QED BY <5>1, <5>2 DEF Upgraded
      <4> QED BY <2>3, <4>1, <4>2
    <3>2. \A c \in Clients : c # d => sessions'[c] = sessions[c]
      BY <2>3 DEF Upgrade, RequestLock, TypeOK
    <3> QED BY <3>1, <3>2 DEF HasTask
  <2> QED
    BY <2>1, <2>2, <2>3
       DEF Next, vars, Tick, StateRequest, state_handler, StateCancel,
           WriterRecv, WriterSend, Disconnect, ExecutorWake, ExecutorBreak,
           ExecutorStep, ExecutorWritten, quit_handler, BeginShutdown,
           ServerDown, Ended
<1>5. \A c \in Clients : HasTask(c)' <=> HasTask(c)
  BY <1>3, <1>4 DEF HasTask
<1>6. /\ \A c \in Clients : WrittenFor(c)' = WrittenFor(c)
      /\ \A c \in Clients : HasTask(c) => ScriptFor(c)' = ScriptFor(c)
  BY <1>2, <1>3 DEF WrittenFor, ScriptFor
<1>7. /\ \A id \in DOMAIN active_tasks : active_tasks[id].client \in Clients
      /\ \A op \in pending_operations : op.task_id \in DOMAIN active_tasks
      /\ executor.at = "writing" => executor.task.client \in Clients
  BY OrderTypes
<1>8. /\ \A id \in DOMAIN active_tasks : Owns(active_tasks[id].client, id)
      /\ executor.at = "writing" =>
           Owns(executor.task.client, executor.op.task_id)
  BY DEF ScriptInv, TasksOwned
<1>9. IdsApart' BY <1>2, <1>3, <1>5 DEF ScriptInv, IdsApart
<1>10. TasksOwned'
  BY <1>2, <1>3, <1>5, <1>7, <1>8 DEF TasksOwned, Owns
<1>11. SaidInOrder' BY <1>5, <1>6 DEF ScriptInv, SaidInOrder
<1>12. PendingOnScript'
  BY <1>2, <1>3, <1>6, <1>7, <1>8
     DEF ScriptInv, PendingOnScript, Owns, WrittenFor
<1>13. WritingOnScript'
  <2> SUFFICES ASSUME executor'.at = "writing" PROVE WritingOnScript'
    BY DEF WritingOnScript
  <2> DEFINE c == executor.task.client
             ts == executor.op.scheduled_timestamp
  <2>1. executor' = executor /\ executor.at = "writing" OBVIOUS
  <2>2. /\ c \in Clients /\ sessions'[c] = sessions[c]
        /\ WrittenFor(c)' = WrittenFor(c) /\ ScriptFor(c)' = ScriptFor(c)
    BY <1>2, <1>3, <1>7, <1>8, <2>1 DEF Owns, WrittenFor, ScriptFor
  <2>3. ts <= now'
    <3>1. ts <= now BY <2>1 DEF ScriptInv, WritingOnScript
    <3>2. ts \in Nat BY <2>1, OrderTypes
    <3>3. now \in Nat /\ now' \in Nat /\ now <= now' BY TimePasses
    <3> HIDE DEF ts
    <3> QED BY <3>1, <3>2, <3>3
  <2> QED
    BY <2>1, <2>2, <2>3 DEF ScriptInv, WritingOnScript, WrittenFor, ScriptFor
<1>14. EndedSaidAll'
  BY <1>2, <1>3, <1>5, <1>6 DEF ScriptInv, EndedSaidAll
<1> QED
  BY <1>1, <1>9, <1>10, <1>11, <1>12, <1>13, <1>14 DEF ScriptInv

(* A new task starts at the beginning of its script.                       *)
LEMMA ScriptScheduled ==
  ASSUME TypeOK, PendingMirrorsActive, ScriptInv, [Next]_vars,
         NEW c \in Clients, schedule(c)
  PROVE  ScriptInv'
<1> DEFINE id == next_task_id
           request == sessions[c].request
           start == sessions[c].ts
           task == NewTask(c, request)
           op == [scheduled_timestamp |-> start, task_id |-> id]
<1>1. RequestsOffered' BY RequestsPreserved DEF ScriptInv
<1>2. /\ active_tasks' = Inserted(active_tasks, id, task)
      /\ pending_operations' = pending_operations \cup {op}
      /\ next_task_id' = id + 1
      /\ written' = written /\ executor' = executor
      /\ executor.at # "writing" /\ sessions[c].at = "waiting"
  BY DEF schedule, Acquires
<1>3. /\ sessions'[c].at = "scheduled" /\ sessions'[c].task_id = id
      /\ sessions'[c].request = request /\ sessions'[c].ts = start
      /\ \A d \in Clients : d # c => sessions'[d] = sessions[d]
  BY DEF schedule, TypeOK
<1>4. /\ ~HasTask(c) /\ HasTask(c)'
      /\ \A d \in Clients : d # c => (HasTask(d)' <=> HasTask(d))
  BY <1>2, <1>3 DEF HasTask
<1>5. /\ op.task_id = id /\ op.scheduled_timestamp = start
      /\ task.client = c
      /\ OnScript(request, start, 0, task.maroon_stack, task.maroon_heap, start)
  <2>1. request \in Requests(Word, Word) /\ start \in Word
    BY <1>2, WaitingRequest
  <2>2. OnScript(request, start, 0, InitialStack(request),
                 InitialHeap(request), start)
    BY <2>1, InitialOnScript
  <2> QED BY <2>2 DEF NewTask
<1>6. /\ id \in Nat
      /\ \A d \in Clients : HasTask(d) => /\ sessions[d].task_id \in Nat
                                          /\ sessions[d].task_id < id
  BY ScriptTypes DEF ScriptInv, IdsApart
<1>7. /\ \A i \in DOMAIN active_tasks :
           /\ active_tasks[i].client \in Clients
           /\ Owns(active_tasks[i].client, i)
      /\ \A p \in pending_operations : p.task_id \in DOMAIN active_tasks
  BY OrderTypes DEF ScriptInv, TasksOwned
<1>8. /\ \A d \in Clients : WrittenFor(d)' = WrittenFor(d)
      /\ \A d \in Clients : ScriptFor(d)' = ScriptFor(d)
      /\ WrittenFor(c) = <<>>
  BY <1>2, <1>3, <1>4 DEF WrittenFor, ScriptFor, ScriptInv, SaidInOrder
<1> HIDE DEF id, request, start, task, op
<1>9. /\ DOMAIN active_tasks' = DOMAIN active_tasks \cup {id}
      /\ active_tasks'[id] = task
      /\ \A i \in DOMAIN active_tasks :
           i # id /\ active_tasks'[i] = active_tasks[i]
           /\ active_tasks[i].client # c
  <2>1. \A i \in DOMAIN active_tasks : i # id /\ active_tasks[i].client # c
    BY <1>4, <1>6, <1>7 DEF Owns
  <2> QED BY <1>2, <2>1 DEF Inserted
<1>10. IdsApart'
  <2>1. \A d \in Clients : HasTask(d)' => sessions'[d].task_id < next_task_id'
    BY <1>2, <1>3, <1>4, <1>6
  <2>2. ASSUME NEW d \in Clients, NEW e \in Clients, HasTask(d)', HasTask(e)',
               sessions'[d].task_id = sessions'[e].task_id
        PROVE  d = e
    <3>1. CASE d = c /\ e # c BY <1>3, <1>4, <1>6, <2>2, <3>1
    <3>2. CASE d # c /\ e = c BY <1>3, <1>4, <1>6, <2>2, <3>2
    <3>3. CASE d # c /\ e # c
      BY <1>3, <1>4, <2>2, <3>3 DEF ScriptInv, IdsApart
    <3> QED BY <3>1, <3>2, <3>3
  <2> QED BY <2>1, <2>2 DEF IdsApart
<1>11. TasksOwned'
  <2>1. \A i \in DOMAIN active_tasks' :
          /\ sessions'[active_tasks'[i].client].at = "scheduled"
          /\ sessions'[active_tasks'[i].client].task_id = i
    <3>1. \A i \in DOMAIN active_tasks :
            /\ active_tasks'[i] = active_tasks[i]
            /\ active_tasks[i].client \in Clients
            /\ active_tasks[i].client # c
      BY <1>7, <1>9
    <3> QED BY <1>3, <1>5, <1>7, <1>9, <3>1 DEF Owns, HasTask
  <2> QED BY <1>2, <2>1 DEF TasksOwned, Owns, HasTask
<1>12. SaidInOrder'
  <2>1. Len(<<>>) = 0 OBVIOUS
  <2>2. Len(WrittenFor(c)') <= Len(ScriptFor(c)')
    <3>1. sessions[c].at # "idle" BY <1>2
    <3>2. Len(ScriptFor(c)) \in Nat
      BY <3>1, ScriptTypes DEF IsScript, ScriptInv
    <3> QED BY <1>8, <2>1, <3>2
  <2>3. \A k \in 1 .. Len(WrittenFor(c)') :
          WrittenFor(c)'[k] = ScriptFor(c)'[k]
    BY <1>8, <2>1
  <2>4. ASSUME NEW d \in Clients
        PROVE  IF HasTask(d)'
               THEN /\ Len(WrittenFor(d)') <= Len(ScriptFor(d)')
                    /\ \A k \in 1 .. Len(WrittenFor(d)') :
                         WrittenFor(d)'[k] = ScriptFor(d)'[k]
               ELSE WrittenFor(d)' = <<>>
    <3>1. CASE d = c BY <1>4, <2>2, <2>3, <3>1
    <3>2. CASE d # c BY <1>4, <1>8, <3>2 DEF ScriptInv, SaidInOrder
    <3> QED BY <3>1, <3>2
  <2> QED BY <2>4 DEF SaidInOrder
<1>13. PendingOnScript'
  <2>1. ASSUME NEW p \in pending_operations'
        PROVE  TaskOnScript(sessions'[active_tasks'[p.task_id].client],
                            Len(TextsFor(active_tasks'[p.task_id].client,
                                         written')),
                            active_tasks'[p.task_id], p.scheduled_timestamp)
    <3>1. CASE p = op
      <4>1. active_tasks'[p.task_id] = task BY <1>5, <1>9, <3>1
      <4>2. Len(TextsFor(c, written')) = 0
        BY <1>2, <1>8 DEF WrittenFor
      <4> QED
        BY <1>3, <1>5, <3>1, <4>1, <4>2 DEF TaskOnScript
    <3>2. CASE p \in pending_operations
      <4> DEFINE t == active_tasks[p.task_id]
      <4>1. /\ active_tasks'[p.task_id] = t /\ t.client \in Clients
            /\ sessions'[t.client] = sessions[t.client]
        BY <1>3, <1>7, <1>9, <3>2
      <4>2. TaskOnScript(sessions[t.client], Len(TextsFor(t.client, written)),
                         t, p.scheduled_timestamp)
        BY <3>2 DEF ScriptInv, PendingOnScript, WrittenFor
      <4> HIDE DEF t
      <4> QED BY <1>2, <4>1, <4>2
    <3> QED BY <1>2, <3>1, <3>2
  <2> QED BY <2>1 DEF PendingOnScript, WrittenFor
<1>14. WritingOnScript' BY <1>2 DEF WritingOnScript
<1>15. EndedSaidAll'
  <2> SUFFICES ASSUME NEW d \in Clients, HasTask(d)',
                      sessions'[d].task_id
                        \notin DOMAIN active_tasks' \cup InFlight'
               PROVE  Len(WrittenFor(d)') = Len(ScriptFor(d)')
    BY DEF EndedSaidAll
  <2>1. d # c BY <1>3, <1>9
  <2>2. InFlight' = InFlight BY <1>2 DEF InFlight
  <2> QED
    BY <1>3, <1>4, <1>8, <1>9, <2>1, <2>2 DEF ScriptInv, EndedSaidAll
<1> QED
  BY <1>1, <1>10, <1>11, <1>12, <1>13, <1>14, <1>15 DEF ScriptInv

(* A pending task goes on with its script when it is stepped.              *)
LEMMA StepFollows ==
  ASSUME TypeOK, PendingMirrorsActive, ScriptInv, ScriptsFit, NEW op \in Due
  PROVE  LET c == active_tasks[op.task_id].client
         IN /\ op.task_id \in DOMAIN active_tasks
            /\ c \in Clients
            /\ sessions[c].request \in Requests(Word, Word)
            /\ sessions[c].ts \in Word
            /\ Follows(sessions[c].request, sessions[c].ts, Len(WrittenFor(c)),
                       op.scheduled_timestamp, OutcomeOf(op))
<1> DEFINE task == active_tasks[op.task_id]
           c == task.client
           ts == op.scheduled_timestamp
           r == sessions[c].request
           start == sessions[c].ts
           k == Len(WrittenFor(c))
<1>1. op \in pending_operations /\ op.task_id \in DOMAIN active_tasks
  BY OrderTypes DEF Due, Earliest
<1>2. /\ c \in Clients /\ HasTask(c)
      /\ task.maroon_stack \in Seq(StackEntries) /\ task.maroon_heap \in Heaps
  BY <1>1 DEF TypeOK, Tasks, ScriptInv, TasksOwned, Owns
<1>3. ts \in Word BY <1>1 DEF TypeOK, Operations
<1>4. /\ r \in Offered[c] /\ start \in Instants
      /\ r \in Requests(Word, Word) /\ start \in Word /\ k \in Nat
  BY <1>2, ScriptTypes DEF ScriptInv, RequestsOffered, HasTask
<1>5. ScriptFits(r, start) BY <1>2, <1>4 DEF ScriptsFit
<1>6. OnScript(r, start, k, task.maroon_stack, task.maroon_heap, ts)
  BY <1>1 DEF ScriptInv, PendingOnScript, TaskOnScript
<1>7. OutcomeOf(op) = Advance(task.maroon_stack, task.maroon_heap)
  BY <1>1 DEF OutcomeOf
<1> HIDE DEF r, start, k, ts, c, task
<1>8. Follows(r, start, k, ts, Advance(task.maroon_stack, task.maroon_heap))
  BY <1>2, <1>3, <1>4, <1>5, <1>6, StepOnScript
<1> QED BY <1>1, <1>2, <1>4, <1>7, <1>8 DEF r, start, k, ts, c, task

(* No timestamp of a task on a script that fits wraps around.              *)
LEMMA NoSleepCanWrap ==
  ASSUME TypeOK, PendingMirrorsActive, ScriptInv, ScriptsFit
  PROVE  NoSleepWraps
BY StepFollows DEF NoSleepWraps, Follows

LEMMA ScriptStepped ==
  ASSUME TypeOK, QueueMirrorsWaiters, PendingMirrorsActive, ScriptInv,
         StacksWellShaped, ScriptsFit, ExecutorStep
  PROVE  ScriptInv'
<1>1. PICK op \in Due : StepsTask(op, OutcomeOf(op))
  BY ExecutorStepCases
<1> DEFINE outcome == OutcomeOf(op)
           task == Stepped(op, outcome)
           id == op.task_id
           ts == op.scheduled_timestamp
           c == active_tasks[op.task_id].client
           k == Len(WrittenFor(c))
           r == sessions[c].request
           start == sessions[c].ts
<1>2. op \in Operations /\ op \in pending_operations /\ OutcomeOK(outcome)
  BY OutcomeOfType DEF Due, Earliest
<1>3. executor.at = "waiting" BY ExecutorAwaits DEF ExecutorStep
<1>4. /\ id \in DOMAIN active_tasks /\ c \in Clients
      /\ Follows(r, start, k, ts, outcome)
  BY StepFollows
<1>5. /\ task.client = c /\ task.maroon_stack = outcome.stack
      /\ task.maroon_heap = outcome.heap
  BY <1>4 DEF Stepped, TypeOK, Tasks
<1>6. /\ sessions' = sessions /\ written' = written /\ now' = now
      /\ next_task_id' = next_task_id
      /\ ExecutorContinue(op, outcome) \/ ExecutorTakeOut(op, outcome)
  BY <1>1 DEF StepsTask
<1>7. ts <= now BY DEF Due
<1>8. /\ \A i \in DOMAIN active_tasks :
           /\ active_tasks[i].client \in Clients
           /\ Owns(active_tasks[i].client, i)
      /\ \A p \in pending_operations :
           /\ p.task_id \in DOMAIN active_tasks
           /\ p.task_id = id => p = op
           /\ LET t == active_tasks[p.task_id]
              IN TaskOnScript(sessions[t.client], Len(WrittenFor(t.client)), t,
                              p.scheduled_timestamp)
  BY <1>2, OrderTypes
     DEF ScriptInv, TasksOwned, PendingOnScript, PendingMirrorsActive
<1>9. /\ \A d \in Clients : /\ HasTask(d)' <=> HasTask(d)
                            /\ WrittenFor(d)' = WrittenFor(d)
                            /\ ScriptFor(d)' = ScriptFor(d)
  BY <1>6 DEF HasTask, WrittenFor, ScriptFor
<1>10. WrittenFor(c) = TextsFor(c, written) /\ k = Len(TextsFor(c, written))
  BY DEF WrittenFor
<1>11. /\ ScriptFor(c) = Script(r, start)
       /\ InFlight = {}
  BY <1>3 DEF ScriptFor, InFlight
<1>12. \A j, h, stamp : TaskOnScript(sessions[c], j, h, stamp) <=>
         OnScript(r, start, j, h.maroon_stack, h.maroon_heap, stamp)
  BY DEF TaskOnScript
<1> HIDE DEF outcome, task, id, ts, c, k, r, start
<1>13. RequestsOffered' /\ IdsApart' /\ SaidInOrder'
  BY <1>6, <1>9
     DEF ScriptInv, RequestsOffered, IdsApart, SaidInOrder
<1>14. CASE ExecutorContinue(op, outcome)
  <2> DEFINE later == Postponed(op, outcome.ms)
  <2>1. /\ later.task_id = id
        /\ later.scheduled_timestamp = ts + outcome.ms
        /\ OnScript(r, start, k, task.maroon_stack, task.maroon_heap,
                    ts + outcome.ms)
    <3>1. outcome.ms \in Word /\ ts + outcome.ms < WORD
      BY <1>2, <1>4, <1>14 DEF ExecutorContinue, OutcomeOK, Follows
    <3>2. /\ later.task_id = op.task_id
          /\ later.scheduled_timestamp = op.scheduled_timestamp + outcome.ms
      BY <1>2, <3>1, PostponedIsLater DEF ts
    <3>3. OnScript(r, start, k, outcome.stack, outcome.heap, ts + outcome.ms)
      BY <1>4, <1>14 DEF ExecutorContinue, Follows
    <3> HIDE DEF later
    <3> QED BY <1>5, <3>2, <3>3 DEF id, ts
  <2>2. /\ active_tasks' = [active_tasks EXCEPT ![id] = task]
        /\ pending_operations' = (pending_operations \ {op}) \cup {later}
        /\ executor' = executor
    BY <1>14 DEF ExecutorContinue, task, id
  <2> HIDE DEF later
  <2>3. /\ DOMAIN active_tasks' = DOMAIN active_tasks
        /\ active_tasks'[id] = task
        /\ \A i \in DOMAIN active_tasks :
             i # id => active_tasks'[i] = active_tasks[i]
    BY <1>4, <2>2
  <2>4. TasksOwned'
    <3>1. \A i \in DOMAIN active_tasks :
            active_tasks'[i].client = active_tasks[i].client
      BY <1>5, <2>3 DEF c, id
    <3> QED BY <1>3, <1>6, <1>8, <2>2, <2>3, <3>1
            DEF TasksOwned, Owns, HasTask
  <2>5. PendingOnScript'
    <3>1. ASSUME NEW p \in pending_operations'
          PROVE  TaskOnScript(sessions'[active_tasks'[p.task_id].client],
                              Len(TextsFor(active_tasks'[p.task_id].client,
                                           written')),
                              active_tasks'[p.task_id], p.scheduled_timestamp)
      <4>1. CASE p = later
        <5>1. active_tasks'[p.task_id] = task BY <2>1, <2>3, <4>1
        <5>2. TaskOnScript(sessions[c], k, task, p.scheduled_timestamp)
          BY <1>12, <2>1, <4>1
        <5> QED BY <1>5, <1>6, <1>10, <5>1, <5>2
      <4>2. CASE p # later
        <5> DEFINE t == active_tasks[p.task_id]
        <5>1. /\ p \in pending_operations /\ p.task_id \in DOMAIN active_tasks
              /\ p.task_id # id
          BY <1>8, <2>2, <4>2
        <5>2. active_tasks'[p.task_id] = t BY <2>3, <5>1
        <5>3. TaskOnScript(sessions[t.client], Len(TextsFor(t.client, written)),
                           t, p.scheduled_timestamp)
          BY <1>8, <5>1 DEF WrittenFor
        <5> HIDE DEF t
        <5> QED BY <1>6, <5>2, <5>3
      <4> QED BY <4>1, <4>2
    <3> QED BY <3>1 DEF PendingOnScript, WrittenFor
  <2>6. WritingOnScript' BY <1>3, <2>2 DEF WritingOnScript
  <2>7. EndedSaidAll'
    <3>1. InFlight' = InFlight BY <2>2 DEF InFlight
    <3> QED BY <1>6, <1>9, <2>3, <3>1 DEF ScriptInv, EndedSaidAll
  <2> QED BY <1>13, <2>4, <2>5, <2>6, <2>7 DEF ScriptInv
<1>15. CASE ExecutorTakeOut(op, outcome)
  <2>1. /\ DOMAIN active_tasks' = DOMAIN active_tasks \ {id}
        /\ \A i \in DOMAIN active_tasks' : active_tasks'[i] = active_tasks[i]
        /\ pending_operations' = pending_operations \ {op}
    BY <1>15 DEF ExecutorTakeOut, Removed, id
  <2>2. CASE outcome.do = "Write"
    <3>1. /\ executor'.at = "writing" /\ executor'.op = op
          /\ executor'.task = task /\ executor'.text = outcome.text
      BY <1>15, <2>2 DEF ExecutorTakeOut, task
    <3>2. InFlight' = {id} BY <3>1 DEF InFlight, id
    <3>3. TasksOwned'
      <4>1. Owns(c, id) BY <1>4, <1>8 DEF c, id
      <4> QED
        BY <1>5, <1>6, <1>8, <2>1, <3>1, <4>1
        DEF TasksOwned, Owns, HasTask, id
    <3>4. WritingOnScript'
      <4>1. /\ k < Len(Script(r, start))
            /\ Script(r, start)[k + 1] = Said(ts, outcome.text)
            /\ TaskOnScript(sessions[c], k + 1, task, ts)
        BY <1>4, <1>5, <1>12, <2>2 DEF Follows
      <4>2. /\ executor'.task.client = c
            /\ executor'.op.scheduled_timestamp = ts
            /\ Len(TextsFor(c, written')) = k
            /\ Script(sessions'[c].request, sessions'[c].ts) = Script(r, start)
        BY <1>5, <1>6, <1>10, <3>1 DEF ts, r, start
      <4> QED
        BY <1>6, <1>7, <3>1, <4>1, <4>2
        DEF WritingOnScript, WrittenFor, ScriptFor
    <3>5. EndedSaidAll'
      <4>1. DOMAIN active_tasks' \cup InFlight'
              = DOMAIN active_tasks \cup InFlight
        BY <1>4, <1>11, <2>1, <3>2
      <4> QED BY <1>6, <1>9, <4>1 DEF ScriptInv, EndedSaidAll
    <3>6. PendingOnScript'
      <4>1. \A p \in pending_operations' :
              /\ p \in pending_operations
              /\ active_tasks'[p.task_id] = active_tasks[p.task_id]
        BY <1>8, <2>1
      <4> QED BY <1>6, <1>8, <4>1 DEF PendingOnScript, WrittenFor
    <3> QED BY <1>13, <3>3, <3>4, <3>5, <3>6 DEF ScriptInv
  <2>3. CASE outcome.do # "Write"
    <3>1. executor'.at # "writing"
      BY <1>3, <1>15, <2>3 DEF ExecutorTakeOut, ExecutorAt
    <3>2. InFlight' = {} BY <3>1 DEF InFlight
    <3>3. TasksOwned'
      BY <1>6, <1>8, <2>1, <3>1 DEF TasksOwned, Owns, HasTask
    <3>4. WritingOnScript' BY <3>1 DEF WritingOnScript
    <3>5. PendingOnScript'
      <4>1. \A p \in pending_operations' :
              /\ p \in pending_operations
              /\ active_tasks'[p.task_id] = active_tasks[p.task_id]
        BY <1>8, <2>1
      <4> QED BY <1>6, <1>8, <4>1 DEF PendingOnScript, WrittenFor
    <3>6. EndedSaidAll'
      <4>1. ASSUME NEW d \in Clients, HasTask(d),
                   sessions[d].task_id \notin DOMAIN active_tasks'
            PROVE  Len(WrittenFor(d)) = Len(ScriptFor(d))
        <5>1. CASE sessions[d].task_id = id
          <6>1. HasTask(c) /\ sessions[c].task_id = id
            BY <1>4, <1>8 DEF c, id, Owns
          <6>2. d = c
            BY <1>4, <4>1, <5>1, <6>1 DEF ScriptInv, IdsApart
          <6>3. outcome.do = "Done"
            <7>1. outcome.do # "Panic" BY StepIsGood DEF outcome
            <7> QED BY <1>15, <2>3, <7>1 DEF ExecutorTakeOut
          <6>4. k = Len(Script(r, start)) BY <1>4, <6>3 DEF Follows
          <6> QED BY <1>11, <6>2, <6>4 DEF k
        <5>2. CASE sessions[d].task_id # id
          <6>1. sessions[d].task_id \notin DOMAIN active_tasks \cup InFlight
            BY <1>11, <2>1, <4>1, <5>2
          <6> QED BY <4>1, <6>1 DEF ScriptInv, EndedSaidAll
        <5> QED BY <5>1, <5>2
      <4> QED BY <1>6, <1>9, <3>2, <4>1 DEF EndedSaidAll
    <3> QED BY <1>13, <3>3, <3>4, <3>5, <3>6 DEF ScriptInv
  <2> QED BY <2>2, <2>3
<1> QED BY <1>6, <1>14, <1>15

(* The text that is written is the next one of the script.                 *)
LEMMA ScriptWritten ==
  ASSUME TypeOK, PendingMirrorsActive, ScriptInv, ExecutorWritten
  PROVE  ScriptInv'
<1> DEFINE task == executor.task
           c == task.client
           id == executor.op.task_id
           ts == executor.op.scheduled_timestamp
           text == executor.text
           k == Len(WrittenFor(c))
           e == [client |-> c, text |-> text, at |-> ts]
<1>1. /\ executor.at = "writing"
      /\ active_tasks' = Inserted(active_tasks, id, task)
      /\ pending_operations' = pending_operations \cup {executor.op}
      /\ written' = Append(written, e)
      /\ sessions' = sessions /\ now' = now /\ next_task_id' = next_task_id
      /\ executor'.at = "waiting"
  BY DEF ExecutorWritten, ExecutorAt
<1>2. /\ c \in Clients /\ id \notin DOMAIN active_tasks
      /\ \A i \in DOMAIN active_tasks : active_tasks[i].client \in Clients
      /\ \A p \in pending_operations : p.task_id \in DOMAIN active_tasks
  BY <1>1, OrderTypes
<1>3. /\ Owns(c, id)
      /\ \A i \in DOMAIN active_tasks : Owns(active_tasks[i].client, i)
  BY <1>1 DEF ScriptInv, TasksOwned
<1>4. /\ k < Len(ScriptFor(c))
      /\ ScriptFor(c)[k + 1] = Said(ts, text)
      /\ TaskOnScript(sessions[c], k + 1, task, ts)
  BY <1>1 DEF ScriptInv, WritingOnScript
<1>5. /\ written \in Seq(Entries) /\ e \in Entries
      /\ \A d \in Clients : /\ WrittenFor(d) \in Sayings
                            /\ Len(WrittenFor(d)) \in Nat
  <2>1. executor \in Writing BY <1>1 DEF TypeOK
  <2>2. text \in Texts /\ ts \in Word BY <2>1 DEF Writing, Operations
  <2> QED BY <1>2, <2>2, ScriptTypes DEF Entries, ScriptInv
<1>6. executor.op.scheduled_timestamp = ts /\ executor.op.task_id = id
      /\ e.client = c /\ e.at = ts /\ e.text = text /\ task.client = c
  OBVIOUS
<1>7. k = Len(WrittenFor(c)) OBVIOUS
<1> HIDE DEF task, c, id, ts, text, k, e
<1>8. \A d \in Clients :
        TextsFor(d, written') =
          IF d = c THEN Append(WrittenFor(c), Said(ts, text))
          ELSE WrittenFor(d)
  <2>1. \A d \in Clients :
          TextsFor(d, Append(written, e)) =
            IF e.client # d THEN TextsFor(d, written)
            ELSE Append(TextsFor(d, written), Said(e.at, e.text))
    BY <1>5, TextsForAppend
  <2> QED BY <1>1, <1>6, <2>1 DEF WrittenFor
<1> DEFINE Texts1(d) == TextsFor(d, written')
<1>9. /\ k \in Nat /\ Len(Texts1(c)) = k + 1
      /\ Texts1(c)[k + 1] = Said(ts, text)
      /\ \A j \in 1 .. k : Texts1(c)[j] = WrittenFor(c)[j]
      /\ \A d \in Clients : d # c => Texts1(d) = WrittenFor(d)
  <2>1. \A s \in Sayings : \A x :
          /\ Len(Append(s, x)) = Len(s) + 1
          /\ Append(s, x)[Len(s) + 1] = x
          /\ \A j \in 1 .. Len(s) : Append(s, x)[j] = s[j]
    <3>1. \A S, x : \A s \in Seq(S) :
            /\ Len(Append(s, x)) = Len(s) + 1
            /\ Append(s, x)[Len(s) + 1] = x
            /\ \A j \in 1 .. Len(s) : Append(s, x)[j] = s[j]
      OBVIOUS
    <3> QED BY <3>1 DEF Sayings
  <2>2. Texts1(c) = Append(WrittenFor(c), Said(ts, text)) BY <1>2, <1>8
  <2>3. \A d \in Clients : d # c => Texts1(d) = WrittenFor(d) BY <1>8
  <2>4. k \in Nat /\ WrittenFor(c) \in Sayings BY <1>2, <1>5, <1>7
  <2> HIDE DEF Texts1
  <2> QED BY <1>7, <2>1, <2>2, <2>3, <2>4
<1>10. \A d \in Clients : WrittenFor(d)' = Texts1(d) BY DEF WrittenFor
<1> HIDE DEF Texts1
<1>11. \A d \in Clients : /\ HasTask(d)' <=> HasTask(d)
                          /\ ScriptFor(d)' = ScriptFor(d)
  BY <1>1 DEF HasTask, ScriptFor
<1>12. RequestsOffered' /\ IdsApart'
  BY <1>1, <1>11 DEF ScriptInv, RequestsOffered, IdsApart
<1>13. /\ DOMAIN active_tasks' = DOMAIN active_tasks \cup {id}
       /\ active_tasks'[id] = task
       /\ \A i \in DOMAIN active_tasks :
            i # id /\ active_tasks'[i] = active_tasks[i]
            /\ active_tasks[i].client # c
  <2>1. \A i \in DOMAIN active_tasks : i # id /\ active_tasks[i].client # c
    BY <1>2, <1>3 DEF Owns
  <2> QED BY <1>1, <2>1 DEF Inserted
<1>14. TasksOwned'
  <2>1. \A i \in DOMAIN active_tasks' :
          /\ sessions'[active_tasks'[i].client].at = "scheduled"
          /\ sessions'[active_tasks'[i].client].task_id = i
    BY <1>1, <1>3, <1>6, <1>13 DEF Owns, HasTask
  <2> QED BY <1>1, <2>1 DEF TasksOwned, Owns, HasTask
<1>15. SaidInOrder'
  <2>1. ASSUME NEW d \in Clients
        PROVE  IF HasTask(d)
               THEN /\ Len(Texts1(d)) <= Len(ScriptFor(d))
                    /\ \A j \in 1 .. Len(Texts1(d)) :
                         Texts1(d)[j] = ScriptFor(d)[j]
               ELSE Texts1(d) = <<>>
    <3>1. CASE d # c BY <1>9, <3>1 DEF ScriptInv, SaidInOrder
    <3>2. CASE d = c
      <4>1. /\ HasTask(c)
            /\ \A j \in 1 .. k : WrittenFor(c)[j] = ScriptFor(c)[j]
        BY <1>2, <1>3, <1>7 DEF Owns, ScriptInv, SaidInOrder
      <4>2. \A j \in 1 .. k + 1 : j = k + 1 \/ j \in 1 .. k BY <1>9
      <4>3. Len(ScriptFor(c)) \in Nat
        BY <1>2, <4>1, ScriptTypes DEF ScriptInv, HasTask, IsScript
      <4>4. k + 1 <= Len(ScriptFor(c)) BY <1>4, <1>9, <4>3
      <4>5. \A j \in 1 .. k + 1 : Texts1(c)[j] = ScriptFor(c)[j]
        BY <1>4, <1>9, <4>1, <4>2
      <4> QED BY <1>9, <3>2, <4>1, <4>4, <4>5
    <3> QED BY <3>1, <3>2
  <2> QED BY <1>10, <1>11, <2>1 DEF SaidInOrder
<1>16. PendingOnScript'
  <2>1. ASSUME NEW p \in pending_operations'
        PROVE  TaskOnScript(sessions'[active_tasks'[p.task_id].client],
                            Len(Texts1(active_tasks'[p.task_id].client)),
                            active_tasks'[p.task_id], p.scheduled_timestamp)
    <3>1. CASE p = executor.op
      <4>1. active_tasks'[p.task_id] = task BY <1>6, <1>13, <3>1
      <4> QED BY <1>1, <1>4, <1>6, <1>9, <3>1, <4>1
    <3>2. CASE p \in pending_operations
      <4> DEFINE t == active_tasks[p.task_id]
      <4>1. active_tasks'[p.task_id] = t /\ t.client \in Clients
            /\ t.client # c
        BY <1>2, <1>13, <3>2
      <4>2. TaskOnScript(sessions[t.client], Len(WrittenFor(t.client)), t,
                         p.scheduled_timestamp)
        BY <3>2 DEF ScriptInv, PendingOnScript
      <4>3. Texts1(t.client) = WrittenFor(t.client) BY <1>9, <4>1
      <4> HIDE DEF t
      <4> QED BY <1>1, <4>1, <4>2, <4>3
    <3> QED BY <1>1, <3>1, <3>2
  <2> QED BY <2>1 DEF PendingOnScript, WrittenFor, Texts1
<1>17. WritingOnScript' BY <1>1 DEF WritingOnScript
<1>18. EndedSaidAll'
  <2> SUFFICES ASSUME NEW d \in Clients, HasTask(d),
                      sessions[d].task_id
                        \notin DOMAIN active_tasks' \cup InFlight'
               PROVE  Len(Texts1(d)) = Len(ScriptFor(d))
    BY <1>1, <1>10, <1>11 DEF EndedSaidAll
  <2>1. InFlight = {id} BY <1>1 DEF InFlight, id
  <2>2. sessions[d].task_id \notin DOMAIN active_tasks \cup InFlight
    BY <1>13, <2>1
  <2>3. d # c BY <1>3, <1>13 DEF Owns
  <2> QED BY <1>9, <2>2, <2>3 DEF ScriptInv, EndedSaidAll
<1> QED
  BY <1>12, <1>14, <1>15, <1>16, <1>17, <1>18 DEF ScriptInv

LEMMA ScriptPreserved ==
  ASSUME TypeOK, QueueMirrorsWaiters, PendingMirrorsActive, StacksWellShaped,
         ScriptsFit, ScriptInv, [Next]_vars
  PROVE  ScriptInv'
<1>1. CASE UNCHANGED <<fsm, executor, written>>
  BY <1>1, ScriptKept DEF InFlight
<1>2. CASE ExecutorWake \/ ExecutorBreak
  <2>1. executor.at # "writing" /\ executor'.at # "writing"
    BY <1>2 DEF ExecutorWake, ExecutorBreak, ExecutorAt, Acquires
  <2>2. InFlight' = InFlight BY <2>1 DEF InFlight
  <2>3. UNCHANGED <<fsm, written>> BY <1>2 DEF ExecutorWake, ExecutorBreak
  <2> QED BY <2>1, <2>2, <2>3, ScriptKept
<1> QED
  BY <1>1, <1>2, ScriptScheduled, ScriptStepped, ScriptWritten
     DEF Next, vars, Tick, Upgrade, RequestLock, StateRequest, state_handler,
         StateCancel, WriterRecv, WriterSend, Disconnect, quit_handler,
         BeginShutdown, ServerDown, Ended

LEMMA ScriptsFollowed == ScriptsFit /\ Spec => []ScriptInv
<1> SUFFICES ASSUME ScriptsFit PROVE Spec => []ScriptInv OBVIOUS
<1>1. ScriptInv /\ TypeOK /\ QueueMirrorsWaiters /\ PendingMirrorsActive
        /\ StacksWellShaped /\ [Next]_vars
        => ScriptInv'
  BY ScriptPreserved
<1> QED
  BY <1>1, InitScripts, TypeCorrect, QueueKept, MirrorCorrect,
     ShapesCorrect, PTL
     DEF Spec

(* Whoever has no task left has been told its whole script.                *)
THEOREM NoTaskLostCorrect == ScriptsFit /\ Spec => []NoTaskLost
<1> SUFFICES ASSUME ScriptsFit PROVE Spec => []NoTaskLost OBVIOUS
<1>1. TypeOK /\ ScriptInv => NoTaskLost
  <2> SUFFICES ASSUME TypeOK, ScriptInv, NEW c \in Clients,
                      sessions[c].at = "scheduled",
                      sessions[c].task_id
                        \notin DOMAIN active_tasks \cup InFlight
               PROVE  WrittenFor(c) = ScriptFor(c)
    BY DEF NoTaskLost
  <2> DEFINE said == WrittenFor(c)
             script == ScriptFor(c)
             n == Len(script)
  <2>1. /\ said \in Sayings /\ Len(said) \in Nat
        /\ IsScript(script, n)
    BY ScriptTypes DEF ScriptInv
  <2>2. Len(said) = n /\ \A k \in 1 .. Len(said) : said[k] = script[k]
    BY DEF ScriptInv, EndedSaidAll, SaidInOrder, HasTask
  <2> HIDE DEF said, script, n
  <2>3. said = [k \in 1 .. Len(said) |-> said[k]]
    <3>1. \A S : \A s \in Seq(S) : s = [k \in 1 .. Len(s) |-> s[k]] OBVIOUS
    <3> QED BY <2>1, <3>1 DEF Sayings
  <2>4. script = [k \in 1 .. n |-> script[k]] BY <2>1 DEF IsScript
  <2>5. said = script BY <2>2, <2>3, <2>4
  <2> QED BY <2>5 DEF said, script
<1> QED BY <1>1, ScriptsFollowed, TypeCorrect, PTL

-----------------------------------------------------------------------------
(* The service.                                                            *)

(* The service's view of the sessions and of what was written.             *)
AskedBy(c) ==
  IF sessions[c].at = "idle" THEN <<>>
  ELSE [asked |-> sessions[c].request, start |-> sessions[c].ts]

AllAsked == [c \in Clients |-> AskedBy(c)]

AllSaid == [c \in Clients |-> WrittenFor(c)]

(* A step that the clients of the service do not see.                      *)
LEMMA ServiceStutters ==
  ASSUME now' = now, AllAsked' = AllAsked, AllSaid' = AllSaid,
         Running' <=> Running
  PROVE  UNCHANGED Service!serviceVars
<1>1. (~Running)' = ~Running OBVIOUS
<1> QED
  BY <1>1 DEF Service!serviceVars, AllAsked, AskedBy, AllSaid

LEMMA ServiceStarts == Init => Service!Init
<1> SUFFICES ASSUME Init PROVE Service!Init OBVIOUS
<1>1. \A c \in Clients : sessions[c].at = "idle" BY DEF Init, Idle
<1>2. \A c \in Clients : WrittenFor(c) = <<>>
  BY TextsForNone DEF Init, WrittenFor
<1>3. Running BY DEF Init, Running, ExecutorAt
<1>4. now = 0 BY DEF Init
<1> QED BY <1>1, <1>2, <1>3, <1>4 DEF Service!Init

(* Every action of the service is enabled while the process runs, and      *)
(* stands for one of the runtime.                                          *)
LEMMA ServiceTicks ==
  ASSUME Tick PROVE Service!Next
<1>1. Service!Tick
  BY DEF Tick, Service!Tick, WrittenFor, Running
<1>2. Running BY DEF Tick
<1> QED BY <1>1, <1>2 DEF Service!Next

LEMMA ServiceAccepts ==
  ASSUME TypeOK, NEW c \in Clients, Upgrade(c)
  PROVE  Service!Next
<1>1. PICK r \in Offered[c] :
        sessions' = [sessions EXCEPT ![c] =
                       [at |-> "upgraded", request |-> r, ts |-> now]]
  BY DEF Upgrade
<1>2. /\ Running /\ sessions[c].at = "idle" /\ now' = now
      /\ written' = written /\ executor' = executor /\ server' = server
  BY DEF Upgrade
<1>3. /\ DOMAIN sessions = Clients
      /\ sessions'[c].at # "idle" /\ sessions'[c].request = r
      /\ sessions'[c].ts = now
      /\ \A d \in Clients : d # c => sessions'[d] = sessions[d]
  BY <1>1 DEF TypeOK
<1>4. /\ AskedBy(c) = <<>>
      /\ AllAsked' = [AllAsked EXCEPT ![c] = [asked |-> r, start |-> now]]
  <2>1. AskedBy(c)' = [asked |-> r, start |-> now] BY <1>3 DEF AskedBy
  <2>2. \A d \in Clients : d # c => AskedBy(d)' = AskedBy(d)
    BY <1>3 DEF AskedBy
  <2>3. AskedBy(c) = <<>> BY <1>2 DEF AskedBy
  <2>4. AllAsked' = [d \in Clients |-> AskedBy(d)'] BY DEF AllAsked
  <2> QED BY <2>1, <2>2, <2>3, <2>4 DEF AllAsked
<1>5. AllSaid' = AllSaid BY <1>2 DEF AllSaid, WrittenFor
<1>6. (~Running)' = ~Running BY <1>2 DEF Running
<1>7. Service!Accept(c)
  BY <1>2, <1>4, <1>5, <1>6
     DEF Service!Accept, AllAsked, AskedBy, AllSaid
<1> QED BY <1>2, <1>7 DEF Service!Next

LEMMA ServiceStops ==
  ASSUME ServerDown PROVE Service!Next
<1>1. Service!Stop
  BY DEF ServerDown, Service!Stop, WrittenFor, Running
<1>2. Running BY DEF ServerDown
<1> QED BY <1>1, <1>2 DEF Service!Next

LEMMA ServiceSays ==
  ASSUME TypeOK, PendingMirrorsActive, ScriptInv, ExecutorWritten
  PROVE  Service!Next
<1> DEFINE ts == executor.op.scheduled_timestamp
           text == executor.text
<1>1. PICK c \in Clients : c = executor.task.client
  BY OrderTypes DEF ExecutorWritten
<1>2. /\ Running /\ executor.at = "writing" /\ executor'.at = "waiting"
      /\ sessions' = sessions /\ now' = now /\ server' = server
      /\ written' = Append(written,
                           [client |-> c, text |-> text, at |-> ts])
  BY <1>1 DEF ExecutorWritten, ExecutorAt
<1>3. /\ HasTask(c)
      /\ Len(WrittenFor(c)) < Len(ScriptFor(c))
      /\ ScriptFor(c)[Len(WrittenFor(c)) + 1] = Said(ts, text)
      /\ ts <= now
  BY <1>1, <1>2 DEF ScriptInv, TasksOwned, Owns, WritingOnScript
<1>4. /\ written \in Seq(Entries)
      /\ [client |-> c, text |-> text, at |-> ts] \in Entries
  <2>1. executor \in Writing BY <1>2 DEF TypeOK
  <2>2. text \in Texts /\ ts \in Word BY <2>1 DEF Writing, Operations
  <2> QED BY <2>2, ScriptTypes DEF Entries, ScriptInv
<1> HIDE DEF ts, text
<1>5. \A d \in Clients :
        WrittenFor(d)' = IF d = c THEN Append(WrittenFor(c), Said(ts, text))
                         ELSE WrittenFor(d)
  <2> DEFINE e == [client |-> c, text |-> text, at |-> ts]
  <2>1. e.client = c /\ e.at = ts /\ e.text = text OBVIOUS
  <2>2. written' = Append(written, e) /\ e \in Entries BY <1>2, <1>4
  <2> HIDE DEF e
  <2>3. \A d \in Clients :
          TextsFor(d, Append(written, e)) =
            IF e.client # d THEN TextsFor(d, written)
            ELSE Append(TextsFor(d, written), Said(e.at, e.text))
    BY <1>4, <2>2, TextsForAppend
  <2> QED BY <2>1, <2>2, <2>3 DEF WrittenFor
<1>6. AllSaid' = [AllSaid EXCEPT ![c] = Append(@, Said(ts, text))]
  <2>1. AllSaid' = [d \in Clients |-> WrittenFor(d)'] BY DEF AllSaid
  <2> QED BY <1>5, <2>1 DEF AllSaid
<1>7. /\ AllSaid[c] = WrittenFor(c)
      /\ AllAsked[c] = [asked |-> sessions[c].request,
                        start |-> sessions[c].ts]
      /\ AllAsked' = AllAsked
  BY <1>2, <1>3 DEF AllSaid, AllAsked, AskedBy, HasTask
<1>8. (~Running)' = ~Running BY <1>2 DEF Running
<1>9. Service!ScriptOf(c) = ScriptFor(c)
  <2>1. sessions[c].at # "idle" BY <1>3 DEF HasTask
  <2>2. [asked |-> sessions[c].request, start |-> sessions[c].ts] # <<>>
    <3>1. \A x, y : DOMAIN [asked |-> x, start |-> y] = {"asked", "start"}
      OBVIOUS
    <3>2. DOMAIN <<>> = {} OBVIOUS
    <3> QED BY <3>1, <3>2
  <2> QED BY <2>1, <2>2 DEF Service!ScriptOf, ScriptFor
<1>10. Said(ts, text).at = ts BY DEF Said
<1>11. Service!Say(c)
  <2>1. Len(AllSaid[c]) < Len(Service!ScriptOf(c))
    BY <1>3, <1>7, <1>9
  <2>2. Service!ScriptOf(c)[Len(AllSaid[c]) + 1] = Said(ts, text)
    BY <1>3, <1>7, <1>9
  <2>3. AllSaid' = [AllSaid EXCEPT ![c] =
                      Append(@, Service!ScriptOf(c)[Len(@) + 1])]
    BY <1>6, <2>2
  <2>4. Service!Say(c) <=>
          /\ Len(AllSaid[c]) < Len(Service!ScriptOf(c))
          /\ Service!ScriptOf(c)[Len(AllSaid[c]) + 1].at <= now
          /\ AllSaid' = [AllSaid EXCEPT ![c] =
                           Append(@, Service!ScriptOf(c)[Len(@) + 1])]
          /\ now' = now /\ AllAsked' = AllAsked /\ (~Running)' = ~Running
    BY DEF Service!Say, AllSaid, AllAsked, AskedBy
  <2> QED BY <1>2, <1>3, <1>7, <1>8, <1>10, <2>1, <2>2, <2>3, <2>4
<1> QED BY <1>2, <1>11 DEF Service!Next

LEMMA ServiceRefined ==
  ASSUME TypeOK, PendingMirrorsActive, ScriptInv, NoPanic', [Next]_vars
  PROVE  [Service!Next]_Service!serviceVars
<1>1. CASE UNCHANGED <<now, sessions, written, server>> /\ ~Tick
  <2>1. AllAsked' = AllAsked /\ AllSaid' = AllSaid
    BY <1>1 DEF AllAsked, AskedBy, AllSaid, WrittenFor
  <2>2. CASE Running
    <3>1. Running' BY <1>1, <2>2 DEF Running, NoPanic
    <3> QED BY <1>1, <2>1, <2>2, <3>1, ServiceStutters
  <2>3. CASE ~Running
    <3>1. Ended \/ UNCHANGED vars
      BY <2>3
         DEF Next, Tick, Upgrade, RequestLock, schedule, StateRequest,
             state_handler, StateCancel, WriterRecv, WriterSend, Disconnect,
             ExecutorWake, ExecutorBreak, ExecutorStep, ExecutorWritten,
             quit_handler, BeginShutdown, ServerDown, Acquires
    <3>2. Running' <=> Running BY <3>1 DEF Ended, vars, Running
    <3> QED BY <1>1, <2>1, <3>2, ServiceStutters
  <2> QED BY <2>2, <2>3
<1>2. ASSUME NEW c \in Clients, RequestLock(c) \/ schedule(c)
      PROVE  UNCHANGED Service!serviceVars
  <2>1. sessions[c] \in Upgraded
    BY <1>2 DEF RequestLock, schedule, TypeOK, Idle, Scheduled
  <2>2. /\ sessions[c].at # "idle" /\ sessions'[c].at # "idle"
        /\ sessions'[c].request = sessions[c].request
        /\ sessions'[c].ts = sessions[c].ts
        /\ \A d \in Clients : d # c => sessions'[d] = sessions[d]
    BY <1>2, <2>1 DEF RequestLock, schedule, TypeOK, Upgraded
  <2>3. \A d \in Clients : AskedBy(d)' = AskedBy(d)
    BY <2>2 DEF AskedBy
  <2>4. AllAsked' = AllAsked BY <2>3 DEF AllAsked
  <2>5. UNCHANGED <<now, written, executor, server>>
    BY <1>2 DEF RequestLock, schedule
  <2>6. AllSaid' = AllSaid BY <2>5 DEF AllSaid, WrittenFor
  <2>7. Running' <=> Running BY <2>5 DEF Running
  <2> QED BY <2>4, <2>5, <2>6, <2>7, ServiceStutters
<1>3. CASE quit_handler \/ BeginShutdown
  <2>1. AllAsked' = AllAsked /\ AllSaid' = AllSaid /\ now' = now
    BY <1>3
       DEF quit_handler, BeginShutdown, AllAsked, AskedBy, AllSaid, WrittenFor
  <2>2. Running' <=> Running
    BY <1>3 DEF quit_handler, BeginShutdown, Running
  <2> QED BY <2>1, <2>2, ServiceStutters
<1> QED
  BY <1>1, <1>2, <1>3, ServiceTicks, ServiceAccepts, ServiceStops, ServiceSays
     DEF Next, vars, StateRequest, state_handler, StateCancel, WriterRecv,
         WriterSend, Disconnect, ExecutorWake, ExecutorBreak, ExecutorStep,
         Ended

(* The runtime with its Mutex, its executor and the stacks and heaps of    *)
(* its tasks does what the service promises.                               *)
THEOREM ServiceImplemented == ScriptsFit /\ Spec => ImplementsService
<1> SUFFICES ASSUME ScriptsFit PROVE Spec => ImplementsService OBVIOUS
<1>1. TypeOK /\ PendingMirrorsActive /\ ScriptInv /\ NoPanic' /\ [Next]_vars
        => [Service!Next]_Service!serviceVars
  BY ServiceRefined
<1> QED
  BY <1>1, ServiceStarts, TypeCorrect, MirrorCorrect, ScriptsFollowed,
     NeverPanics, PTL
     DEF Spec, ImplementsService, Service!Spec

LEMMA NeverWraps == ScriptsFit /\ Spec => []NoSleepWraps
<1> SUFFICES ASSUME ScriptsFit PROVE Spec => []NoSleepWraps OBVIOUS
<1>1. TypeOK /\ PendingMirrorsActive /\ ScriptInv => NoSleepWraps
  BY NoSleepCanWrap
<1> QED BY <1>1, TypeCorrect, MirrorCorrect, ScriptsFollowed, PTL

(* The texts of all clients are written in the order of their timestamps,  *)
(* but for those of a task whose handler got the Mutex too late: the heap  *)
(* always gives the earliest operation, and none comes in while the        *)
(* executor writes.                                                        *)
THEOREM OrderCorrect == ScriptsFit /\ Spec => []OrderedUnlessLate
BY NeverWraps, OrderUnlessWraps, PTL

(* Each text that was written is one of its client's script.               *)
WrittenFromScripts ==
  \A i \in DOMAIN written :
    LET w == written[i]
    IN /\ w.client \in Clients /\ HasTask(w.client)
       /\ \E j \in 1 .. Len(ScriptFor(w.client)) :
            ScriptFor(w.client)[j] = Said(w.at, w.text)

LEMMA WrittenPreserved ==
  ASSUME TypeOK, PendingMirrorsActive, ScriptInv, WrittenFromScripts,
         [Next]_vars
  PROVE  WrittenFromScripts'
<1>1. \A c \in Clients :
        HasTask(c) => HasTask(c)' /\ ScriptFor(c)' = ScriptFor(c)
  BY ScheduledStays DEF HasTask, ScriptFor
<1>2. ASSUME NEW w, w.client \in Clients, HasTask(w.client),
             NEW j \in 1 .. Len(ScriptFor(w.client)),
             ScriptFor(w.client)[j] = Said(w.at, w.text)
      PROVE  /\ w.client \in Clients /\ HasTask(w.client)'
             /\ \E i \in 1 .. Len(ScriptFor(w.client)') :
                  ScriptFor(w.client)'[i] = Said(w.at, w.text)
  BY <1>1, <1>2
<1>3. CASE written' = written
  BY <1>2, <1>3 DEF WrittenFromScripts, HasTask, ScriptFor
<1>4. CASE ExecutorWritten
  <2> DEFINE ts == executor.op.scheduled_timestamp
             text == executor.text
  <2>1. PICK c \in Clients : c = executor.task.client
    BY <1>4, OrderTypes DEF ExecutorWritten
  <2> DEFINE e == [client |-> c, text |-> text, at |-> ts]
             k == Len(WrittenFor(c))
             n == Len(written)
  <2>2. /\ executor.at = "writing" /\ written' = Append(written, e)
    BY <1>4, <2>1 DEF ExecutorWritten
  <2>3. /\ HasTask(c) /\ k < Len(ScriptFor(c))
        /\ ScriptFor(c)[k + 1] = Said(ts, text)
    BY <2>1, <2>2 DEF ScriptInv, TasksOwned, Owns, WritingOnScript
  <2>4. k + 1 \in 1 .. Len(ScriptFor(c))
    <3>1. k \in Nat BY ScriptTypes DEF ScriptInv
    <3>2. Len(ScriptFor(c)) \in Nat
      BY <2>3, ScriptTypes DEF ScriptInv, IsScript, HasTask
    <3> HIDE DEF k
    <3> QED BY <2>3, <3>1, <3>2
  <2>5. e.client = c /\ e.text = text /\ e.at = ts OBVIOUS
  <2> HIDE DEF e, ts, text, k
  <2>6. /\ DOMAIN written' = 1 .. (n + 1) /\ written'[n + 1] = e
        /\ \A i \in 1 .. n : written'[i] = written[i]
        /\ DOMAIN written = 1 .. n /\ n \in Nat
    <3>1. \A S, x : \A s \in Seq(S) :
            /\ DOMAIN Append(s, x) = 1 .. (Len(s) + 1)
            /\ Append(s, x)[Len(s) + 1] = x
            /\ \A i \in 1 .. Len(s) : Append(s, x)[i] = s[i]
            /\ DOMAIN s = 1 .. Len(s) /\ Len(s) \in Nat
      OBVIOUS
    <3>2. written \in Seq(Entries) BY ScriptTypes DEF ScriptInv
    <3> QED BY <2>2, <3>1, <3>2
  <2> HIDE DEF n
  <2>7. \A i \in 1 .. (n + 1) : i = n + 1 \/ i \in 1 .. n BY <2>6
  <2>8. \A i \in 1 .. (n + 1) :
          LET w == written'[i]
          IN /\ w.client \in Clients /\ HasTask(w.client)
             /\ \E j \in 1 .. Len(ScriptFor(w.client)) :
                  ScriptFor(w.client)[j] = Said(w.at, w.text)
    <3>1. \A i \in 1 .. n :
            LET w == written[i]
            IN /\ w.client \in Clients /\ HasTask(w.client)
               /\ \E j \in 1 .. Len(ScriptFor(w.client)) :
                    ScriptFor(w.client)[j] = Said(w.at, w.text)
      BY <2>6 DEF WrittenFromScripts
    <3>2. /\ e.client \in Clients /\ HasTask(e.client)
          /\ \E j \in 1 .. Len(ScriptFor(e.client)) :
               ScriptFor(e.client)[j] = Said(e.at, e.text)
      BY <2>3, <2>4, <2>5
    <3> QED BY <2>6, <2>7, <3>1, <3>2
  <2> QED
    BY <1>1, <2>6, <2>8 DEF WrittenFromScripts, HasTask, ScriptFor
<1> QED
  BY <1>3, <1>4
     DEF Next, vars, Tick, Upgrade, RequestLock, schedule, StateRequest,
         state_handler, StateCancel, WriterRecv, WriterSend, Disconnect,
         ExecutorWake, ExecutorBreak, ExecutorStep, quit_handler,
         BeginShutdown, ServerDown, Ended

(* "Delayed by t ms" is due no earlier than it says, unless a timestamp    *)
(* wraps around.                                                           *)
THEOREM DelaysCorrect == ScriptsFit /\ Spec => []DelayedAsAnnounced
<1> SUFFICES ASSUME ScriptsFit PROVE Spec => []DelayedAsAnnounced OBVIOUS
<1>1. Init => WrittenFromScripts BY DEF Init, WrittenFromScripts
<1>2. WrittenFromScripts /\ TypeOK /\ PendingMirrorsActive /\ ScriptInv
        /\ [Next]_vars
        => WrittenFromScripts'
  BY WrittenPreserved
<1>3. TypeOK /\ PendingMirrorsActive /\ ScriptInv /\ WrittenFromScripts
        => DelayedAsAnnounced
  <2> SUFFICES ASSUME TypeOK, PendingMirrorsActive, ScriptInv,
                      WrittenFromScripts, NEW i \in DOMAIN written,
                      IsDelayText(written[i].text)
               PROVE  written[i].at >= sessions[written[i].client].ts
                                         + written[i].text[2]
    BY DEF DelayedAsAnnounced, IsDelayText
  <2> DEFINE c == written[i].client
             at == written[i].at
             text == written[i].text
             r == sessions[c].request
             start == sessions[c].ts
  <2>1. /\ c \in Clients /\ HasTask(c)
        /\ \E j \in 1 .. Len(ScriptFor(c)) : ScriptFor(c)[j] = Said(at, text)
    BY DEF WrittenFromScripts
  <2>2. /\ r \in Requests(Word, Word) /\ start \in Word
        /\ ScriptFor(c) = Script(r, start)
    BY <2>1, ScriptTypes DEF ScriptInv, HasTask
  <2> HIDE DEF r, start, at, text, c
  <2>3. PICK j \in 1 .. Len(Script(r, start)) :
          Script(r, start)[j] = Said(at, text)
    BY <2>1, <2>2
  <2>4. at = start + text[2]
    <3>1. Said(at, text).at = at /\ Said(at, text).text = text BY DEF Said
    <3>2. IsDelayText(Script(r, start)[j].text) BY <2>3, <3>1 DEF text
    <3> QED BY <2>2, <2>3, <3>1, <3>2, DelayedTextIsDue
  <2>5. at \in Nat
    BY OrderTypes DEF at
  <2> QED BY <2>4, <2>5 DEF at, start, text, c
<1> QED
  BY <1>1, <1>2, <1>3, TypeCorrect, MirrorCorrect, ScriptsFollowed, PTL
     DEF Spec

=============================================================================
