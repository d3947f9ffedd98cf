----------------------------- MODULE AsyncRedb -----------------------------
(***************************************************************************)
(* The bridge from async handlers to the blocking database, the same in    *)
(* step07_redb and step12_ws_feed: `run` sends a request with a one-shot   *)
(* channel for the reply through a bounded queue; one thread takes the     *)
(* requests and executes them one after the other.                         *)
(*                                                                         *)
(* What a request does to the database is for the module that extends this *)
(* one: it executes the request that `worker` holds and calls Reply.  What *)
(* it leaves to a caller is when to call `run` and what to do next.        *)
(***************************************************************************)
EXTENDS FairQueue, Maps

CONSTANTS
  Callers,    \* the futures that call `run`
  QueueSize,  \* DEFAULT_REQUEST_QUEUE_SIZE (32)
  Nobody      \* instead of a caller that no longer listens

ASSUME RedbAssumption == QueueSize \in Nat \ {0} /\ Nobody \notin Callers

VARIABLES
  calls,      \* per caller, how far its call of `run` has come
  senders,    \* the callers that wait for a slot of the queue, in order
  queue,      \* the mpsc channel: requests, each with its caller
  worker      \* <<>>, or the request the thread is executing

redb == <<calls, senders, queue, worker>>

-----------------------------------------------------------------------------
NoCall == [at |-> "none"]
Entry(c, request) == [from |-> c, request |-> request]

Ok(value) == [ok |-> TRUE, value |-> value]
Err       == [ok |-> FALSE]

RedbInit ==
  /\ calls = [c \in Callers |-> NoCall]
  /\ senders = <<>>
  /\ queue = <<>>
  /\ worker = <<>>

(* Calls `run`; a caller that holds a reply takes it in the same step.     *)
Run(c, request) ==
  /\ calls[c].at \in {"none", "replied"}
  /\ calls' = [calls EXCEPT ![c] = [at |-> "sending", request |-> request]]
  /\ senders' = Append(senders, c)
  /\ UNCHANGED <<queue, worker>>

(* Goes on without a call, with the reply taken if there is one.           *)
Finish(c) ==
  /\ calls[c].at \in {"none", "replied"}
  /\ calls' = [calls EXCEPT ![c] = NoCall]
  /\ UNCHANGED <<senders, queue, worker>>

(* Mutant: an unbounded channel.                                           *)
AlwaysHoldsSlot(c) == calls[c].at = "sending"


(* The free slots are granted in the order of `senders`; those that were   *)
(* granted one use it in any order.                                        *)
HoldsSlot(c) ==
  \E i \in DOMAIN senders : senders[i] = c /\ i + Len(queue) <= QueueSize

(* `request_tx.send(request).await` completes.                             *)
Send(c) ==
  /\ HoldsSlot(c)
  /\ queue' = Append(queue, Entry(c, calls[c].request))
  /\ senders' = Without(senders, c)
  /\ calls' = [calls EXCEPT ![c].at = "awaiting"]
  /\ UNCHANGED worker

(* `request_rx.blocking_recv()` returns.                                   *)
WorkerRecv ==
  /\ worker = <<>>
  /\ queue # <<>>
  /\ worker' = <<Head(queue)>>
  /\ queue' = Tail(queue)
  /\ UNCHANGED <<calls, senders>>

Replied(c, request, reply) ==
  calls' = [calls EXCEPT ![c] =
              [at |-> "replied", request |-> request, reply |-> reply]]

(* Mutant: the result of `send` is unwrapped, the thread panics.           *)
ReplyOrPanic(reply) ==
  /\ worker # <<>> /\ worker[1].from # Nobody
  /\ worker' = <<>>
  /\ Replied(worker[1].from, worker[1].request, reply)
  /\ UNCHANGED <<senders, queue>>

(* `response_tx.send(result)`; to a dropped receiver it is ignored.        *)
Reply(reply) ==
  /\ worker # <<>>
  /\ worker' = <<>>
  /\ IF worker[1].from = Nobody THEN calls' = calls
     ELSE Replied(worker[1].from, worker[1].request, reply)
  /\ UNCHANGED <<senders, queue>>

(* Mutant: the request of a dropped future still answers to its caller.    *)
StillFrom(entries, c) == entries

Disowned(entries, c) ==
  [i \in DOMAIN entries |->
     IF entries[i].from = c THEN [entries[i] EXCEPT !.from = Nobody]
     ELSE entries[i]]

(* The future of `run` is dropped: a request that waits for a slot is      *)
(* never sent, one that was sent is executed all the same.                 *)
Hangup(c) ==
  /\ calls[c].at # "none"
  /\ calls' = [calls EXCEPT ![c] = NoCall]
  /\ senders' = IF calls[c].at = "sending" THEN Without(senders, c)
                ELSE senders
  /\ queue' = Disowned(queue, c)
  /\ worker' = Disowned(worker, c)

(* The process ends, and starts again without a call.                      *)
RedbRestart ==
  /\ calls' = [c \in Callers |-> NoCall]
  /\ senders' = <<>>
  /\ queue' = <<>>
  /\ worker' = <<>>

-----------------------------------------------------------------------------
(* How a call looks from outside; what its reply is, is for RedbTypeOK.    *)
CallShape(call, Requests) ==
  \/ call = NoCall
  \/ call \in [at : {"sending", "awaiting"}, request : Requests]
  \/ /\ DOMAIN call = {"at", "request", "reply"}
     /\ call.at = "replied" /\ call.request \in Requests

Entries(Requests) == [from : Callers \cup {Nobody}, request : Requests]

RedbShape(Requests) ==
  /\ DOMAIN calls = Callers
  /\ \A c \in Callers : CallShape(calls[c], Requests)
  /\ senders \in Seq(Callers)
  /\ queue \in Seq(Entries(Requests))
  /\ worker \in Seq(Entries(Requests)) /\ Len(worker) <= 1

(* Each reply is of the type that `downcast` expects for its request.      *)
RedbTypeOK(Requests, IsReply(_, _)) ==
  /\ RedbShape(Requests)
  /\ \A c \in Callers :
       calls[c].at = "replied" =>
         calls[c].reply = Err \/ IsReply(calls[c].request, calls[c].reply)

(* The places of the queue and of the worker's hand, one after the other.  *)
Pipeline == worker \o queue

Places(entries, c) == {i \in DOMAIN entries : entries[i].from = c}

(* A call that awaits its reply is on its way once, any other is not.      *)
OnItsWay(entries, c, call) ==
  IF call.at = "awaiting"
  THEN \E i \in DOMAIN entries : /\ Places(entries, c) = {i}
                                 /\ entries[i].request = call.request
  ELSE Places(entries, c) = {}

(* Every call is where its caller believes it to be: it waits for a slot   *)
(* once or is on its way to the worker once, with its own request, and a   *)
(* call that is over is nowhere, whoever hung up before: no reply is lost, *)
(* comes twice or goes to a later call.  The queue never exceeds its size. *)
CallsInFlight ==
  /\ Distinct(senders)
  /\ Members(senders) = {c \in Callers : calls[c].at = "sending"}
  /\ \A c \in Callers : OnItsWay(Pipeline, c, calls[c])
  /\ Len(queue) <= QueueSize

(* The thread goes on, and so does a sender that holds a slot.             *)
RedbFairness ==
  /\ WF_redb(WorkerRecv)
  /\ \A c \in Callers : WF_redb(Send(c))

(* Every call of `run` is answered, however full the queue is, unless its  *)
(* caller hangs up or the process ends.                                    *)
RequestsAnswered ==
  \A c \in Callers :
    calls[c].at \in {"sending", "awaiting"}
      ~> calls[c].at \in {"replied", "none"}
=============================================================================
