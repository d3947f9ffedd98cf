------------------------------ MODULE RedisSub ------------------------------
(***************************************************************************)
(* step06_redis, `--mode sub`: main listens on a channel of Redis, a local *)
(* task cancels a token after some seconds, and another one may publish    *)
(* after some seconds, unless the token is cancelled first.  The two local *)
(* tasks are dropped with the LocalSet when main's future is done.         *)
(*                                                                         *)
(* The delays are arguments of the program: a timer here fires at any      *)
(* time, in any order.  The arguments are any `f64`, and one that is no    *)
(* duration (negative, infinite, no number) makes its task panic as soon   *)
(* as it runs: that ends this task alone.  Redis is modelled as it is      *)
(* used: it pushes what is published after a subscription to the           *)
(* subscriber, in order.                                                   *)
(***************************************************************************)
EXTENDS Naturals, Sequences, Functions

CONSTANTS
  OtherMessages,  \* what other processes publish, each at most once
  BadMessages     \* those of them that are no text

ASSUME RedisSubAssumption ==
  "own" \notin OtherMessages /\ BadMessages \subseteq OtherMessages

VARIABLES
  args,          \* the two delays of the command line
  step,          \* which of Steps try_sub is at
  outcome,       \* "running", or how the program has ended
  cancel_token,  \* whether it is cancelled
  timer,         \* the task that sleeps and cancels: "none", "sleep", "over"
                 \* or "panicked"
  publisher,     \* the task that publishes: "none", "sleep", "publishing",
                 \* "done", "cancelled" or "panicked"
  own,           \* its command: "none", "queued", "executed" or "refused"
  others,        \* what other processes have published
  subscribed,    \* whether Redis has the subscription
  linked,        \* whether the connection of the subscription is up
  stream,        \* what Redis has pushed and the program has not read
  heard          \* what the program has printed

tasks   == <<cancel_token, timer, publisher>>
redis   == <<own, others, subscribed, linked, stream, heard>>
subVars == <<args, step, outcome, tasks, redis>>

(* An argument of type f64 is a duration or not; the second is an option.  *)
Args == [subscribe_for_seconds : {"seconds", "no duration"},
         and_publish_in_seconds : {"None", "seconds", "no duration"}]

(* Mutant: the tasks are spawned before the subscription is made.          *)
SpawnFirst == <<"connect", "open", "spawn", "subscribe", "listen">>

(* What try_sub does in turn; each step but the last awaits a reply.       *)
Steps == <<"connect", "subscribe", "open", "spawn", "listen">>

SubRunning == outcome = "running"

At(name) == SubRunning /\ Steps[step] = name

SubInit ==
  /\ args \in Args
  /\ step = 1
  /\ outcome = "running"
  /\ cancel_token = FALSE
  /\ timer = "none"
  /\ publisher = "none"
  /\ own = "none"
  /\ others = {}
  /\ subscribed = FALSE
  /\ linked = TRUE
  /\ stream = <<>>
  /\ heard = <<>>

-----------------------------------------------------------------------------
(* try_sub before its select!.  The publisher is spawned if an argument    *)
(* asks for it.                                                            *)

Connect ==
  /\ At("connect") \/ At("open")
  /\ step' = step + 1
  /\ UNCHANGED <<args, outcome, tasks, redis>>

Subscribe ==
  /\ At("subscribe")
  /\ step' = step + 1
  /\ subscribed' = TRUE
  /\ UNCHANGED <<args, outcome, tasks, own, others, linked, stream, heard>>

SetupFails ==
  /\ At("connect") \/ At("subscribe") \/ At("open")
  /\ outcome' = "failed"
  /\ UNCHANGED <<args, step, tasks, redis>>

Spawn ==
  /\ At("spawn")
  /\ step' = step + 1
  /\ timer' = "sleep"
  /\ publisher' =
       IF args.and_publish_in_seconds = "None" THEN "none" ELSE "sleep"
  /\ UNCHANGED <<args, outcome, cancel_token, redis>>

-----------------------------------------------------------------------------
(* The select! of main: the branches that are ready are taken in any order.*)

(* A message that is no text makes `get_payload().unwrap()` panic.         *)
Listen ==
  /\ At("listen")
  /\ stream # <<>>
  /\ stream' = Tail(stream)
  /\ IF Head(stream) \in BadMessages
     THEN outcome' = "panicked" /\ heard' = heard
     ELSE outcome' = outcome /\ heard' = Append(heard, Head(stream))
  /\ UNCHANGED <<args, step, tasks, own, others, subscribed, linked>>

StreamEnds ==
  /\ At("listen")
  /\ stream = <<>>
  /\ ~linked
  /\ outcome' = "closed"
  /\ UNCHANGED <<args, step, tasks, redis>>

TimesOut ==
  /\ At("listen")
  /\ cancel_token
  /\ outcome' = "timed out"
  /\ UNCHANGED <<args, step, tasks, redis>>

-----------------------------------------------------------------------------
(* The local tasks.  A command handed to the connection is not taken back  *)
(* when the future that waits for its reply is dropped.                    *)

(* Mutant: the timer cancels a child of the token.                         *)
TimerFiresInVain ==
  /\ SubRunning
  /\ timer = "sleep" /\ args.subscribe_for_seconds = "seconds"
  /\ timer' = "over"
  /\ UNCHANGED <<args, step, outcome, cancel_token, publisher, redis>>

TimerFires ==
  /\ SubRunning
  /\ timer = "sleep" /\ args.subscribe_for_seconds = "seconds"
  /\ timer' = "over"
  /\ cancel_token' = TRUE
  /\ UNCHANGED <<args, step, outcome, publisher, redis>>

(* `Duration::from_secs_f64` panics: nobody will cancel the token.         *)
TimerPanics ==
  /\ SubRunning
  /\ timer = "sleep" /\ args.subscribe_for_seconds = "no duration"
  /\ timer' = "panicked"
  /\ UNCHANGED <<args, step, outcome, cancel_token, publisher, redis>>

PublisherPanics ==
  /\ SubRunning
  /\ publisher = "sleep" /\ args.and_publish_in_seconds = "no duration"
  /\ publisher' = "panicked"
  /\ UNCHANGED <<args, step, outcome, cancel_token, timer, redis>>

Publish ==
  /\ SubRunning
  /\ publisher = "sleep" /\ args.and_publish_in_seconds = "seconds"
  /\ publisher' = "publishing"
  /\ own' = "queued"
  /\ UNCHANGED <<args, step, outcome, cancel_token, timer, others, subscribed,
                 linked, stream, heard>>

(* `unwrap()` of an error ends the task alone: nobody awaits its handle.   *)
Published ==
  /\ SubRunning
  /\ publisher = "publishing"
  /\ own \in {"executed", "refused"}
  /\ publisher' = IF own = "executed" THEN "done" ELSE "panicked"
  /\ UNCHANGED <<args, step, outcome, cancel_token, timer, redis>>

PublisherCancelled ==
  /\ SubRunning
  /\ cancel_token
  /\ publisher \in {"sleep", "publishing"}
  /\ publisher' = "cancelled"
  /\ UNCHANGED <<args, step, outcome, cancel_token, timer, redis>>

-----------------------------------------------------------------------------
(* Redis, and other processes; `--mode pub` is one of them.                *)

Push(message) ==
  /\ stream' = IF subscribed /\ linked THEN Append(stream, message) ELSE stream
  /\ UNCHANGED <<args, step, outcome, tasks, subscribed, linked, heard>>

RedisExecutes ==
  /\ own = "queued"
  /\ own' = "executed"
  /\ others' = others
  /\ Push("own")

RedisRefuses ==
  /\ own = "queued"
  /\ own' = "refused"
  /\ UNCHANGED <<args, step, outcome, tasks, others, subscribed, linked, stream,
                 heard>>

try_pub(message) ==
  /\ message \notin others
  /\ others' = others \cup {message}
  /\ own' = own
  /\ Push(message)

LinkBreaks ==
  /\ SubRunning
  /\ linked
  /\ linked' = FALSE
  /\ UNCHANGED <<args, step, outcome, tasks, own, others, subscribed, stream,
                 heard>>

Setup == Connect \/ Subscribe \/ SetupFails \/ Spawn

SubNext ==
  \/ Setup
  \/ Listen \/ StreamEnds \/ TimesOut
  \/ TimerFires \/ TimerPanics
  \/ Publish \/ PublisherPanics \/ Published \/ PublisherCancelled
  \/ RedisExecutes \/ RedisRefuses \/ LinkBreaks
  \/ \E message \in OtherMessages : try_pub(message)

SubSpec == SubInit /\ [][SubNext]_subVars

-----------------------------------------------------------------------------
(* What the program publishes itself it gets to hear: as long as it is     *)
(* connected and runs, the message is on its way or printed, and nothing   *)
(* is printed twice (main.rs:56-65, 82).                                   *)
OwnMessageArrives ==
  LET all == heard \o stream
  IN /\ own = "executed" /\ linked /\ SubRunning => "own" \in Range(all)
     /\ IsInjective(all)
=============================================================================
