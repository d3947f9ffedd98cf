----------------------- MODULE MaroonImplementsService -----------------------
(***************************************************************************)
(* The runtime against the service it provides: the refinement mapping     *)
(* from MaroonRuntime to MaroonService, and the properties that compare    *)
(* what was written and delivered with the service's scripts.              *)
(***************************************************************************)
EXTENDS MaroonRuntime, MaroonScripts

(* What was written for client c, in order.                                *)
TextsFor(c, texts) ==
  LET For[k \in 0 .. Len(texts)] ==
        IF k = 0 THEN <<>>
        ELSE IF texts[k].client # c THEN For[k - 1]
        ELSE Append(For[k - 1], Said(texts[k].at, texts[k].text))
  IN For[Len(texts)]

WrittenFor(c) == TextsFor(c, written)

Service ==
  INSTANCE MaroonService WITH
    clock   <- now,
    request <- [c \in Clients |->
                  IF sessions[c].at = "idle" THEN <<>>
                  ELSE [asked |-> sessions[c].request,
                        start |-> sessions[c].ts]],
    said    <- [c \in Clients |-> WrittenFor(c)],
    stopped <- ~Running

(* Nothing that a client may ask for, at any of the instants, wraps around *)
(* before its script is over.                                              *)
ScriptsFit ==
  \A c \in Clients : \A r \in Offered[c], start \in Instants :
    ScriptFits(r, start)

(* The message "Delayed by t ms" is not written before t ms have passed    *)
(* since the request: what its text says, format_delayed_message.          *)
DelayedAsAnnounced ==
  \A k \in DOMAIN written :
    LET w == written[k]
    IN w.text[1] = "Delayed by" =>
         w.at >= sessions[w.client].ts + w.text[2]

(* Each client is told exactly the texts of its script, in order, each     *)
(* with its own timestamp and never before it, whatever the other tasks,   *)
(* the waits for the Mutex and the full channels do: the executor with its *)
(* heap of timestamps, and the stacks and heaps of `global_step`.          *)
ImplementsService == Service!Spec

TextsOf(script) == [k \in DOMAIN script |-> script[k].text]

ScriptFor(c) == Script(sessions[c].request, sessions[c].ts)

(* A scheduled task that is neither active nor being written for has said  *)
(* everything: `Done` is the only way a task leaves `active_tasks` for     *)
(* good, and it comes after the last text.                                 *)
NoTaskLost ==
  \A c \in Clients :
    sessions[c].at = "scheduled" =>
      \/ sessions[c].task_id \in DOMAIN active_tasks \cup InFlight
      \/ WrittenFor(c) = ScriptFor(c)

(* The model's clock goes far enough for the whole script of c.            *)
WithinHorizon(c) ==
  \A k \in DOMAIN ScriptFor(c) :
    \E t \in Instants : ScriptFor(c)[k].at <= t

(* The executor waits for room in the channel of a client that is still    *)
(* connected but does not read; it holds the Mutex meanwhile.              *)
StalledWrite ==
  /\ executor.at = "writing"
  /\ LET c == executor.task.client
     IN /\ c \notin ReadingClients /\ writers[c].connected
        /\ writers[c].in_hand # <<>>
        /\ Len(writers[c].channel) = ChannelCapacity

(* A client that asks, stays and reads gets its whole script on its        *)
(* socket, unless the server is told to quit: the handler gets the Mutex,  *)
(* the executor gets to the task, the channel drains.  Other clients that  *)
(* do not read cannot prevent it before the channel of one is full and     *)
(* stays so (main.rs:165-172, 575-584, 812-819, 943-951).                  *)
SessionsComplete ==
  \A c \in ReadingClients :
    (sessions[c].at # "idle" /\ WithinHorizon(c)) ~>
      \/ /\ sessions[c].at = "scheduled"
         /\ writers[c].received = TextsOf(ScriptFor(c))
      \/ ~writers[c].connected
      \/ server # "up"
      \/ []StalledWrite

(* Such a write is the one thing that can stop the server.  Unless it      *)
(* lasts for ever, a request of /state is answered, or its client goes     *)
(* away: the queue of the Mutex gets to it however much the executor has   *)
(* to do (main.rs:787-805, 943-951).                                       *)
StateAnswered ==
  \A o \in Observers :
    observers[o].at = "waiting" ~>
      observers[o].at \in {"answered", "cancelled"} \/ []StalledWrite

(* After /quit the process ends, whatever the executor is in the middle    *)
(* of: even such a write holds it up only for a request of /state in       *)
(* flight, which waits for the Mutex (main.rs:165-172, 943-951,            *)
(* 1019-1027).                                                             *)
QuitEnds ==
  server = "quitting" ~>
    \/ server = "down"
    \/ [](StalledWrite /\ \E o \in Observers : observers[o].at = "waiting")
=============================================================================
