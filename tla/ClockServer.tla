---------------------------- MODULE ClockServer -----------------------------
(***************************************************************************)
(* step10_websocket: a task that stores the time in a tokio watch channel  *)
(* each second, and a WebSocket handler per client that sends what it      *)
(* finds there whenever it has changed.  The server is GracefulServer.     *)
(*                                                                         *)
(* A value is known here by the number of the tick that made it; 0 is the  *)
(* text that the channel is created with.  The channel gives a new version *)
(* to each value stored, so the number is the version too.                 *)
(***************************************************************************)
EXTENDS GracefulServer, Sequences

CONSTANTS
  Clients,         \* the WebSocket clients of /ws
  ReadingClients,  \* those that stay and go on reading
  MaxTicks         \* bound: how often the ticker ticks

ASSUME ClockAssumption == ReadingClients \subseteq Clients /\ MaxTicks \in Nat

VARIABLES
  ticks,    \* how often the ticker has ticked
  current,  \* the value in the channel
  ws,       \* per client, where its handler is
  seen,     \* per client, the version that its receiver has marked as seen
  in_hand,  \* per client, the value that is being sent
  peer,     \* per client: "on", "left", or "reset" once its side has told
  shown     \* history: per client, the value it found when it subscribed
            \* and then those that were sent to it

clockVars == <<ticks, current, ws, seen, in_hand, peer, shown>>
vars == <<serverVars, clockVars>>

Subscribed == {c \in Clients : ws[c] \in {"waiting", "notified", "sending"}}

Init ==
  /\ ServerInit
  /\ ticks = 0
  /\ current = 0
  /\ ws = [c \in Clients |-> "away"]
  /\ seen = [c \in Clients |-> 0]
  /\ in_hand = [c \in Clients |-> 0]
  /\ peer = [c \in Clients |-> "on"]
  /\ shown = [c \in Clients |-> <<>>]

(* `tx.send(now)` stores nothing and fails if there is no receiver; the    *)
(* result is ignored.                                                      *)
Tick ==
  /\ Running
  /\ ticks < MaxTicks
  /\ ticks' = ticks + 1
  /\ current' = IF Subscribed = {} THEN current ELSE ticks + 1
  /\ UNCHANGED <<serverVars, ws, seen, in_hand, peer, shown>>

Goes(c, from, to) ==
  /\ Running
  /\ ws[c] = from
  /\ ws' = [ws EXCEPT ![c] = to]
  /\ UNCHANGED <<serverVars, ticks, current>>

(* A request of /ws, and its response 101; the server has done with the    *)
(* request then and the upgrade callback is a task of its own.             *)
ws_handler(c) ==
  /\ Accepting
  /\ Goes(c, "away", "handshake")
  /\ UNCHANGED <<seen, in_hand, peer, shown>>

Upgraded(c) ==
  /\ Goes(c, "handshake", "upgraded")
  /\ UNCHANGED <<seen, in_hand, peer, shown>>

(* The callback subscribes: the value in the channel counts as seen.       *)
Subscribe(c) ==
  /\ Goes(c, "upgraded", "waiting")
  /\ seen' = [seen EXCEPT ![c] = current]
  /\ shown' = [shown EXCEPT ![c] = <<current>>]
  /\ UNCHANGED <<in_hand, peer>>

(* Mutant: `changed` does not mark the version as seen.                    *)
ChangedUnmarked(c) ==
  /\ Goes(c, "waiting", "notified")
  /\ seen[c] # current
  /\ UNCHANGED <<seen, in_hand, peer, shown>>

(* `rx.changed().await` marks the version that it returns for as seen.     *)
Changed(c) ==
  /\ Goes(c, "waiting", "notified")
  /\ seen[c] # current
  /\ seen' = [seen EXCEPT ![c] = current]
  /\ UNCHANGED <<in_hand, peer, shown>>

(* `rx.borrow()` reads what is there now and marks nothing.                *)
Borrow(c) ==
  /\ Goes(c, "notified", "sending")
  /\ in_hand' = [in_hand EXCEPT ![c] = current]
  /\ UNCHANGED <<seen, peer, shown>>

(* Mutant: whatever has come while the handler was sending counts as seen. *)
SendMarksSeen(c) ==
  /\ peer[c] = "on"
  /\ Goes(c, "sending", "waiting")
  /\ shown' = [shown EXCEPT ![c] = Append(@, in_hand[c])]
  /\ in_hand' = [in_hand EXCEPT ![c] = 0]
  /\ seen' = [seen EXCEPT ![c] = current]
  /\ UNCHANGED peer

(* `socket.send` returns once the client has room for the text.            *)
Send(c) ==
  /\ peer[c] = "on"
  /\ Goes(c, "sending", "waiting")
  /\ shown' = [shown EXCEPT ![c] = Append(@, in_hand[c])]
  /\ in_hand' = [in_hand EXCEPT ![c] = 0]
  /\ UNCHANGED <<seen, peer>>

(* To a client that has left, the first send may seem to succeed.          *)
SendLost(c) ==
  /\ peer[c] = "left"
  /\ Goes(c, "sending", "waiting")
  /\ in_hand' = [in_hand EXCEPT ![c] = 0]
  /\ peer' = [peer EXCEPT ![c] = "reset"]
  /\ UNCHANGED <<seen, shown>>

(* A failed send ends the handler: its receiver is dropped.                *)
SendFails(c) ==
  /\ peer[c] # "on"
  /\ Goes(c, "sending", "gone")
  /\ in_hand' = [in_hand EXCEPT ![c] = 0]
  /\ UNCHANGED <<seen, peer, shown>>

(* The handler does not read its socket and learns nothing of this.        *)
Leave(c) ==
  /\ Running
  /\ c \notin ReadingClients
  /\ c \in Subscribed \/ ws[c] = "upgraded"
  /\ peer[c] = "on"
  /\ peer' = [peer EXCEPT ![c] = "left"]
  /\ UNCHANGED <<serverVars, ticks, current, ws, seen, in_hand, shown>>

(* Mutant: the end of the server waits for the WebSocket handlers.         *)
NoClientHeld == \A c \in Clients : ws[c] \in {"away", "gone"}

(* Only a handshake is a request in flight.                                *)
NoClientAwaited == \A c \in Clients : ws[c] # "handshake"

ClientStep(c) ==
  \/ ws_handler(c) \/ Upgraded(c) \/ Subscribe(c) \/ Changed(c) \/ Borrow(c)
  \/ Send(c) \/ SendLost(c) \/ SendFails(c) \/ Leave(c)

(* Nothing happens after the process has ended.                            *)
Ended == ~Running /\ UNCHANGED vars

Next ==
  \/ Tick
  \/ \E c \in Clients : ClientStep(c)
  \/ \E r \in Requests : RequestStep(r) /\ UNCHANGED clockVars
  \/ ServerStep /\ UNCHANGED clockVars
  \/ NoClientAwaited /\ ServerDone /\ UNCHANGED clockVars
  \/ Ended

Spec == Init /\ [][Next]_vars

(* The tokio runtime polls what is ready.  Whether a socket takes data is  *)
(* up to the client: only ReadingClients promise it.                       *)
Fairness ==
  /\ \A r \in Requests : /\ WF_vars(page_handler(r) /\ UNCHANGED clockVars)
                         /\ WF_vars(quit_handler(r) /\ UNCHANGED clockVars)
                         /\ WF_vars(QuitReplied(r) /\ UNCHANGED clockVars)
  /\ WF_vars(ShutdownRecv /\ UNCHANGED clockVars)
  /\ WF_vars(StopAccepting /\ UNCHANGED clockVars)
  /\ WF_vars(NoClientAwaited /\ ServerDone /\ UNCHANGED clockVars)
  /\ \A c \in Clients : /\ WF_vars(Upgraded(c))
                        /\ WF_vars(Subscribe(c))
                        /\ WF_vars(Changed(c))
                        /\ WF_vars(Borrow(c))
                        /\ WF_vars(SendFails(c))
  /\ \A c \in ReadingClients : WF_vars(Send(c))

FairSpec == Spec /\ Fairness

-----------------------------------------------------------------------------
(* The types of the variables (main.rs:34-63, 80-92).                      *)
TypeOK ==
  /\ ServerTypeOK
  /\ ticks \in 0 .. MaxTicks
  /\ current \in 0 .. ticks
  /\ ws \in [Clients -> {"away", "handshake", "upgraded", "waiting",
                         "notified", "sending", "gone"}]
  /\ seen \in [Clients -> 0 .. current]
  /\ in_hand \in [Clients -> 0 .. current]
  /\ peer \in [Clients -> {"on", "left", "reset"}]
  /\ shown \in [Clients -> Seq(0 .. current)]

(* Newer than what the client found, never back, the same at most twice.   *)
InOrder(s) ==
  /\ Len(s) > 1 => s[1] < s[2]
  /\ \A i \in 1 .. Len(s) - 1 : s[i] <= s[i + 1]
  /\ \A i \in 1 .. Len(s) - 2 : s[i] < s[i + 2]

(* A client is sent values of its own time only, never the text the channel*)
(* starts with or a value older than its subscription, and never one older *)
(* than the last.  `changed` and `borrow` are two reads: a value stored    *)
(* between them is sent twice, but no value is sent three times            *)
(* (main.rs:59-61).                                                        *)
ShownInOrder == \A c \in Clients : InOrder(shown[c])

(* However slow a client is and whatever it misses, it ends up with the    *)
(* newest value: what is stored while it is subscribed is followed by that *)
(* value or a newer one, unless the process ends                           *)
(* (main.rs:57-63).                                                        *)
NewestReaches ==
  \A c \in ReadingClients, v \in 1 .. MaxTicks :
    (c \in Subscribed /\ current = v /\ shown[c][1] < v)
      ~> (\/ shown[c] # <<>> /\ shown[c][Len(shown[c])] >= v
          \/ ~Running)
=============================================================================
