--------------------------- MODULE GracefulServer ---------------------------
(***************************************************************************)
(* The HTTP server of step02_httpserver: pages that are computed at once,  *)
(* /quit, and the end of the process, by /quit or by a signal.             *)
(* step10_websocket has the same server, ClockServer adds its WebSockets.  *)
(*                                                                         *)
(* axum polls the future that receives from `shutdown_rx` in a task of its *)
(* own and drops it, and the receiver in it, when it is done.  It stops    *)
(* accepting then, and is done itself when the requests that it accepted   *)
(* are answered or given up by their clients.                              *)
(***************************************************************************)
EXTENDS Naturals

CONSTANT Requests  \* the requests that may come

VARIABLES
  requests,        \* per request, where its handler is
  shutdown_queue,  \* the messages in the channel of /quit, which holds one
  shutdown_rx,     \* "open" until the future that has the receiver is done
  server           \* "up", "stopping", "draining", "done" or "killed"

serverVars == <<requests, shutdown_queue, shutdown_rx, server>>

Running == server \notin {"done", "killed"}

ServerInit ==
  /\ requests = [r \in Requests |-> "away"]
  /\ shutdown_queue = 0
  /\ shutdown_rx = "open"
  /\ server = "up"

(* Mutant: the end of the process does not wait for a /quit in its send.   *)
AlmostDone == {r \in Requests : requests[r] \in {"page", "sent"}}

InFlight == {r \in Requests : requests[r] \in {"page", "quit", "sent"}}

Accepting == server \in {"up", "stopping"}

(* A request of a page or of /quit; its handler is about to run.           *)
Accept(r) ==
  /\ Accepting
  /\ requests[r] = "away"
  /\ \E ask \in {"page", "quit"} : requests' = [requests EXCEPT ![r] = ask]
  /\ UNCHANGED <<shutdown_queue, shutdown_rx, server>>

Answer(r, place) ==
  /\ Running
  /\ requests[r] = place
  /\ requests' = [requests EXCEPT ![r] = "over"]
  /\ UNCHANGED <<shutdown_queue, shutdown_rx, server>>

(* Every other route: nothing is awaited, nothing is shared.               *)
page_handler(r) == Answer(r, "page")

(* Mutant: an unbounded channel.                                           *)
quit_handler_unbounded(r) ==
  /\ Running
  /\ requests[r] = "quit"
  /\ shutdown_queue' = shutdown_queue + 1
  /\ requests' = [requests EXCEPT ![r] = "sent"]
  /\ UNCHANGED <<shutdown_rx, server>>

(* `shutdown_tx.send(())` waits for room, or fails without a receiver; the *)
(* result is ignored.                                                      *)
quit_handler(r) ==
  /\ Running
  /\ requests[r] = "quit"
  /\ shutdown_queue = 0 \/ shutdown_rx = "closed"
  /\ shutdown_queue' = IF shutdown_rx = "open" THEN 1 ELSE 0
  /\ requests' = [requests EXCEPT ![r] = "sent"]
  /\ UNCHANGED <<shutdown_rx, server>>

QuitReplied(r) == Answer(r, "sent")

(* A client that closes its connection: the handler's future is dropped.   *)
GiveUp(r) == r \in InFlight /\ Answer(r, requests[r])

(* `shutdown_rx.recv().await` returns and its future is dropped.           *)
ShutdownRecv ==
  /\ server = "up"
  /\ shutdown_queue > 0
  /\ shutdown_queue' = 0
  /\ shutdown_rx' = "closed"
  /\ server' = "stopping"
  /\ UNCHANGED requests

(* The loop that accepts connections notices it.                           *)
StopAccepting ==
  /\ server = "stopping"
  /\ server' = "draining"
  /\ UNCHANGED <<requests, shutdown_queue, shutdown_rx>>

(* The server's future is done, `select!` returns and main with it.        *)
ServerDone ==
  /\ server = "draining"
  /\ InFlight = {}
  /\ server' = "done"
  /\ UNCHANGED <<requests, shutdown_queue, shutdown_rx>>

(* SIGINT or SIGTERM: `select!` returns at once.                           *)
Signal ==
  /\ Running
  /\ server' = "killed"
  /\ UNCHANGED <<requests, shutdown_queue, shutdown_rx>>

RequestStep(r) ==
  Accept(r) \/ page_handler(r) \/ quit_handler(r) \/ QuitReplied(r) \/ GiveUp(r)

ServerStep == ShutdownRecv \/ StopAccepting \/ Signal

-----------------------------------------------------------------------------
ServerTypeOK ==
  /\ requests \in [Requests -> {"away", "page", "quit", "sent", "over"}]
  /\ shutdown_queue \in 0 .. 1
  /\ shutdown_rx \in {"open", "closed"}
  /\ server \in {"up", "stopping", "draining", "done", "killed"}

(* Every request of /quit is answered, however many come while the server  *)
(* is going down: the channel has room for one message and one is received *)
(* (main.rs:28-41, 57).                                                    *)
QuitsAnswered ==
  \A r \in Requests :
    requests[r] = "quit" ~> (requests[r] = "over" \/ server = "killed")

(* After /quit the process ends: neither other requests nor, in step10,    *)
(* clients with an open WebSocket keep it (main.rs:56-61).                 *)
ShutsDown ==
  \A r \in Requests : requests[r] = "sent" ~> ~Running
=============================================================================
