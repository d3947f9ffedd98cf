------------------------------ MODULE AckRoute ------------------------------
(***************************************************************************)
(* /ack/m/n of step11: `async_ack` computes the Ackermann function in the  *)
(* task of the connection and writes a line when a call begins and one     *)
(* when it has its result.  A step here goes from one write to the next.   *)
(*                                                                         *)
(* The writes go to the channel of a WebSocketWriter, whose task hands     *)
(* them to the socket: a write waits while the channel is full.  That task *)
(* outlives every error of the socket, so no write fails and `?` never     *)
(* returns.  Arguments are natural: for a negative one the recursion has   *)
(* no end.                                                                 *)
(***************************************************************************)
EXTENDS Integers, Sequences

CONSTANTS
  AckRequests,     \* the pairs (m, n) to choose from
  ChannelCapacity  \* of the mpsc channel of a WebSocketWriter (100)

ASSUME AckAssumption ==
  AckRequests \subseteq Nat \X Nat /\ ChannelCapacity \in Nat \ {0}

VARIABLES
  calls,    \* the futures of async_ack, each inside the one before: what it
            \* computes, at which await it is, and its result at "close"
  lines,    \* history: what was written
  answer,   \* the result of the outermost call, in a sequence of its own
  taken,    \* how many lines the writer's task has taken from the channel
  sent      \* how many of them the socket has accepted

writer  == <<taken, sent>>
ackVars == <<calls, lines, answer, writer>>

Call(m, n, indent) == [m |-> m, n |-> n, indent |-> indent, at |-> "begin"]

Line(call, result) ==
  [m |-> call.m, n |-> call.n, indent |-> call.indent, result |-> result]

(* In place of a result in the first line of a call.                       *)
Unknown == -1

AckInit ==
  /\ calls = <<>>
  /\ lines = <<>>
  /\ answer = <<>>
  /\ taken = 0 /\ sent = 0

ackermann_handler ==
  /\ calls = <<>> /\ answer = <<>>
  /\ \E request \in AckRequests :
       calls' = <<Call(request[1], request[2], 0)>>
  /\ UNCHANGED <<lines, answer, writer>>

(* Mutant: a write waits for the socket, as if there were no channel.      *)
RoomOnceSent == sent = Len(lines)

(* The lines that are in the channel leave a place.                        *)
Room == Len(lines) - taken < ChannelCapacity

write_text(line) ==
  /\ Room
  /\ lines' = Append(lines, line)
  /\ UNCHANGED writer

Top    == calls[Len(calls)]
Below  == SubSeq(calls, 1, Len(calls) - 1)

(* Mutant: (m, 0) goes on with 0.                                          *)
AfterBeginZero(call) ==
  IF call.n = 0
  THEN <<[call EXCEPT !.at = "last"], Call(call.m - 1, 0, call.indent + 2)>>
  ELSE <<[call EXCEPT !.at = "inner"],
         Call(call.m, call.n - 1, call.indent + 2)>>

(* The two arms of `match (m, n)`.                                         *)
AfterBegin(call) ==
  IF call.n = 0
  THEN <<[call EXCEPT !.at = "last"], Call(call.m - 1, 1, call.indent + 2)>>
  ELSE <<[call EXCEPT !.at = "inner"],
         Call(call.m, call.n - 1, call.indent + 2)>>

Begin ==
  /\ calls # <<>> /\ Top.at = "begin" /\ Top.m # 0
  /\ write_text(Line(Top, Unknown))
  /\ calls' = Below \o AfterBegin(Top)
  /\ UNCHANGED answer

(* The innermost call returns `r` to the one that awaits it.               *)
Returned(r) ==
  IF Below = <<>> THEN <<>>
  ELSE LET caller == Below[Len(Below)]
           rest   == SubSeq(Below, 1, Len(Below) - 1)
       IN IF caller.at = "inner"
          THEN rest \o <<[caller EXCEPT !.at = "last"],
                         Call(caller.m - 1, r, caller.indent + 2)>>
          ELSE Append(rest, [m |-> caller.m, n |-> caller.n,
                             indent |-> caller.indent, at |-> "close",
                             r |-> r])

Returns(r) ==
  /\ write_text(Line(Top, r))
  /\ calls' = Returned(r)
  /\ answer' = IF Below = <<>> THEN <<r>> ELSE answer

Leaf  == calls # <<>> /\ Top.at = "begin" /\ Top.m = 0 /\ Returns(Top.n + 1)
Close == calls # <<>> /\ Top.at = "close" /\ Returns(Top.r)

async_ack == Begin \/ Leaf \/ Close

-----------------------------------------------------------------------------
(* The task of the writer, which goes on after the answer, and the socket. *)
(* A send to a client that went away fails, and the error is dropped; one  *)
(* to a client that does not read takes for ever.                          *)

Take ==
  /\ taken = sent /\ taken < Len(lines)
  /\ taken' = taken + 1
  /\ UNCHANGED <<calls, lines, answer, sent>>

SendLine ==
  /\ sent < taken
  /\ sent' = sent + 1
  /\ UNCHANGED <<calls, lines, answer, taken>>

AckNext == ackermann_handler \/ async_ack \/ Take \/ SendLine

AckSpec == AckInit /\ [][AckNext]_ackVars

-----------------------------------------------------------------------------
(* The reference implementation, `fn ackermann`.                           *)
ackermann[p \in Nat \X Nat] ==
  IF p[1] = 0 THEN p[2] + 1
  ELSE IF p[2] = 0 THEN ackermann[<<p[1] - 1, 1>>]
  ELSE ackermann[<<p[1] - 1, ackermann[<<p[1], p[2] - 1>>]>>]

(* The lines whose call has not got its result yet: each result closes the *)
(* last line that is open.                                                 *)
OpenLines[k \in 0 .. Len(lines)] ==
  IF k = 0 THEN <<>>
  ELSE LET open == OpenLines[k - 1]
       IN IF lines[k].result = Unknown THEN Append(open, lines[k])
          ELSE IF lines[k].m = 0 THEN open
          ELSE SubSeq(open, 1, Len(open) - 1)

(* Every line with a result is right by the reference implementation, and  *)
(* the lines nest: a result has the arguments and the indentation of the   *)
(* line that is open (main.rs:649-680).                                    *)
AckAsReference ==
  /\ \A k \in 1 .. Len(lines) :
       LET line == lines[k]
           open == OpenLines[k - 1]
       IN line.result # Unknown =>
            /\ line.result = ackermann[<<line.m, line.n>>]
            /\ line.indent = 2 * Len(open) - (IF line.m = 0 THEN 0 ELSE 2)
            /\ line.m # 0 => line = Line(open[Len(open)], line.result)
  /\ answer # <<>> => answer = <<lines[Len(lines)].result>>

(* Under fairness of all but the socket: the answer is computed, unless    *)
(* the client stops to take the lines and the channel stays full for ever, *)
(* with one line more in the hand of the writer's task (main.rs:167-172,   *)
(* 658-684).                                                               *)
AckAnswered ==
  calls # <<>> ~>
    \/ answer # <<>>
    \/ [](sent < taken /\ Len(lines) = taken + ChannelCapacity)
=============================================================================
