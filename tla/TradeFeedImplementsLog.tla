----------------------- MODULE TradeFeedImplementsLog -----------------------
(***************************************************************************)
(* The server of step12_ws_feed against the log it keeps: the refinement   *)
(* mapping from TradeFeed to TradeLog.                                     *)
(***************************************************************************)
EXTENDS TradeFeed

LogOf(d) == [i \in DOMAIN d.trades |-> d.trades[i].nth]

AskedOf(call) ==
  CASE call.at = "none" -> "no"
    [] call.at = "replied" -> "answered"
    [] OTHER -> "waits"

QuestionOf(call) == IF call.at = "none" THEN <<>> ELSE call.request

AnswerOf(call) ==
  IF call.at # "replied" THEN <<>>
  ELSE IF ~call.reply.ok \/ call.request.do # "Range" THEN call.reply
  ELSE Ok([k \in DOMAIN call.reply.value |-> call.reply.value[k].nth])

Log ==
  INSTANCE TradeLog WITH
    total    <- Total(db),
    log      <- LogOf(db),
    asked    <- [r \in Readers |-> AskedOf(calls[r])],
    question <- [r \in Readers |-> QuestionOf(calls[r])],
    answer   <- [r \in Readers |-> AnswerOf(calls[r])]

(* Across failed transactions and restarts the table of trades is a log    *)
(* that only grows at its end, in the order of the exchange; what is       *)
(* published is in it already, in its order and once; and every answer to  *)
(* a reader is true of the log at one moment while the reader waited.      *)
ImplementsLog == Log!Spec
=============================================================================
